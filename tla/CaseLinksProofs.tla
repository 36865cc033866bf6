--------------------------- MODULE CaseLinksProofs ---------------------------
(***************************************************************************)
(* Theorems about CaseLinks, for any requests, persons, evidence and       *)
(* lists.  What a handler has looked up stays in the sight of its session, *)
(* for rows are only added: so it commits links whose grounds it saw, and  *)
(* all it was asked for.  Every handler writes its rows in the order of    *)
(* the tables, and only within a list can two of them differ: a cycle of   *)
(* waits is one of lists.                                                  *)
(***************************************************************************)
EXTENDS CaseLinks, FiniteSetTheorems, SequenceTheorems, WellFoundedInduction, TLAPS

\* A look-up that writes its row: the row is new, or its text is.
Writes(i) == i.missing = "insert" \/ i.text # Nil

\* What the j-th look-up of r was for is in sight, or was evidence the case lacks.
Met(r, j) ==
    \/ Handler(r)[j].row \in DOMAIN Visible(r)
    \/ r \in bad /\ Handler(r)[j].given # << >>

\* How far an open transaction has got.
Progress(r) ==
    pc[r] \in Working =>
        /\ \A j \in 1 .. at[r] - 1 : Met(r, j)
        /\ pc[r] \in {"insert", "update"} =>
              /\ at[r] <= Len(Handler(r))
              /\ Current(r).given = << >> \/ Current(r).given \in DOMAIN Visible(r)
        /\ pc[r] = "insert" => Current(r).missing = "insert"
        /\ pc[r] = "update" => Current(r).text # Nil /\ Current(r).row \in DOMAIN Visible(r)

\* What it holds: rows of look-ups that are behind it, new or on file.
HoldsItsOwn(r) ==
    /\ pc[r] \notin Working => DOMAIN mine[r] = {}
    /\ \A k \in DOMAIN mine[r] :
          /\ \E j \in 1 .. at[r] - 1 :
                j <= Len(Handler(r)) /\ Handler(r)[j].row = k /\ Writes(Handler(r)[j])
          /\ k \in DOMAIN rows \cup Wanted(r)

OpenInv(r) == Progress(r) /\ HoldsItsOwn(r) /\ Grounded(DOMAIN Visible(r))

IInv ==
    /\ TypeOK
    /\ LinksAreGrounded
    /\ AllOrNothing
    /\ OnlyDisorderDeadlocks
    /\ \A r \in Requests : OpenInv(r)

-----------------------------------------------------------------------------
\* The requests, field by field.
LEMMA RequestFields ==
    ASSUME NEW q \in Request
    PROVE  /\ q.op \in {"suspect", "witness", "victim", "evidence", "update_suspect", "testimony"}
           /\ q.case \in CaseIds
           /\ q.op # "evidence" => q.person \in PersonIds \cup {New}
           /\ q.op \in {"update_suspect", "testimony"} => q.person \in PersonIds
           /\ q.text \in Texts \cup {Nil}
           /\ q.op = "suspect" => q.list \in Seq(EvidenceIds)
           /\ q.op = "testimony" => q.list \in Seq(PersonIds)
           /\ q.op \in {"update_suspect", "testimony"} => q.text \in Texts
BY ListsAssumption DEF Request

LEMMA ListIsSeq ==
    ASSUME NEW S, NEW n \in Nat, NEW tail \in [1 .. n -> S]
    PROVE  tail \in Seq(S) /\ Len(tail) = n
BY IsASeq, LenProperties

\* The fields of a look-up.
Is(i, row, text, missing, given) ==
    i.row = row /\ i.text = text /\ i.missing = missing /\ i.given = given

Resolved(r) == IF req[r].person = New THEN "insert" ELSE "not_found"

LEMMA Fields ==
    /\ \A k, t, o : Is(LookUp(k, t, o), k, t, o, << >>)
    /\ \A k, o : Is(Need(k, o), k, Nil, o, << >>)
    /\ \A k : Is(Ensure(k), k, Nil, "insert", << >>)
    /\ \A c, p, e : Is(LinkEvidence(c, p, e), LinkedTo(c, p, e), Nil, "insert", CollectedFor(e, c))
    /\ \A r : Is(ResolvePerson(r), Person(PersonOf(r)), Nil, Resolved(r), << >>)
BY DEF Is, LookUp, Need, Ensure, LinkEvidence, ResolvePerson, Resolved, PersonOf

\* What the handler of a request is, operation by operation.
LEMMA SuspectHandler ==
    ASSUME NEW r \in Requests, req[r] \in Request, req[r].op = "suspect"
    PROVE  LET c == req[r].case
               p == PersonOf(r)
               n == Len(req[r].list)
               h == Handler(r)
           IN  /\ n \in Nat /\ Len(h) = 4 + n /\ DOMAIN h = 1 .. 4 + n
               /\ Is(h[1], CaseRow(c), Nil, "not_found", << >>)
               /\ Is(h[2], Person(p), Nil, Resolved(r), << >>)
               /\ Is(h[3], Suspect(p), Nil, "insert", << >>)
               /\ Is(h[4], InvolvedIn(c, p), Nil, "insert", << >>)
               /\ \A i \in 1 .. n :
                    Is(h[4 + i], LinkedTo(c, p, req[r].list[i]), Nil, "insert",
                       CollectedFor(req[r].list[i], c))
<1> DEFINE c == req[r].case
           p == PersonOf(r)
           n == Len(req[r].list)
           head == <<Need(CaseRow(c), "not_found"), ResolvePerson(r),
                     Ensure(Suspect(p)), Ensure(InvolvedIn(c, p))>>
           tail == [i \in DOMAIN req[r].list |-> LinkEvidence(c, p, req[r].list[i])]
           S == {head[1], head[2], head[3], head[4]} \cup {tail[i] : i \in 1 .. n}
<1>1. n \in Nat /\ DOMAIN req[r].list = 1 .. n
  BY RequestFields, LenProperties
<1>2. Handler(r) = head \o tail
  BY DEF Handler, AddSuspect
<1>3. tail \in [1 .. n -> S]
  BY <1>1
<1>4. \A i \in 1 .. n : tail[i] = LinkEvidence(c, p, req[r].list[i])
  BY <1>1
<1>5. head \in Seq(S)
  OBVIOUS
<1>6. Len(head) = 4
  OBVIOUS
<1>7. /\ head[1] = Need(CaseRow(c), "not_found") /\ head[2] = ResolvePerson(r)
      /\ head[3] = Ensure(Suspect(p)) /\ head[4] = Ensure(InvolvedIn(c, p))
  OBVIOUS
<1> HIDE DEF head, tail, S, n
<1>8. tail \in Seq(S) /\ Len(tail) = n
  BY <1>1, <1>3, ListIsSeq
<1>9. /\ Handler(r) \in Seq(S)
      /\ Len(Handler(r)) = Len(head) + Len(tail)
      /\ \A i \in 1 .. Len(head) + Len(tail) :
            Handler(r)[i] = IF i <= Len(head) THEN head[i] ELSE tail[i - Len(head)]
  BY <1>2, <1>5, <1>8, ConcatProperties, Zenon
<1>10. Len(Handler(r)) = 4 + n
  BY <1>1, <1>6, <1>8, <1>9
<1>13. DOMAIN Handler(r) = 1 .. 4 + n
  BY <1>9, <1>10, LenProperties
<1>14. \A i \in 1 .. 4 : Handler(r)[i] = head[i]
  BY <1>1, <1>6, <1>8, <1>9
<1>15. \A i \in 1 .. n : Handler(r)[4 + i] = tail[i]
  <2> SUFFICES ASSUME NEW i \in 1 .. n PROVE Handler(r)[4 + i] = tail[i]
    OBVIOUS
  <2>1. 4 + i \in 1 .. 4 + n /\ ~ (4 + i <= 4) /\ (4 + i) - 4 = i
    BY <1>1
  <2> QED
    BY <1>6, <1>8, <1>9, <2>1
<1> QED
  BY <1>1, <1>4, <1>6, <1>7, <1>10, <1>13, <1>14, <1>15, Fields DEF n

LEMMA WitnessHandler ==
    ASSUME NEW r \in Requests, req[r].op = "witness"
    PROVE  LET c == req[r].case
               p == PersonOf(r)
               h == Handler(r)
           IN  /\ Len(h) = 4 /\ DOMAIN h = 1 .. 4
               /\ Is(h[1], CaseRow(c), Nil, "not_found", << >>)
               /\ Is(h[2], Person(p), Nil, Resolved(r), << >>)
               /\ Is(h[3], Witness(p), req[r].text, "insert", << >>)
               /\ Is(h[4], TestifiesIn(c, p), Nil, "insert", << >>)
<1>1. LET c == req[r].case
          p == PersonOf(r)
          h == Handler(r)
      IN  /\ Len(h) = 4 /\ DOMAIN h = 1 .. 4
          /\ h[1] = Need(CaseRow(c), "not_found")
          /\ h[2] = ResolvePerson(r)
          /\ h[3] = LookUp(Witness(p), req[r].text, "insert")
          /\ h[4] = Ensure(TestifiesIn(c, p))
  BY DEF Handler, AddWitness
<1> QED
  BY <1>1, Fields

LEMMA VictimHandler ==
    ASSUME NEW r \in Requests, req[r].op = "victim"
    PROVE  LET c == req[r].case
               p == PersonOf(r)
               h == Handler(r)
           IN  /\ Len(h) = 4 /\ DOMAIN h = 1 .. 4
               /\ Is(h[1], CaseRow(c), Nil, "not_found", << >>)
               /\ Is(h[2], Person(p), Nil, Resolved(r), << >>)
               /\ Is(h[3], Victim(p), req[r].text, "insert", << >>)
               /\ Is(h[4], AffectedBy(c, p), Nil, "insert", << >>)
<1>1. LET c == req[r].case
          p == PersonOf(r)
          h == Handler(r)
      IN  /\ Len(h) = 4 /\ DOMAIN h = 1 .. 4
          /\ h[1] = Need(CaseRow(c), "not_found")
          /\ h[2] = ResolvePerson(r)
          /\ h[3] = LookUp(Victim(p), req[r].text, "insert")
          /\ h[4] = Ensure(AffectedBy(c, p))
  BY DEF Handler, AddVictim
<1> QED
  BY <1>1, Fields

LEMMA EvidenceHandler ==
    ASSUME NEW r \in Requests, req[r].op = "evidence"
    PROVE  LET h == Handler(r)
           IN  /\ Len(h) = 3 /\ DOMAIN h = 1 .. 3
               /\ Is(h[1], CaseRow(req[r].case), Nil, "not_found", << >>)
               /\ Is(h[2], Evidence(r), Nil, "insert", << >>)
               /\ Is(h[3], CollectedFor(r, req[r].case), Nil, "insert", << >>)
<1>1. LET h == Handler(r)
      IN  /\ Len(h) = 3 /\ DOMAIN h = 1 .. 3
          /\ h[1] = Need(CaseRow(req[r].case), "not_found")
          /\ h[2] = Ensure(Evidence(r))
          /\ h[3] = Ensure(CollectedFor(r, req[r].case))
  BY DEF Handler, AddEvidence
<1> QED
  BY <1>1, Fields

LEMMA UpdateHandler ==
    ASSUME NEW r \in Requests, req[r].op = "update_suspect"
    PROVE  LET c == req[r].case
               p == req[r].person
               h == Handler(r)
           IN  /\ Len(h) = 3 /\ DOMAIN h = 1 .. 3
               /\ Is(h[1], CaseRow(c), Nil, "not_found", << >>)
               /\ Is(h[2], InvolvedIn(c, p), Nil, "refused", << >>)
               /\ Is(h[3], Suspect(p), req[r].text, "refused", << >>)
<1>1. LET c == req[r].case
          p == req[r].person
          h == Handler(r)
      IN  /\ Len(h) = 3 /\ DOMAIN h = 1 .. 3
          /\ h[1] = Need(CaseRow(c), "not_found")
          /\ h[2] = Need(InvolvedIn(c, p), "refused")
          /\ h[3] = LookUp(Suspect(p), req[r].text, "refused")
  BY DEF Handler, UpdateSuspect
<1> QED
  BY <1>1, Fields

LEMMA TestimonyHandler ==
    ASSUME NEW r \in Requests, req[r] \in Request, req[r].op = "testimony"
    PROVE  LET c == req[r].case
               w == req[r].person
               n == Len(req[r].list)
               h == Handler(r)
           IN  /\ n \in Nat /\ Len(h) = 3 + 2 * n /\ DOMAIN h = 1 .. 3 + 2 * n
               /\ Is(h[1], CaseRow(c), Nil, "not_found", << >>)
               /\ Is(h[2], Witness(w), Nil, "refused", << >>)
               /\ Is(h[3], TestifiesIn(c, w), req[r].text, "refused", << >>)
               /\ \A i \in 1 .. n :
                     /\ Is(h[2 * i + 2], Suspect(req[r].list[i]), Nil, "refused", << >>)
                     /\ Is(h[2 * i + 3], PointedTo(c, w, req[r].list[i]), Nil, "insert", << >>)
<1> DEFINE c == req[r].case
           w == req[r].person
           n == Len(req[r].list)
           m == 2 * n
           head == <<Need(CaseRow(c), "not_found"), Need(Witness(w), "refused"),
                     LookUp(TestifiesIn(c, w), req[r].text, "refused")>>
           Named(i) == req[r].list[(i + 1) \div 2]
           tail == [i \in 1 .. m |->
                      IF i % 2 = 1 THEN Need(Suspect(Named(i)), "refused")
                      ELSE Ensure(PointedTo(c, w, Named(i)))]
           S == {head[1], head[2], head[3]} \cup {tail[i] : i \in 1 .. m}
<1>1. n \in Nat /\ m \in Nat
  BY RequestFields, LenProperties
<1>2. Handler(r) = head \o tail
  BY DEF Handler, RecordTestimony
<1>3. tail \in [1 .. m -> S]
  OBVIOUS
<1>4. ASSUME NEW i \in 1 .. n
      PROVE  /\ tail[2 * i - 1] = Need(Suspect(req[r].list[i]), "refused")
             /\ tail[2 * i] = Ensure(PointedTo(c, w, req[r].list[i]))
  <2>1. /\ 2 * i - 1 \in 1 .. m /\ 2 * i \in 1 .. m
        /\ (2 * i - 1) % 2 = 1 /\ (2 * i) % 2 = 0
        /\ (2 * i - 1 + 1) \div 2 = i /\ (2 * i + 1) \div 2 = i
    BY <1>1
  <2> HIDE DEF n
  <2> QED
    BY <2>1
<1>5. head \in Seq(S)
  OBVIOUS
<1>6. Len(head) = 3
  OBVIOUS
<1>7. /\ head[1] = Need(CaseRow(c), "not_found") /\ head[2] = Need(Witness(w), "refused")
      /\ head[3] = LookUp(TestifiesIn(c, w), req[r].text, "refused")
  OBVIOUS
<1> HIDE DEF head, tail, S, m
<1>8. tail \in Seq(S) /\ Len(tail) = m
  BY <1>1, <1>3, ListIsSeq
<1>9. /\ Handler(r) \in Seq(S)
      /\ Len(Handler(r)) = Len(head) + Len(tail)
      /\ \A i \in 1 .. Len(head) + Len(tail) :
            Handler(r)[i] = IF i <= Len(head) THEN head[i] ELSE tail[i - Len(head)]
  BY <1>2, <1>5, <1>8, ConcatProperties, Zenon
<1>10. Len(Handler(r)) = 3 + m
  BY <1>1, <1>6, <1>8, <1>9
<1>13. DOMAIN Handler(r) = 1 .. 3 + m
  BY <1>9, <1>10, LenProperties
<1>14. \A i \in 1 .. 3 : Handler(r)[i] = head[i]
  BY <1>1, <1>6, <1>8, <1>9
<1>15. \A i \in 1 .. m : Handler(r)[3 + i] = tail[i]
  <2> SUFFICES ASSUME NEW i \in 1 .. m PROVE Handler(r)[3 + i] = tail[i]
    OBVIOUS
  <2>1. 3 + i \in 1 .. 3 + m /\ ~ (3 + i <= 3) /\ (3 + i) - 3 = i
    BY <1>1
  <2> QED
    BY <1>6, <1>8, <1>9, <2>1
<1>11. m = 2 * n
  BY DEF m
<1> HIDE DEF n
<1>12. ASSUME NEW i \in 1 .. n
       PROVE  Handler(r)[2 * i + 2] = tail[2 * i - 1] /\ Handler(r)[2 * i + 3] = tail[2 * i]
  <2>1. /\ 2 * i - 1 \in 1 .. m /\ 2 * i \in 1 .. m
        /\ 3 + (2 * i - 1) = 2 * i + 2 /\ 3 + 2 * i = 2 * i + 3
    BY <1>1, <1>11
  <2> QED
    BY <1>15, <2>1
<1> QED
  BY <1>1, <1>4, <1>6, <1>7, <1>10, <1>11, <1>12, <1>13, <1>14, Fields DEF n

\* Every look-up of a handler.
LEMMA HandlerShape ==
    ASSUME NEW r \in Requests, req[r] \in Request
    PROVE  /\ Len(Handler(r)) \in Nat /\ DOMAIN Handler(r) = 1 .. Len(Handler(r))
           /\ \A i \in DOMAIN Handler(r) :
                 /\ Handler(r)[i].missing \in {"insert", "not_found", "refused"}
                 /\ Handler(r)[i].text \in Texts \cup {Nil}
<1> DEFINE h == Handler(r)
<1> USE DEF Is, Resolved
<1>1. req[r].text \in Texts \cup {Nil}
  BY RequestFields
<1>2. CASE req[r].op = "suspect"
  <2>1. \A i \in 1 .. 4 + Len(req[r].list) : i \in 1 .. 4 \/ i - 4 \in 1 .. Len(req[r].list)
    BY <1>2, SuspectHandler
  <2>2. \A i \in 1 .. Len(req[r].list) : 4 + (i - 4) = i
    OBVIOUS
  <2>3. ASSUME NEW i \in DOMAIN h
        PROVE  h[i].missing \in {"insert", "not_found", "refused"} /\ h[i].text = Nil
    <3>1. CASE i \in 1 .. 4
      BY <1>2, <3>1, SuspectHandler
    <3>2. CASE i - 4 \in 1 .. Len(req[r].list)
      BY <1>2, <3>2, SuspectHandler
    <3> QED
      BY <1>2, <2>1, <3>1, <3>2, SuspectHandler
  <2> QED
    BY <1>2, <2>3, SuspectHandler
<1>3. CASE req[r].op = "testimony"
  <2>1. ASSUME NEW i \in DOMAIN h
        PROVE  h[i].missing \in {"insert", "not_found", "refused"} /\ h[i].text \in Texts \cup {Nil}
    <3>1. CASE i \in 1 .. 3
      BY <1>1, <1>3, <3>1, TestimonyHandler
    <3>2. CASE i > 3
      <4>1. PICK k \in 1 .. Len(req[r].list) : i = 2 * k + 2 \/ i = 2 * k + 3
        <5> DEFINE n == Len(req[r].list)
        <5>1. n \in Nat /\ i \in 1 .. 3 + 2 * n
          BY <1>3, TestimonyHandler
        <5> HIDE DEF n
        <5>2. /\ (i - 2) \div 2 \in 1 .. n
              /\ i = 2 * ((i - 2) \div 2) + 2 \/ i = 2 * ((i - 2) \div 2) + 3
          BY <3>2, <5>1
        <5> QED
          BY <5>2 DEF n
      <4> QED
        BY <1>3, <4>1, TestimonyHandler
    <3> QED
      BY <1>3, <3>1, <3>2, TestimonyHandler
  <2> QED
    BY <1>3, <2>1, TestimonyHandler
<1>4. CASE req[r].op = "witness"
  BY <1>1, <1>4, WitnessHandler
<1>5. CASE req[r].op = "victim"
  BY <1>1, <1>5, VictimHandler
<1>6. CASE req[r].op = "evidence"
  BY <1>6, EvidenceHandler
<1>7. CASE req[r].op = "update_suspect"
  BY <1>1, <1>7, UpdateHandler
<1> QED
  BY <1>2, <1>3, <1>4, <1>5, <1>6, <1>7, RequestFields

\* The place in its list of what r is at.
Place(r, i) == IF req[r].op = "suspect" THEN i - 4 ELSE (i - 3) \div 2

\* What r writes at its i-th look-up.
WriteOf(r, i, k) ==
    LET c == req[r].case
        p == PersonOf(r)
        item == req[r].list[Place(r, i)]
    IN  \/ req[r].op \in {"suspect", "witness", "victim"} /\ i = 2 /\ k = Person(r)
        \/ req[r].op = "suspect" /\ i = 3 /\ k = Suspect(p)
        \/ req[r].op = "suspect" /\ i = 4 /\ k = InvolvedIn(c, p)
        \/ req[r].op = "suspect" /\ i > 4 /\ Place(r, i) \in 1 .. Len(req[r].list)
             /\ k = LinkedTo(c, p, item)
        \/ req[r].op = "witness" /\ i = 3 /\ k = Witness(p)
        \/ req[r].op = "witness" /\ i = 4 /\ k = TestifiesIn(c, p)
        \/ req[r].op = "victim" /\ i = 3 /\ k = Victim(p)
        \/ req[r].op = "victim" /\ i = 4 /\ k = AffectedBy(c, p)
        \/ req[r].op = "evidence" /\ i = 2 /\ k = Evidence(r)
        \/ req[r].op = "evidence" /\ i = 3 /\ k = CollectedFor(r, c)
        \/ req[r].op = "update_suspect" /\ i = 3 /\ k = Suspect(p)
        \/ req[r].op = "testimony" /\ i = 3 /\ k = TestifiesIn(c, p)
        \/ req[r].op = "testimony" /\ i > 4 /\ i = 2 * Place(r, i) + 3
             /\ Place(r, i) \in 1 .. Len(req[r].list)
             /\ k = PointedTo(c, p, item)

LEMMA PersonNamed ==
    ASSUME NEW r \in Requests, req[r] \in Request, req[r].op # "evidence"
    PROVE  /\ PersonOf(r) \in People
           /\ req[r].op \in {"update_suspect", "testimony"} => PersonOf(r) = req[r].person
BY RequestFields, SentinelAssumption DEF PersonOf, People

LEMMA WrittenRow ==
    ASSUME NEW r \in Requests, req[r] \in Request, NEW i \in DOMAIN Handler(r),
           Writes(Handler(r)[i])
    PROVE  WriteOf(r, i, Handler(r)[i].row)
<1> DEFINE h == Handler(r)
<1> USE DEF Is, Resolved, Writes
<1>1. CASE req[r].op = "suspect"
  <2>1. CASE i \in 1 .. 4
    BY <1>1, <2>1, SuspectHandler DEF WriteOf, PersonOf
  <2>2. CASE i > 4
    <3>1. i - 4 \in 1 .. Len(req[r].list) /\ 4 + (i - 4) = i
      BY <1>1, <2>2, SuspectHandler
    <3>2. h[i].row = LinkedTo(req[r].case, PersonOf(r), req[r].list[i - 4])
      BY <1>1, <3>1, SuspectHandler
    <3> QED
      BY <1>1, <2>2, <3>1, <3>2 DEF WriteOf, Place
  <2> QED
    BY <1>1, <2>1, <2>2, SuspectHandler
<1>2. CASE req[r].op = "testimony"
  <2> DEFINE n == Len(req[r].list)
             k == (i - 2) \div 2
  <2>1. PersonOf(r) = req[r].person
    BY <1>2, PersonNamed
  <2>2. CASE i \in 1 .. 3
    BY <1>2, <2>1, <2>2, TestimonyHandler DEF WriteOf
  <2>3. CASE i > 3
    <3>1. n \in Nat /\ i \in 1 .. 3 + 2 * n
      BY <1>2, TestimonyHandler
    <3> HIDE DEF n
    <3>2. k \in 1 .. n /\ (i = 2 * k + 2 \/ i = 2 * k + 3)
      BY <2>3, <3>1
    <3> HIDE DEF k
    <3>3. i # 2 * k + 2
      BY <1>2, <3>2, TestimonyHandler DEF n
    <3>4. i = 2 * k + 3 /\ (i - 3) \div 2 = k /\ i > 4
      BY <3>1, <3>2, <3>3
    <3>5. h[i].row = PointedTo(req[r].case, req[r].person, req[r].list[k])
      BY <1>2, <3>2, <3>4, TestimonyHandler DEF n
    <3> QED
      BY <1>2, <2>1, <3>2, <3>4, <3>5 DEF WriteOf, Place, n
  <2> QED
    BY <1>2, <2>2, <2>3, TestimonyHandler
<1>3. CASE req[r].op = "witness"
  BY <1>3, WitnessHandler DEF WriteOf, PersonOf
<1>4. CASE req[r].op = "victim"
  BY <1>4, VictimHandler DEF WriteOf, PersonOf
<1>5. CASE req[r].op = "evidence"
  BY <1>5, EvidenceHandler DEF WriteOf
<1>6. CASE req[r].op = "update_suspect"
  BY <1>6, UpdateHandler, PersonNamed DEF WriteOf
<1> QED
  BY <1>1, <1>2, <1>3, <1>4, <1>5, <1>6, RequestFields
-----------------------------------------------------------------------------
\* The tables in the order in which handlers write them.
Level(k) ==
    IF k[1] \in {"linked_to", "pointed_to"} THEN 3
    ELSE IF k[1] \in {"involved_in", "testifies_in", "affected_by", "collected_for"} THEN 2
    ELSE IF k[1] \in {"suspect", "witness", "victim", "evidence"} THEN 1
    ELSE 0

LEMMA Levels ==
    /\ \A p : /\ Level(Person(p)) = 0 /\ Level(Suspect(p)) = 1 /\ Level(Witness(p)) = 1
              /\ Level(Victim(p)) = 1 /\ Level(Evidence(p)) = 1
    /\ \A c, p : /\ Level(InvolvedIn(c, p)) = 2 /\ Level(TestifiesIn(c, p)) = 2
                 /\ Level(AffectedBy(c, p)) = 2 /\ Level(CollectedFor(p, c)) = 2
    /\ \A c, p, e : Level(LinkedTo(c, p, e)) = 3 /\ Level(PointedTo(c, p, e)) = 3
BY DEF Level, Person, Suspect, Witness, Victim, Evidence, InvolvedIn, TestifiesIn, AffectedBy,
       CollectedFor, LinkedTo, PointedTo

LEMMA LevelOf ==
    ASSUME NEW r \in Requests, req[r] \in Request, NEW i \in DOMAIN Handler(r), NEW k,
           WriteOf(r, i, k)
    PROVE  /\ i \in {2, 3} \/ i = 4 \/ i > 4
           /\ i = 2 => Level(k) = IF req[r].op = "evidence" THEN 1 ELSE 0
           /\ i = 3 => Level(k) = IF req[r].op \in {"evidence", "testimony"} THEN 2 ELSE 1
           /\ i = 4 => Level(k) = 2
           /\ i > 4 => Level(k) = 3
BY Levels DEF WriteOf

\* A handler writes table by table; only a list gives it two rows of one.
LEMMA HandlerClimbs ==
    ASSUME NEW r \in Requests, req[r] \in Request,
           NEW i \in DOMAIN Handler(r), NEW j \in DOMAIN Handler(r), j < i,
           Writes(Handler(r)[i]), Writes(Handler(r)[j])
    PROVE  /\ Level(Handler(r)[j].row) \in 0 .. 3 /\ Level(Handler(r)[i].row) \in 0 .. 3
           /\ \/ Level(Handler(r)[j].row) < Level(Handler(r)[i].row)
              \/ Level(Handler(r)[j].row) = 3 /\ Level(Handler(r)[i].row) = 3
<1>1. WriteOf(r, i, Handler(r)[i].row) /\ WriteOf(r, j, Handler(r)[j].row)
  BY WrittenRow
<1>2. i \in Nat /\ j \in Nat
  BY HandlerShape
<1>3. req[r].op \in {"evidence", "testimony"} => i # 4 /\ j # 4
  BY <1>1 DEF WriteOf
<1>4. req[r].op = "testimony" => i # 2 /\ j # 2
  BY <1>1 DEF WriteOf
<1> QED
  BY <1>1, <1>2, <1>3, <1>4, LevelOf

\* Two requests that write one row of a list are of one kind, on one person in
\* one case, and name the same item.
LEMMA SharedRow ==
    ASSUME NEW q \in Requests, NEW s \in Requests, req[q] \in Request, req[s] \in Request,
           NEW i \in Nat, NEW j \in Nat, NEW k, Level(k) = 3,
           WriteOf(q, i, k), WriteOf(s, j, k)
    PROVE  /\ req[q].op \in {"suspect", "testimony"} /\ req[s].op = req[q].op
           /\ req[s].case = req[q].case /\ PersonOf(s) = PersonOf(q)
           /\ Place(q, i) \in 1 .. Len(req[q].list) /\ Place(s, j) \in 1 .. Len(req[s].list)
           /\ req[s].list[Place(s, j)] = req[q].list[Place(q, i)]
<1> DEFINE a == req[q].list[Place(q, i)]
           b == req[s].list[Place(s, j)]
<1>1. \/ /\ req[q].op = "suspect" /\ Place(q, i) \in 1 .. Len(req[q].list)
         /\ k = LinkedTo(req[q].case, PersonOf(q), a)
      \/ /\ req[q].op = "testimony" /\ Place(q, i) \in 1 .. Len(req[q].list)
         /\ k = PointedTo(req[q].case, PersonOf(q), a)
  BY Levels DEF WriteOf
<1>2. \/ /\ req[s].op = "suspect" /\ Place(s, j) \in 1 .. Len(req[s].list)
         /\ k = LinkedTo(req[s].case, PersonOf(s), b)
      \/ /\ req[s].op = "testimony" /\ Place(s, j) \in 1 .. Len(req[s].list)
         /\ k = PointedTo(req[s].case, PersonOf(s), b)
  BY Levels DEF WriteOf
<1> HIDE DEF a, b
<1>3. \A c, p, e, d, v, f :
        /\ LinkedTo(c, p, e) = LinkedTo(d, v, f) => c = d /\ p = v /\ e = f
        /\ PointedTo(c, p, e) = PointedTo(d, v, f) => c = d /\ p = v /\ e = f
        /\ LinkedTo(c, p, e) # PointedTo(d, v, f)
  BY DEF LinkedTo, PointedTo
<1> QED
  BY <1>1, <1>2, <1>3 DEF a, b
-----------------------------------------------------------------------------
\* What a waiter is about to write, and what a holder has written.
LEMMA WaiterWrites ==
    ASSUME IInv, NEW r \in Requests, pc[r] \in {"insert", "update"}
    PROVE  /\ req[r] \in Request /\ at[r] \in DOMAIN Handler(r)
           /\ Writes(Current(r)) /\ WriteOf(r, at[r], Current(r).row)
<1>1. req[r] \in Request /\ at[r] \in Nat \ {0}
  BY DEF IInv, TypeOK
<1>2. at[r] <= Len(Handler(r)) /\ Writes(Current(r))
  BY DEF IInv, OpenInv, Progress, Working, Writes
<1>3. at[r] \in DOMAIN Handler(r)
  BY <1>1, <1>2, HandlerShape
<1> QED
  BY <1>1, <1>2, <1>3, WrittenRow DEF Current

LEMMA HolderWrote ==
    ASSUME IInv, NEW r \in Requests, NEW k \in DOMAIN mine[r]
    PROVE  \E j \in DOMAIN Handler(r) :
              /\ j < at[r] /\ Handler(r)[j].row = k /\ Writes(Handler(r)[j])
              /\ WriteOf(r, j, k)
<1>1. req[r] \in Request /\ at[r] \in Nat \ {0}
  BY DEF IInv, TypeOK
<1>2. PICK j \in 1 .. at[r] - 1 :
        j <= Len(Handler(r)) /\ Handler(r)[j].row = k /\ Writes(Handler(r)[j])
  BY DEF IInv, OpenInv, HoldsItsOwn
<1>3. j \in DOMAIN Handler(r) /\ j < at[r]
  BY <1>1, <1>2, HandlerShape
<1> QED
  BY <1>1, <1>2, <1>3, WrittenRow

\* Along a chain of waits the tables ascend, up to the rows of lists.
LEMMA WaitsClimb ==
    ASSUME IInv, NEW q \in Requests, NEW s \in Requests, NEW t \in Requests,
           WaitsFor(q, s), WaitsFor(s, t)
    PROVE  /\ Level(Current(q).row) \in 0 .. 3 /\ Level(Current(s).row) \in 0 .. 3
           /\ \/ Level(Current(q).row) < Level(Current(s).row)
              \/ Level(Current(q).row) = 3 /\ Level(Current(s).row) = 3
<1>1. /\ pc[s] \in {"insert", "update"} /\ Current(q).row \in DOMAIN mine[s]
  BY DEF WaitsFor
<1>2. PICK j \in DOMAIN Handler(s) :
        j < at[s] /\ Handler(s)[j].row = Current(q).row /\ Writes(Handler(s)[j])
  BY <1>1, HolderWrote
<1>3. req[s] \in Request /\ at[s] \in DOMAIN Handler(s) /\ Writes(Handler(s)[at[s]])
  BY <1>1, WaiterWrites DEF Current
<1> QED
  BY <1>2, <1>3, HandlerClimbs DEF Current

\* A request that waits for a row of a list waits for one that has passed, in a
\* list of the same kind, the item it is at.
LEMMA ListWaits ==
    ASSUME IInv, NEW q \in Requests, NEW s \in Requests,
           WaitsFor(q, s), Level(Current(q).row) = 3, pc[s] \in {"insert", "update"},
           Level(Current(s).row) = 3
    PROVE  /\ req[q].op \in {"suspect", "testimony"} /\ req[s].op = req[q].op
           /\ req[s].case = req[q].case /\ PersonOf(s) = PersonOf(q)
           /\ Place(q, at[q]) \in 1 .. Len(req[q].list)
           /\ Place(s, at[s]) \in 1 .. Len(req[s].list)
           /\ \E i \in 1 .. Len(req[s].list) :
                 i < Place(s, at[s]) /\ req[s].list[i] = req[q].list[Place(q, at[q])]
<1>1. /\ pc[q] \in {"insert", "update"} /\ Current(q).row \in DOMAIN mine[s]
  BY DEF WaitsFor
<1>2. PICK j \in DOMAIN Handler(s) : j < at[s] /\ WriteOf(s, j, Current(q).row)
  BY <1>1, HolderWrote
<1>3. req[q] \in Request /\ WriteOf(q, at[q], Current(q).row)
  BY <1>1, WaiterWrites
<1>4. req[s] \in Request /\ WriteOf(s, at[s], Current(s).row)
  BY WaiterWrites
<1>5. at[q] \in Nat /\ at[s] \in Nat /\ j \in Nat
  BY <1>4, HandlerShape DEF IInv, TypeOK
<1>6. /\ req[q].op \in {"suspect", "testimony"} /\ req[s].op = req[q].op
      /\ req[s].case = req[q].case /\ PersonOf(s) = PersonOf(q)
      /\ Place(q, at[q]) \in 1 .. Len(req[q].list) /\ Place(s, j) \in 1 .. Len(req[s].list)
      /\ req[s].list[Place(s, j)] = req[q].list[Place(q, at[q])]
  BY <1>2, <1>3, <1>4, <1>5, SharedRow
<1>7. Place(s, at[s]) \in 1 .. Len(req[s].list)
  BY <1>4, <1>5, SharedRow
<1>8. Place(s, j) < Place(s, at[s])
  <2>1. CASE req[s].op = "suspect"
    BY <1>2, <1>5, <2>1 DEF Place
  <2>2. CASE req[s].op = "testimony"
    <3>1. j = 2 * Place(s, j) + 3 /\ at[s] = 2 * Place(s, at[s]) + 3
      BY <1>2, <1>4, <2>2, Levels DEF WriteOf
    <3> QED
      BY <1>2, <1>5, <1>6, <1>7, <3>1
  <2> QED
    BY <1>6, <2>1, <2>2
<1> QED
  BY <1>6, <1>7, <1>8

\* The person a request creates is on file only when the request is done.
LEMMA CreatedWhenDone ==
    ASSUME IInv, NEW q \in Requests, Person(q) \in DOMAIN rows
    PROVE  pc[q] = "done"
<1>1. PICK t \in Requests : pc[t] = "done" /\ Person(q) \in Wanted(t)
  BY SeedAssumption DEF IInv, AllOrNothing
<1>2. PICK i \in DOMAIN Handler(t) : Handler(t)[i].missing = "insert" /\ Handler(t)[i].row = Person(q)
  BY <1>1 DEF Wanted
<1>3. req[t] \in Request
  BY DEF IInv, TypeOK
<1>4. WriteOf(t, i, Person(q))
  BY <1>2, <1>3, WrittenRow DEF Writes
<1>5. Person(t) = Person(q)
  BY <1>4, Levels DEF WriteOf
<1> QED
  BY <1>1, <1>5 DEF Person

\* No request on a cycle of lists brought its person in: nobody else could have
\* seen that person.
LEMMA SamePerson ==
    ASSUME IInv, NEW q \in Requests, NEW s \in Requests, q # s,
           pc[q] \in {"insert", "update"}, pc[s] \in {"insert", "update"},
           Level(Current(s).row) = 3, req[s].op \in {"suspect", "testimony"},
           req[q].op = req[s].op, PersonOf(s) = PersonOf(q)
    PROVE  req[q].person # New
<1> SUFFICES ASSUME req[q].person = New PROVE FALSE
  OBVIOUS
<1>1. PersonOf(s) = q /\ req[s].person = q /\ req[s].person # New
  BY DEF PersonOf
<1>2. req[s] \in Request /\ at[s] \in DOMAIN Handler(s) /\ WriteOf(s, at[s], Current(s).row)
  BY WaiterWrites
<1>3. req[s].op = "suspect"
  <2>1. req[q] \in Request
    BY WaiterWrites
  <2> QED
    BY <2>1, RequestFields, SentinelAssumption
<1>4. at[s] \in Nat /\ at[s] > 4
  BY <1>2, Levels DEF WriteOf, IInv, TypeOK
<1>5. Handler(s)[2].row = Person(q) /\ Handler(s)[2].given = << >>
  BY <1>1, <1>2, <1>3, SuspectHandler DEF Is
<1>6. Met(s, 2)
  <2>1. 2 \in 1 .. at[s] - 1
    BY <1>4
  <2> QED
    BY <2>1 DEF IInv, OpenInv, Progress, Working
<1>7. Person(q) \in DOMAIN rows \cup DOMAIN mine[s]
  BY <1>5, <1>6 DEF Met, Visible, Merge
<1>8. Person(q) \notin DOMAIN rows
  BY CreatedWhenDone
<1>9. PICK j \in DOMAIN Handler(s) : WriteOf(s, j, Person(q))
  BY <1>7, <1>8, HolderWrote
<1>10. Person(q) = Person(s)
  BY <1>9, Levels DEF WriteOf
<1> QED
  BY <1>10 DEF Person
-----------------------------------------------------------------------------
\* A bounded set of numbers has a greatest.
LEMMA Greatest ==
    ASSUME NEW M \in SUBSET Nat, M # {}, NEW k \in Nat, \A m \in M : m =< k
    PROVE  \E m \in M : \A n \in M : n =< m
<1> DEFINE T == {k - m : m \in M}
<1>1. T \subseteq Nat /\ T # {}
  <2>1. \A m \in M : k - m \in Nat
    OBVIOUS
  <2> QED
    BY <2>1
<1>2. \A n \in M : k - n \in T
  OBVIOUS
<1>3. \A x \in T : \E m \in M : x = k - m
  OBVIOUS
<1> HIDE DEF T
<1>4. PICK x \in T : \A y \in T : <<y, x>> \notin OpToRel(<, Nat)
  BY <1>1, WFMin, NatLessThanWellFounded, Zenon
<1>5. \A y \in T : <<y, x>> \in Nat \X Nat => ~ (<<y, x>>[1] < <<y, x>>[2])
  BY <1>4, Zenon DEF OpToRel
<1>6. \A y \in T : ~ (y < x)
  BY <1>1, <1>5
<1>7. PICK m \in M : x = k - m
  BY <1>3
<1>8. ASSUME NEW n \in M PROVE n =< m
  <2>1. ~ (k - n < k - m)
    BY <1>2, <1>6, <1>7
  <2> QED
    BY <2>1
<1> QED
  BY <1>8

\* The items that requests at a row of a list name are finitely many.
LEMMA ItemsFinite ==
    ASSUME IInv, NEW S \in SUBSET Requests, \A q \in S : req[q].op \in {"suspect", "testimony"}
    PROVE  /\ Cardinality(Items(S)) \in Nat
           /\ \A q \in S : /\ Len(req[q].list) \in Nat
                           /\ DOMAIN req[q].list = 1 .. Len(req[q].list)
                           /\ \A i \in 1 .. Len(req[q].list) : req[q].list[i] \in Items(S)
<1>1. ASSUME NEW q \in S
      PROVE  req[q].list \in Seq(EvidenceIds) \/ req[q].list \in Seq(PersonIds)
  <2>1. req[q] \in Request
    BY DEF IInv, TypeOK
  <2> QED
    BY <2>1, RequestFields
<1>2. ASSUME NEW q \in S
      PROVE  /\ Len(req[q].list) \in Nat /\ DOMAIN req[q].list = 1 .. Len(req[q].list)
             /\ \A i \in 1 .. Len(req[q].list) : req[q].list[i] \in EvidenceIds \cup PersonIds
  <2>1. CASE req[q].list \in Seq(EvidenceIds)
    BY <2>1, LenProperties, ElementOfSeq
  <2>2. CASE req[q].list \in Seq(PersonIds)
    BY <2>2, LenProperties, ElementOfSeq
  <2> QED
    BY <1>1, <2>1, <2>2
<1>3. Items(S) \subseteq EvidenceIds \cup PersonIds
  BY <1>2 DEF Items
<1>4. IsFiniteSet(Items(S))
  BY <1>3, FiniteAssumption, FS_Union, FS_Subset
<1>5. Cardinality(Items(S)) \in Nat
  BY <1>4, FS_CardinalityType
<1>6. \A q \in S : \A i \in 1 .. Len(req[q].list) : req[q].list[i] \in Items(S)
  BY <1>2 DEF Items
<1> QED
  BY <1>2, <1>5, <1>6

\* Requests that wait for one another within their lists follow no common order.
LEMMA ListCycle ==
    ASSUME IInv, NEW S \in SUBSET Requests, S # {},
           \A q \in S : Level(Current(q).row) = 3 /\ \E s \in S : WaitsFor(q, s)
    PROVE  ~ OneOrder(S)
<1> DEFINE Item(q) == req[q].list[Place(q, at[q])]
<1>1. ASSUME NEW q \in S
      PROVE  \E s \in S :
                /\ Place(q, at[q]) \in 1 .. Len(req[q].list)
                /\ Place(s, at[s]) \in 1 .. Len(req[s].list)
                /\ req[q].op \in {"suspect", "testimony"}
                /\ \E i \in 1 .. Len(req[s].list) :
                      i < Place(s, at[s]) /\ req[s].list[i] = Item(q)
  <2>1. PICK s \in S : WaitsFor(q, s)
    OBVIOUS
  <2>2. pc[s] \in {"insert", "update"} /\ Level(Current(s).row) = 3
    BY DEF WaitsFor
  <2> QED
    BY <2>1, <2>2, ListWaits
<1> SUFFICES ASSUME OneOrder(S) PROVE FALSE
  OBVIOUS
<1> DEFINE N == Cardinality(Items(S))
<1>2. PICK rank \in [Items(S) -> 1 .. N] :
        \A q \in S : \A i, j \in DOMAIN req[q].list :
            i < j => rank[req[q].list[i]] < rank[req[q].list[j]]
  BY DEF OneOrder
<1>3. /\ N \in Nat
      /\ \A q \in S : /\ Len(req[q].list) \in Nat
                      /\ DOMAIN req[q].list = 1 .. Len(req[q].list)
                      /\ \A i \in 1 .. Len(req[q].list) : req[q].list[i] \in Items(S)
  BY <1>1, ItemsFinite
<1>4. \A q \in S : Item(q) \in Items(S)
  BY <1>1, <1>3
<1> HIDE DEF N, Item
<1> DEFINE M == {rank[Item(q)] : q \in S}
<1>5. PICK q \in S : \A s \in S : rank[Item(s)] =< rank[Item(q)]
  <2>1. M \in SUBSET Nat /\ M # {} /\ \A m \in M : m =< N
    BY <1>2, <1>3, <1>4
  <2> HIDE DEF M
  <2>2. PICK m \in M : \A n \in M : n =< m
    BY <1>3, <2>1, Greatest
  <2> QED
    BY <2>2 DEF M
<1>6. PICK s \in S :
        /\ Place(s, at[s]) \in 1 .. Len(req[s].list)
        /\ \E i \in 1 .. Len(req[s].list) : i < Place(s, at[s]) /\ req[s].list[i] = Item(q)
  BY <1>1
<1>7. rank[Item(q)] < rank[Item(s)]
  BY <1>2, <1>3, <1>6 DEF Item
<1> QED
  BY <1>2, <1>3, <1>4, <1>5, <1>7

\* The requests on a cycle of waits that are at the greatest level.
LEMMA CycleIsDisorder ==
    ASSUME IInv, NEW D \in SUBSET Requests, D # {},
           \A q \in D : \E s \in D : WaitsFor(q, s)
    PROVE  Disorder
<1> DEFINE L(q) == Level(Current(q).row)
<1>1. ASSUME NEW q \in D, NEW s \in D, WaitsFor(q, s)
      PROVE  /\ L(q) \in 0 .. 3 /\ L(s) \in 0 .. 3
             /\ L(q) < L(s) \/ (L(q) = 3 /\ L(s) = 3)
  <2>1. PICK t \in D : WaitsFor(s, t)
    OBVIOUS
  <2> QED
    BY <1>1, <2>1, WaitsClimb
<1>2. \A q \in D : L(q) \in 0 .. 3 /\ pc[q] \in {"insert", "update"}
  BY <1>1 DEF WaitsFor
<1> HIDE DEF L
<1>3. PICK z \in D : \A q \in D : L(q) =< L(z)
  <2> DEFINE M == {L(q) : q \in D}
  <2>1. M \in SUBSET Nat /\ M # {} /\ \A m \in M : m =< 3
    BY <1>2
  <2> HIDE DEF M
  <2>2. PICK m \in M : \A n \in M : n =< m
    BY <2>1, Greatest
  <2> QED
    BY <2>2 DEF M
<1>4. L(z) = 3
  <2>1. PICK s \in D : WaitsFor(z, s)
    OBVIOUS
  <2> QED
    BY <1>1, <1>2, <1>3, <2>1
<1> DEFINE S == {q \in D : /\ L(q) = 3 /\ req[q].op = req[z].op
                          /\ req[q].case = req[z].case /\ PersonOf(q) = PersonOf(z)}
<1>5. \A q \in S : Level(Current(q).row) = 3 /\ \E s \in S : WaitsFor(q, s)
  <2> SUFFICES ASSUME NEW q \in S
               PROVE  Level(Current(q).row) = 3 /\ \E s \in S : WaitsFor(q, s)
    OBVIOUS
  <2>1. PICK s \in D : WaitsFor(q, s)
    OBVIOUS
  <2>2. L(s) = 3
    BY <1>1, <1>2, <2>1
  <2>3. /\ req[s].op = req[q].op /\ req[s].case = req[q].case /\ PersonOf(s) = PersonOf(q)
    BY <1>2, <2>1, <2>2, ListWaits DEF L
  <2> QED
    BY <2>1, <2>2, <2>3 DEF L
<1>6. S # {} /\ S \in SUBSET Requests
  BY <1>4
<1>7. ~ OneOrder(S)
  <2> HIDE DEF S
  <2> QED
    BY <1>5, <1>6, ListCycle
<1>8. req[z].op \in {"suspect", "testimony"}
  <2>1. PICK s \in S : WaitsFor(z, s)
    BY <1>4, <1>5
  <2> QED
    BY <1>2, <1>4, <1>5, <2>1, ListWaits DEF L
<1>9. ASSUME NEW p \in S, NEW q \in S PROVE req[p].person = req[q].person
  <2>1. CASE p = q
    BY <2>1
  <2>2. CASE p # q
    <3>1. req[p].person # New
      BY <1>2, <1>5, <1>8, <2>2, SamePerson
    <3>2. req[q].person # New
      BY <1>2, <1>5, <1>8, <2>2, SamePerson
    <3> QED
      BY <3>1, <3>2 DEF PersonOf
  <2> QED
    BY <2>1, <2>2
<1> QED
  BY <1>6, <1>7, <1>9 DEF Disorder
-----------------------------------------------------------------------------
\* What a session sees.
LEMMA Sight ==
    ASSUME NEW r
    PROVE  DOMAIN Visible(r) = DOMAIN rows \cup DOMAIN mine[r]
BY DEF Visible, Merge

\* The requests do not change, nor does what they ask for.
LEMMA SameRequests ==
    ASSUME req' = req
    PROVE  /\ \A r : Handler(r)' = Handler(r) /\ Wanted(r)' = Wanted(r)
           /\ Disorder' <=> Disorder
<1>1. \A r : Handler(r)' = Handler(r)
  BY DEF Handler, AddSuspect, AddWitness, AddVictim, AddEvidence, UpdateSuspect, RecordTestimony,
         ResolvePerson, PersonOf
<1>2. \A r : Wanted(r)' = Wanted(r)
  BY <1>1 DEF Wanted
<1>3. Disorder' <=> Disorder
  BY DEF Disorder, OneOrder, Items
<1> QED
  BY <1>1, <1>2, <1>3

LEMMA GroundedUnion ==
    ASSUME NEW A, NEW B, Grounded(A), Grounded(B)
    PROVE  Grounded(A \cup B)
BY DEF Grounded

LEMMA GroundedWith ==
    ASSUME NEW A, NEW k, Grounded(A),
           \A c, p, e : k = LinkedTo(c, p, e) => {InvolvedIn(c, p), CollectedFor(e, c)} \subseteq A,
           \A c, p, s : k = PointedTo(c, p, s) =>
                           {TestifiesIn(c, p), Witness(p), Suspect(s)} \subseteq A
    PROVE  Grounded(A \cup {k})
BY DEF Grounded

\* A row a request is about to insert has its grounds in sight.
LEMMA InsertIsGrounded ==
    ASSUME IInv, NEW r \in Requests, pc[r] = "insert"
    PROVE  Grounded(DOMAIN Visible(r) \cup {Current(r).row})
<1> DEFINE k == Current(r).row
           V == DOMAIN Visible(r)
<1>1. req[r] \in Request /\ at[r] \in DOMAIN Handler(r) /\ WriteOf(r, at[r], k)
  BY WaiterWrites
<1>2. /\ at[r] \in Nat /\ \A j \in 1 .. at[r] - 1 : Met(r, j)
      /\ Current(r).given = << >> \/ Current(r).given \in V
      /\ Grounded(V)
  BY DEF IInv, TypeOK, OpenInv, Progress, Working
<1>3. ASSUME NEW j \in 1 .. at[r] - 1, Handler(r)[j].given = << >>
      PROVE  Handler(r)[j].row \in V
  BY <1>2, <1>3 DEF Met
<1>4. ASSUME NEW c, NEW p, NEW e, k = LinkedTo(c, p, e)
      PROVE  {InvolvedIn(c, p), CollectedFor(e, c)} \subseteq V
  <2>1. Level(k) = 3 /\ k # PointedTo(req[r].case, PersonOf(r), req[r].list[Place(r, at[r])])
    BY <1>4, Levels DEF LinkedTo, PointedTo
  <2>2. /\ req[r].op = "suspect" /\ at[r] > 4 /\ Place(r, at[r]) \in 1 .. Len(req[r].list)
        /\ k = LinkedTo(req[r].case, PersonOf(r), req[r].list[Place(r, at[r])])
    BY <1>1, <2>1, Levels DEF WriteOf
  <2>3. c = req[r].case /\ p = PersonOf(r) /\ e = req[r].list[Place(r, at[r])]
    BY <1>4, <2>2 DEF LinkedTo
  <2>4. 4 \in 1 .. at[r] - 1 /\ 4 + Place(r, at[r]) = at[r]
    BY <1>2, <2>2 DEF Place
  <2>5. Handler(r)[4].row = InvolvedIn(c, p) /\ Handler(r)[4].given = << >>
    BY <1>1, <2>2, <2>3, SuspectHandler DEF Is
  <2>6. Current(r).given = CollectedFor(e, c)
    BY <1>1, <2>2, <2>3, <2>4, SuspectHandler DEF Is, Current
  <2>7. CollectedFor(e, c) # << >>
    BY DEF CollectedFor
  <2> QED
    BY <1>2, <1>3, <2>4, <2>5, <2>6, <2>7
<1>5. ASSUME NEW c, NEW w, NEW s, k = PointedTo(c, w, s)
      PROVE  {TestifiesIn(c, w), Witness(w), Suspect(s)} \subseteq V
  <2> DEFINE i == Place(r, at[r])
  <2>1. Level(k) = 3 /\ k # LinkedTo(req[r].case, PersonOf(r), req[r].list[i])
    BY <1>5, Levels DEF LinkedTo, PointedTo
  <2>2. /\ req[r].op = "testimony" /\ at[r] > 4 /\ at[r] = 2 * i + 3
        /\ i \in 1 .. Len(req[r].list)
        /\ k = PointedTo(req[r].case, PersonOf(r), req[r].list[i])
    BY <1>1, <2>1, Levels DEF WriteOf
  <2> HIDE DEF i
  <2>3. c = req[r].case /\ w = PersonOf(r) /\ s = req[r].list[i] /\ PersonOf(r) = req[r].person
    BY <1>1, <1>5, <2>2, PersonNamed DEF PointedTo
  <2>4. 2 \in 1 .. at[r] - 1 /\ 3 \in 1 .. at[r] - 1 /\ 2 * i + 2 \in 1 .. at[r] - 1
    BY <1>2, <2>2
  <2>5. /\ Handler(r)[2].row = Witness(w) /\ Handler(r)[2].given = << >>
        /\ Handler(r)[3].row = TestifiesIn(c, w) /\ Handler(r)[3].given = << >>
        /\ Handler(r)[2 * i + 2].row = Suspect(s) /\ Handler(r)[2 * i + 2].given = << >>
    BY <1>1, <2>2, <2>3, TestimonyHandler DEF Is
  <2> QED
    BY <1>3, <2>4, <2>5
<1> QED
  BY <1>2, <1>4, <1>5, GroundedWith
-----------------------------------------------------------------------------
\* A request is unmoved by a step of another, which can only add rows.
LEMMA Bystander ==
    ASSUME IInv, NEW q \in Requests,
           req' = req, DOMAIN rows \subseteq DOMAIN rows', Grounded(DOMAIN rows'),
           pc'[q] = pc[q], at'[q] = at[q], mine'[q] = mine[q], bad \subseteq bad'
    PROVE  OpenInv(q)'
<1>1. /\ Handler(q)' = Handler(q) /\ Wanted(q)' = Wanted(q) /\ Current(q)' = Current(q)
  BY SameRequests DEF Current
<1>2. /\ DOMAIN Visible(q) = DOMAIN rows \cup DOMAIN mine[q]
      /\ DOMAIN Visible(q)' = DOMAIN rows' \cup DOMAIN mine'[q]
  BY Sight DEF Visible, Merge
<1>3. Progress(q) /\ HoldsItsOwn(q) /\ Grounded(DOMAIN Visible(q))
  BY DEF IInv, OpenInv
<1>4. \A j : Met(q, j) => Met(q, j)'
  BY <1>1, <1>2 DEF Met
<1>5. Progress(q)'
  BY <1>1, <1>2, <1>3, <1>4 DEF Progress
<1>6. HoldsItsOwn(q)'
  BY <1>1, <1>3 DEF HoldsItsOwn
<1>7. DOMAIN Visible(q)' = DOMAIN rows' \cup DOMAIN Visible(q)
  BY <1>2
<1>8. Grounded(DOMAIN Visible(q))'
  <2>1. Grounded(DOMAIN rows' \cup DOMAIN Visible(q))
    BY <1>3, GroundedUnion
  <2>2. Grounded(DOMAIN Visible(q)')
    BY <1>7, <2>1
  <2> QED
    BY <2>2 DEF Grounded
<1> QED
  BY <1>5, <1>6, <1>8 DEF OpenInv

\* The texts of rows.
Typed(f) == \A k \in DOMAIN f : f[k] \in Texts \cup {Nil}

\* The step of r by which it gets to that stage and look-up and holds m.
Moves(r, stage, n, m) ==
    /\ Goto(r, stage) /\ req' = req
    /\ at' = [at EXCEPT ![r] = n]
    /\ mine' = [mine EXCEPT ![r] = m]

\* The types, after a step of r.
LEMMA TypeStep ==
    ASSUME IInv, NEW r \in Requests, NEW stage \in Working \cup Outcomes, NEW m, NEW n \in Nat \ {0},
           n <= Len(Handler(r)) + 1,
           Typed(m),
           Moves(r, stage, n, m), bad' \subseteq Requests, Typed(rows)'
    PROVE  /\ TypeOK'
           /\ pc'[r] = stage /\ at'[r] = n /\ mine'[r] = m
           /\ \A q \in Requests : q # r => pc'[q] = pc[q] /\ at'[q] = at[q] /\ mine'[q] = mine[q]
<1>1. TypeOK
  BY DEF IInv
<1>2. \A q \in Requests : Handler(q)' = Handler(q)
  BY SameRequests DEF Moves
<1>3. /\ pc'[r] = stage /\ at'[r] = n /\ mine'[r] = m
      /\ \A q \in Requests : q # r => pc'[q] = pc[q] /\ at'[q] = at[q] /\ mine'[q] = mine[q]
  BY <1>1 DEF Moves, Goto, TypeOK
<1>4. /\ pc' \in [Requests -> Working \cup Outcomes] /\ at' \in [Requests -> Nat \ {0}]
      /\ mine' = [q \in Requests |-> mine'[q]]
  BY <1>1 DEF Moves, Goto, TypeOK
<1>5. \A q \in Requests : at'[q] <= Len(Handler(q)') + 1
  BY <1>1, <1>2, <1>3 DEF TypeOK
<1>6. \A q \in Requests : \A k \in DOMAIN mine'[q] : mine'[q][k] \in Texts \cup {Nil}
  BY <1>1, <1>3 DEF TypeOK, Typed
<1>7. req' = req
  BY DEF Moves
<1> QED
  BY <1>1, <1>3, <1>4, <1>5, <1>6, <1>7 DEF TypeOK, Typed

\* A transaction that ends without a commit.
LEMMA FailStep ==
    ASSUME IInv, NEW r \in Requests, pc[r] \in Working,
           NEW outcome \in Outcomes \ {"done"}, outcome = "server_error" => Disorder,
           Fail(r, outcome)
    PROVE  IInv'
<1> USE DEF Fail
<1>1. /\ TypeOK' /\ pc'[r] = outcome /\ mine'[r] = NoRows
      /\ \A q \in Requests : q # r => pc'[q] = pc[q] /\ at'[q] = at[q] /\ mine'[q] = mine[q]
  <2>1. /\ at[r] \in Nat \ {0} /\ at[r] <= Len(Handler(r)) + 1 /\ bad \subseteq Requests
        /\ at' = [at EXCEPT ![r] = at[r]] /\ bad' \subseteq Requests
        /\ Typed(rows)'
    BY DEF IInv, TypeOK, Typed
  <2>2. Typed(NoRows)
    BY DEF NoRows, Typed
  <2>3. Moves(r, outcome, at[r], NoRows) /\ outcome \in Working \cup Outcomes
    BY <2>1 DEF Moves
  <2> QED
    BY <2>1, <2>2, <2>3, TypeStep
<1>2. pc[r] # "done" /\ outcome # "done" /\ outcome \notin Working
  BY DEF Working, Outcomes
<1>3. LinksAreGrounded /\ LinksAreGrounded'
  BY DEF IInv, LinksAreGrounded, Grounded
<1>4. AllOrNothing'
  <2>1. {q \in Requests : pc'[q] = "done"} = {q \in Requests : pc[q] = "done"}
    BY <1>1, <1>2
  <2>2. \A q \in Requests : Wanted(q)' = Wanted(q)
    BY SameRequests
  <2> QED
    BY <2>1, <2>2 DEF IInv, AllOrNothing
<1>5. OnlyDisorderDeadlocks'
  BY <1>1, SameRequests DEF IInv, OnlyDisorderDeadlocks
<1>6. ASSUME NEW q \in Requests PROVE OpenInv(q)'
  <2>1. CASE q = r
    <3>1. DOMAIN NoRows = {}
      BY DEF NoRows
    <3>2. DOMAIN Visible(r)' = DOMAIN rows
      BY <1>1, <3>1 DEF Visible, Merge
    <3>3. Grounded(DOMAIN Visible(r))'
      BY <1>3, <3>2 DEF LinksAreGrounded, Grounded
    <3> QED
      BY <1>1, <1>2, <2>1, <3>1, <3>3 DEF OpenInv, Progress, HoldsItsOwn
  <2>2. CASE q # r
    BY <1>1, <1>3, <2>2, Bystander DEF LinksAreGrounded
  <2> QED
    BY <2>1, <2>2
<1> QED
  BY <1>1, <1>3, <1>4, <1>5, <1>6 DEF IInv

\* A step within the transaction of r, which then holds m and goes on at n.
LEMMA OpenStep ==
    ASSUME IInv, NEW r \in Requests, pc[r] \in Working, NEW stage \in Working,
           NEW n \in Nat \ {0}, n <= Len(Handler(r)) + 1, NEW m,
           Typed(m),
           rows' = rows, Moves(r, stage, n, m), bad \subseteq bad', bad' \subseteq Requests,
           Progress(r)', HoldsItsOwn(r)', Grounded(DOMAIN rows \cup DOMAIN m)
    PROVE  IInv'
<1>1. /\ TypeOK' /\ pc'[r] = stage /\ mine'[r] = m
      /\ \A q \in Requests : q # r => pc'[q] = pc[q] /\ at'[q] = at[q] /\ mine'[q] = mine[q]
  <2>1. Typed(rows)'
    BY DEF IInv, TypeOK, Typed
  <2>2. stage \in Working \cup Outcomes
    OBVIOUS
  <2> QED
    BY <2>1, <2>2, TypeStep
<1> USE DEF Moves
<1>2. /\ pc[r] \notin {"done", "server_error"} /\ stage \notin {"done", "server_error"}
  BY DEF Working
<1>3. LinksAreGrounded /\ LinksAreGrounded'
  BY DEF IInv, LinksAreGrounded, Grounded
<1>4. AllOrNothing'
  <2>1. {q \in Requests : pc'[q] = "done"} = {q \in Requests : pc[q] = "done"}
    BY <1>1, <1>2
  <2>2. \A q \in Requests : Wanted(q)' = Wanted(q)
    BY SameRequests
  <2> QED
    BY <2>1, <2>2 DEF IInv, AllOrNothing
<1>5. OnlyDisorderDeadlocks'
  BY <1>1, <1>2, SameRequests DEF IInv, OnlyDisorderDeadlocks
<1>6. ASSUME NEW q \in Requests PROVE OpenInv(q)'
  <2>1. CASE q = r
    <3>1. DOMAIN Visible(r)' = DOMAIN rows \cup DOMAIN m
      BY <1>1 DEF Visible, Merge
    <3>2. Grounded(DOMAIN Visible(r))'
      BY <3>1 DEF Grounded
    <3> QED
      BY <2>1, <3>2 DEF OpenInv
  <2>2. CASE q # r
    BY <1>1, <1>3, <2>2, Bystander DEF LinksAreGrounded
  <2> QED
    BY <2>1, <2>2
<1> QED
  BY <1>1, <1>3, <1>4, <1>5, <1>6 DEF IInv
-----------------------------------------------------------------------------
\* On to the next look-up, with what the last one was for in sight or noted as
\* evidence the case lacks.
LEMMA AdvanceStep ==
    ASSUME IInv, NEW r \in Requests, pc[r] \in Working, at[r] <= Len(Handler(r)), NEW m, Typed(m),
           rows' = rows, req' = req, Advance(r), mine' = [mine EXCEPT ![r] = m],
           bad \subseteq bad', bad' \subseteq Requests,
           DOMAIN mine[r] \subseteq DOMAIN m,
           \A k \in DOMAIN m : k \in DOMAIN mine[r] \/
              (k = Current(r).row /\ Writes(Current(r)) /\ k \in DOMAIN rows \cup Wanted(r)),
           \/ Current(r).row \in DOMAIN rows \cup DOMAIN m
           \/ r \in bad' /\ Current(r).given # << >>,
           Grounded(DOMAIN rows \cup DOMAIN m)
    PROVE  IInv'
<1>1. at[r] \in Nat \ {0} /\ at[r] + 1 \in Nat \ {0} /\ req[r] \in Request
  BY DEF IInv, TypeOK
<1>2. at[r] + 1 <= Len(Handler(r)) + 1 /\ at[r] \in 1 .. Len(Handler(r))
  BY <1>1, HandlerShape
<1>3. Moves(r, "look", at[r] + 1, m)
  BY DEF Advance, Moves
<1>4. /\ pc'[r] = "look" /\ at'[r] = at[r] + 1 /\ mine'[r] = m
  BY DEF Advance, Goto, IInv, TypeOK
<1>5. /\ Handler(r)' = Handler(r) /\ Wanted(r)' = Wanted(r)
  BY SameRequests
<1>6. /\ \A j \in 1 .. at[r] - 1 : Met(r, j)
      /\ HoldsItsOwn(r)
  BY DEF IInv, OpenInv, Progress
<1>7. /\ DOMAIN Visible(r) = DOMAIN rows \cup DOMAIN mine[r]
      /\ DOMAIN Visible(r)' = DOMAIN rows \cup DOMAIN m
  BY <1>4 DEF Visible, Merge
<1>8. ASSUME NEW j \in 1 .. at[r] PROVE Met(r, j)'
  <2>1. CASE j = at[r]
    BY <1>5, <1>7, <2>1 DEF Met, Current
  <2>2. CASE j # at[r]
    <3>1. j \in 1 .. at[r] - 1
      BY <1>1, <2>2
    <3> QED
      BY <1>5, <1>6, <1>7, <3>1 DEF Met
  <2> QED
    BY <2>1, <2>2
<1>9. Progress(r)'
  <2>1. at'[r] - 1 = at[r]
    BY <1>1, <1>4
  <2> QED
    BY <1>4, <1>8, <2>1 DEF Progress
<1>10. HoldsItsOwn(r)'
  <2>1. at'[r] - 1 = at[r]
    BY <1>1, <1>4
  <2>2. ASSUME NEW k \in DOMAIN m
        PROVE  /\ \E j \in 1 .. at[r] :
                     j <= Len(Handler(r)) /\ Handler(r)[j].row = k /\ Writes(Handler(r)[j])
               /\ k \in DOMAIN rows \cup Wanted(r)
    <3>1. CASE k \in DOMAIN mine[r]
      <4>1. \A j \in 1 .. at[r] - 1 : j \in 1 .. at[r]
        BY <1>1
      <4> QED
        BY <1>6, <3>1, <4>1 DEF HoldsItsOwn
    <3>2. CASE k \notin DOMAIN mine[r]
      BY <1>1, <1>2, <3>2 DEF Current
    <3> QED
      BY <3>1, <3>2
  <2>3. pc'[r] \in Working
    BY <1>4 DEF Working
  <2> QED
    BY <1>4, <1>5, <2>1, <2>2, <2>3 DEF HoldsItsOwn
<1>11. "look" \in Working
  BY DEF Working
<1> QED
  BY <1>1, <1>2, <1>3, <1>9, <1>10, <1>11, OpenStep

\* A look-up after which the row is inserted or updated.
LEMMA TurnStep ==
    ASSUME IInv, NEW r \in Requests, pc[r] = "look", ~ Finished(r),
           NEW stage \in {"insert", "update"}, Goto(r, stage), UNCHANGED <<rows, req, at, mine, bad>>,
           Current(r).given = << >> \/ Current(r).given \in DOMAIN Visible(r),
           stage = "insert" => Current(r).missing = "insert",
           stage = "update" => Current(r).text # Nil /\ Current(r).row \in DOMAIN Visible(r)
    PROVE  IInv'
<1>1. TypeOK /\ at[r] \in Nat \ {0} /\ req[r] \in Request
  BY DEF IInv, TypeOK
<1>2. at[r] <= Len(Handler(r))
  BY <1>1, HandlerShape DEF Finished
<1>3. /\ Handler(r)' = Handler(r) /\ Wanted(r)' = Wanted(r) /\ Current(r)' = Current(r)
  BY SameRequests DEF Current
<1>4. pc'[r] = stage
  BY <1>1 DEF Goto, TypeOK
<1>5. DOMAIN Visible(r)' = DOMAIN Visible(r) /\ DOMAIN Visible(r) = DOMAIN rows \cup DOMAIN mine[r]
  BY DEF Visible, Merge
<1>6. Progress(r) /\ HoldsItsOwn(r) /\ Grounded(DOMAIN Visible(r))
  BY DEF IInv, OpenInv
<1>7. \A j : Met(r, j) => Met(r, j)'
  BY <1>3, <1>5 DEF Met
<1>8. Progress(r)'
  BY <1>2, <1>3, <1>4, <1>5, <1>6, <1>7 DEF Progress, Working
<1>9. HoldsItsOwn(r)'
  BY <1>3, <1>4, <1>6 DEF HoldsItsOwn, Working
<1>10. Typed(mine[r])
  BY <1>1 DEF TypeOK, Typed
<1>11. Moves(r, stage, at[r], mine[r])
  BY <1>1 DEF Moves, TypeOK
<1>12. stage \in Working /\ pc[r] \in Working
  BY DEF Working
<1>13. bad' \subseteq Requests
  BY <1>1 DEF TypeOK
<1>14. at[r] <= Len(Handler(r)) + 1
  BY <1>1 DEF TypeOK
<1>15. Grounded(DOMAIN rows \cup DOMAIN mine[r])
  BY <1>5, <1>6
<1>16. rows' = rows /\ bad \subseteq bad'
  OBVIOUS
<1>17. req' = req
  OBVIOUS
<1> QED
  BY <1>1, <1>8, <1>9, <1>10, <1>11, <1>12, <1>13, <1>14, <1>15, <1>16, <1>17, OpenStep

\* The transaction goes on without a new row: the row is there or its evidence is
\* not the case's.
LEMMA PassStep ==
    ASSUME IInv, NEW r \in Requests, pc[r] = "look", ~ Finished(r),
           Advance(r), UNCHANGED <<rows, req, mine>>, bad \subseteq bad', bad' \subseteq Requests,
           \/ Current(r).row \in DOMAIN Visible(r)
           \/ r \in bad' /\ Current(r).given # << >>
    PROVE  IInv'
<1>1. TypeOK /\ at[r] \in Nat \ {0} /\ req[r] \in Request
  BY DEF IInv, TypeOK
<1>2. at[r] <= Len(Handler(r)) /\ pc[r] \in Working
  BY <1>1, HandlerShape DEF Finished, Working
<1>3. Typed(mine[r]) /\ mine' = [mine EXCEPT ![r] = mine[r]]
  BY <1>1 DEF TypeOK, Typed
<1>4. DOMAIN Visible(r) = DOMAIN rows \cup DOMAIN mine[r]
  BY DEF Visible, Merge
<1>5. Grounded(DOMAIN rows \cup DOMAIN mine[r])
  BY <1>4 DEF IInv, OpenInv
<1>6. \/ Current(r).row \in DOMAIN rows \cup DOMAIN mine[r]
      \/ r \in bad' /\ Current(r).given # << >>
  BY <1>4
<1>7. rows' = rows /\ req' = req
  OBVIOUS
<1> QED
  BY <1>2, <1>3, <1>5, <1>6, <1>7, AdvanceStep

LEMMA LookStep ==
    ASSUME IInv, NEW r \in Requests, Look(r)
    PROVE  IInv'
<1> DEFINE i == Current(r)
           seen == Visible(r)
<1>1. pc[r] = "look" /\ ~ Finished(r) /\ pc[r] \in Working
  BY DEF Look, Working
<1>2. bad \subseteq Requests
  BY DEF IInv, TypeOK
<1>3. CASE /\ i.given # << >> /\ i.given \notin DOMAIN seen
           /\ bad' = bad \cup {r} /\ Advance(r) /\ UNCHANGED <<rows, req, mine>>
  <2>1. bad \subseteq bad' /\ bad' \subseteq Requests /\ r \in bad'
    BY <1>2, <1>3
  <2> QED
    BY <1>1, <1>3, <2>1, PassStep
<1>4. CASE /\ i.given = << >> \/ i.given \in DOMAIN seen
           /\ IF i.row \in DOMAIN seen
              THEN IF i.text \in {Nil, seen[i.row]}
                   THEN Advance(r) /\ UNCHANGED <<rows, req, mine, bad>>
                   ELSE Goto(r, "update") /\ UNCHANGED <<rows, req, at, mine, bad>>
              ELSE IF i.missing = "insert"
              THEN Goto(r, "insert") /\ UNCHANGED <<rows, req, at, mine, bad>>
              ELSE Fail(r, i.missing)
  <2>1. CASE i.row \in DOMAIN seen /\ i.text \in {Nil, seen[i.row]}
    <3>1. Advance(r) /\ UNCHANGED <<rows, req, mine, bad>>
      BY <1>4, <2>1
    <3> QED
      BY <1>1, <1>2, <2>1, <3>1, PassStep
  <2>2. CASE i.row \in DOMAIN seen /\ i.text \notin {Nil, seen[i.row]}
    <3>1. Goto(r, "update") /\ UNCHANGED <<rows, req, at, mine, bad>>
      BY <1>4, <2>2
    <3> QED
      BY <1>1, <1>4, <2>2, <3>1, TurnStep
  <2>3. CASE i.row \notin DOMAIN seen /\ i.missing = "insert"
    <3>1. Goto(r, "insert") /\ UNCHANGED <<rows, req, at, mine, bad>>
      BY <1>4, <2>3
    <3> QED
      BY <1>1, <1>4, <2>3, <3>1, TurnStep
  <2>4. CASE i.row \notin DOMAIN seen /\ i.missing # "insert"
    <3>1. Fail(r, i.missing)
      BY <1>4, <2>4
    <3>2. req[r] \in Request /\ at[r] \in Nat \ {0} /\ at[r] <= Len(Handler(r)) + 1
      BY DEF IInv, TypeOK
    <3>3. at[r] \in DOMAIN Handler(r)
      BY <1>1, <3>2, HandlerShape DEF Finished
    <3>4. i.missing \in {"not_found", "refused"}
      BY <2>4, <3>2, <3>3, HandlerShape DEF Current
    <3> QED
      BY <1>1, <3>1, <3>4, FailStep DEF Outcomes
  <2> QED
    BY <2>1, <2>2, <2>3, <2>4
<1> QED
  BY <1>3, <1>4 DEF Look

\* The INSERT or UPDATE that goes through.
LEMMA WriteStep ==
    ASSUME IInv, NEW r \in Requests, pc[r] \in {"insert", "update"},
           mine' = [mine EXCEPT ![r] = Merge(@, [k \in {Current(r).row} |-> Current(r).text])],
           Advance(r), UNCHANGED <<rows, req, bad>>
    PROVE  IInv'
<1> DEFINE row == Current(r).row
           m == Merge(mine[r], [k \in {row} |-> Current(r).text])
<1>1. /\ req[r] \in Request /\ at[r] \in DOMAIN Handler(r) /\ Writes(Current(r))
  BY WaiterWrites
<1>2. TypeOK /\ at[r] <= Len(Handler(r)) /\ pc[r] \in Working
  BY <1>1, HandlerShape DEF IInv, Working
<1>3. Progress(r) /\ HoldsItsOwn(r) /\ Grounded(DOMAIN Visible(r))
  BY DEF IInv, OpenInv
<1>4. DOMAIN Visible(r) = DOMAIN rows \cup DOMAIN mine[r]
  BY DEF Visible, Merge
<1>5. DOMAIN m = DOMAIN mine[r] \cup {row}
  BY DEF Merge
<1>6. Typed(m)
  <2>1. Current(r).text \in Texts \cup {Nil}
    BY <1>1, HandlerShape DEF Current
  <2>2. Typed(mine[r])
    BY <1>2 DEF TypeOK, Typed
  <2> QED
    BY <2>1, <2>2 DEF Merge, Typed
<1>7. mine' = [mine EXCEPT ![r] = m]
  BY <1>2 DEF TypeOK
<1>8. row \in DOMAIN rows \cup Wanted(r)
  <2>1. CASE pc[r] = "insert"
    <3>1. Current(r).missing = "insert"
      BY <1>3, <2>1 DEF Progress, Working
    <3> QED
      BY <1>1, <3>1 DEF Wanted, Current
  <2>2. CASE pc[r] = "update"
    <3>1. row \in DOMAIN rows \cup DOMAIN mine[r]
      BY <1>3, <1>4, <2>2 DEF Progress, Working
    <3> QED
      BY <1>3, <3>1 DEF HoldsItsOwn
  <2> QED
    BY <2>1, <2>2
<1>9. Grounded(DOMAIN rows \cup DOMAIN m)
  <2>1. CASE pc[r] = "insert"
    <3>1. DOMAIN rows \cup DOMAIN m = DOMAIN Visible(r) \cup {row}
      BY <1>4, <1>5
    <3> QED
      BY <2>1, <3>1, InsertIsGrounded
  <2>2. CASE pc[r] = "update"
    <3>1. row \in DOMAIN Visible(r)
      BY <1>3, <2>2 DEF Progress, Working
    <3>2. DOMAIN rows \cup DOMAIN m = DOMAIN Visible(r)
      BY <1>4, <1>5, <3>1
    <3> QED
      BY <1>3, <3>2
  <2> QED
    BY <2>1, <2>2
<1>10. bad \subseteq bad' /\ bad' \subseteq Requests /\ rows' = rows /\ req' = req
  BY <1>2 DEF TypeOK
<1>11. /\ DOMAIN mine[r] \subseteq DOMAIN m /\ row \in DOMAIN rows \cup DOMAIN m
       /\ \A k \in DOMAIN m : k \in DOMAIN mine[r] \/
             (k = Current(r).row /\ Writes(Current(r)) /\ k \in DOMAIN rows \cup Wanted(r))
  BY <1>1, <1>5, <1>8
<1> HIDE DEF m
<1> QED
  BY <1>2, <1>6, <1>7, <1>9, <1>10, <1>11, AdvanceStep

LEMMA InsertStep ==
    ASSUME IInv, NEW r \in Requests, Insert(r)
    PROVE  IInv'
<1>1. pc[r] = "insert" /\ pc[r] \in Working
  BY DEF Insert, Working
<1>2. CASE Current(r).row \in DOMAIN rows
  <2>1. Fail(r, "conflict")
    BY <1>2 DEF Insert
  <2> QED
    BY <1>1, <2>1, FailStep DEF Outcomes
<1>3. CASE Current(r).row \notin DOMAIN rows
  <2>1. /\ mine' = [mine EXCEPT ![r] = Merge(@, [k \in {Current(r).row} |-> Current(r).text])]
        /\ Advance(r) /\ UNCHANGED <<rows, req, bad>>
    BY <1>3 DEF Insert
  <2> QED
    BY <1>1, <2>1, WriteStep
<1> QED
  BY <1>2, <1>3

LEMMA UpdateStep ==
    ASSUME IInv, NEW r \in Requests, Update(r)
    PROVE  IInv'
BY WriteStep DEF Update

\* The commit: a request that passed every look-up, and noted nothing, saw all
\* it wanted.
LEMMA FinishStep ==
    ASSUME IInv, NEW r \in Requests, Finish(r)
    PROVE  IInv'
<1>1. /\ TypeOK /\ req[r] \in Request /\ at[r] \in Nat \ {0} /\ at[r] <= Len(Handler(r)) + 1
      /\ LinksAreGrounded /\ AllOrNothing /\ OnlyDisorderDeadlocks
      /\ Progress(r) /\ HoldsItsOwn(r) /\ Grounded(DOMAIN Visible(r))
  BY DEF IInv, TypeOK, OpenInv
<1>2. pc[r] = "look" /\ Finished(r) /\ pc[r] \in Working
  BY DEF Finish, Working
<1>3. CASE r \in bad
  <2>1. Fail(r, "refused")
    BY <1>3 DEF Finish
  <2> QED
    BY <1>2, <2>1, FailStep DEF Outcomes
<1>4. CASE r \notin bad
  <2>1. /\ rows' = Visible(r) /\ mine' = [mine EXCEPT ![r] = NoRows] /\ Goto(r, "done")
        /\ UNCHANGED <<req, at, bad>>
    BY <1>4 DEF Finish
  <2>2. DOMAIN rows' = DOMAIN rows \cup DOMAIN mine[r]
    BY <2>1 DEF Visible, Merge
  <2>3. Moves(r, "done", at[r], NoRows)
    BY <1>1, <2>1 DEF Moves, TypeOK
  <2>4. Typed(rows)' /\ Typed(NoRows) /\ bad' \subseteq Requests
    BY <1>1, <2>1 DEF TypeOK, Typed, NoRows, Visible, Merge
  <2>5. /\ TypeOK' /\ pc'[r] = "done" /\ mine'[r] = NoRows
        /\ \A q \in Requests : q # r => pc'[q] = pc[q] /\ at'[q] = at[q] /\ mine'[q] = mine[q]
    BY <1>1, <2>3, <2>4, TypeStep DEF Outcomes
  <2>6. LinksAreGrounded' /\ Grounded(DOMAIN rows')
    BY <1>1, <2>1 DEF LinksAreGrounded, Grounded
  <2>7. Wanted(r) \subseteq DOMAIN rows'
    <3>1. ASSUME NEW j \in DOMAIN Handler(r) PROVE Handler(r)[j].row \in DOMAIN rows'
      <4>1. j \in 1 .. at[r] - 1
        BY <1>1, <1>2, HandlerShape DEF Finished
      <4>2. Met(r, j)
        BY <1>1, <1>2, <4>1 DEF Progress
      <4> QED
        BY <1>4, <2>1, <4>2 DEF Met
    <3> QED
      BY <3>1 DEF Wanted
  <2>8. DOMAIN rows' = DOMAIN rows \cup Wanted(r)
    BY <1>1, <2>2, <2>7 DEF HoldsItsOwn
  <2>9. AllOrNothing'
    <3>1. {q \in Requests : pc'[q] = "done"} = {q \in Requests : pc[q] = "done"} \cup {r}
      BY <2>5
    <3>2. \A q \in Requests : Wanted(q)' = Wanted(q)
      BY <2>1, SameRequests
    <3>3. DOMAIN rows' = DOMAIN SeedRows
            \cup UNION {Wanted(q) : q \in {q \in Requests : pc[q] = "done"} \cup {r}}
      BY <1>1, <2>8 DEF AllOrNothing
    <3> QED
      BY <3>1, <3>2, <3>3 DEF AllOrNothing
  <2>10. OnlyDisorderDeadlocks'
    BY <1>1, <2>1, <2>5, SameRequests DEF OnlyDisorderDeadlocks
  <2>11. ASSUME NEW q \in Requests PROVE OpenInv(q)'
    <3>1. CASE q = r
      <4>1. DOMAIN NoRows = {} /\ "done" \notin Working
        BY DEF NoRows, Working
      <4>2. DOMAIN Visible(r)' = DOMAIN rows'
        BY <2>5, <4>1 DEF Visible, Merge
      <4>3. Grounded(DOMAIN Visible(r))'
        BY <2>6, <4>2 DEF Grounded
      <4> QED
        BY <2>5, <3>1, <4>1, <4>3 DEF OpenInv, Progress, HoldsItsOwn
    <3>2. CASE q # r
      BY <2>1, <2>2, <2>5, <2>6, <3>2, Bystander
    <3> QED
      BY <3>1, <3>2
  <2> QED
    BY <2>5, <2>6, <2>9, <2>10, <2>11 DEF IInv
<1> QED
  BY <1>3, <1>4

LEMMA BreakDeadlockStep ==
    ASSUME IInv, NEW r \in Requests, BreakDeadlock(r)
    PROVE  IInv'
<1>1. PICK D \in SUBSET Requests : r \in D /\ \A q \in D : \E s \in D : WaitsFor(q, s)
  BY DEF BreakDeadlock
<1>2. Disorder
  BY <1>1, CycleIsDisorder
<1>3. pc[r] \in Working
  BY <1>1 DEF WaitsFor, Working
<1> QED
  BY <1>2, <1>3, FailStep DEF BreakDeadlock, Outcomes

LEMMA CrashStep ==
    ASSUME IInv, NEW r \in Requests, Crash(r)
    PROVE  IInv'
BY FailStep DEF Crash, Outcomes
-----------------------------------------------------------------------------
LEMMA InitIInv == Init => IInv
<1> SUFFICES ASSUME Init PROVE IInv
  OBVIOUS
<1> USE DEF Init
<1>1. TypeOK
  <2>1. ASSUME NEW r \in Requests PROVE at[r] <= Len(Handler(r)) + 1
    BY HandlerShape
  <2> QED
    BY <2>1, SeedAssumption DEF TypeOK, Working, NoRows
<1>2. LinksAreGrounded
  BY SeedAssumption DEF LinksAreGrounded
<1>3. AllOrNothing
  BY DEF AllOrNothing
<1>4. OnlyDisorderDeadlocks
  BY DEF OnlyDisorderDeadlocks
<1>5. ASSUME NEW r \in Requests PROVE OpenInv(r)
  <2>1. DOMAIN mine[r] = {}
    BY DEF NoRows
  <2>2. DOMAIN Visible(r) = DOMAIN SeedRows
    BY <2>1 DEF Visible, Merge
  <2>3. 1 .. at[r] - 1 = {}
    OBVIOUS
  <2> QED
    BY <2>1, <2>2, <2>3, SeedAssumption DEF OpenInv, Progress, HoldsItsOwn, Working
<1> QED
  BY <1>1, <1>2, <1>3, <1>4, <1>5 DEF IInv

LEMMA StutterStep ==
    ASSUME IInv, UNCHANGED vars
    PROVE  IInv'
<1> USE DEF vars
<1>1. \A r \in Requests : Handler(r)' = Handler(r)
  BY SameRequests
<1>2. TypeOK'
  BY <1>1 DEF IInv, TypeOK
<1>3. LinksAreGrounded /\ LinksAreGrounded'
  BY DEF IInv, LinksAreGrounded, Grounded
<1>4. AllOrNothing'
  BY SameRequests DEF IInv, AllOrNothing
<1>5. OnlyDisorderDeadlocks'
  BY SameRequests DEF IInv, OnlyDisorderDeadlocks
<1>6. \A r \in Requests : OpenInv(r)'
  BY <1>3, Bystander DEF LinksAreGrounded
<1> QED
  BY <1>2, <1>3, <1>4, <1>5, <1>6 DEF IInv

LEMMA Inductive == IInv /\ [Next]_vars => IInv'
<1> SUFFICES ASSUME IInv, [Next]_vars PROVE IInv'
  OBVIOUS
<1>1. ASSUME NEW r \in Requests, Look(r) PROVE IInv'
  BY <1>1, LookStep
<1>2. ASSUME NEW r \in Requests, Insert(r) PROVE IInv'
  BY <1>2, InsertStep
<1>3. ASSUME NEW r \in Requests, Update(r) PROVE IInv'
  BY <1>3, UpdateStep
<1>4. ASSUME NEW r \in Requests, Finish(r) PROVE IInv'
  BY <1>4, FinishStep
<1>5. ASSUME NEW r \in Requests, BreakDeadlock(r) PROVE IInv'
  BY <1>5, BreakDeadlockStep
<1>6. ASSUME NEW r \in Requests, Crash(r) PROVE IInv'
  BY <1>6, CrashStep
<1>7. CASE UNCHANGED vars
  BY <1>7, StutterStep
<1> QED
  BY <1>1, <1>2, <1>3, <1>4, <1>5, <1>6, <1>7 DEF Next

LEMMA Invariance == Spec => []IInv
BY InitIInv, Inductive, PTL DEF Spec

\* Types: in particular no handler is past its end.
THEOREM TypeCorrect == Spec => []TypeOK
BY Invariance, PTL DEF IInv

\* For any mix of requests on any seed that is sound: what is on file hangs
\* together, though some of it rests on no constraint of the schema.
THEOREM LinksStayGrounded == Spec => []LinksAreGrounded
BY Invariance, PTL DEF IInv

\* What is on file is the seed and all that the requests answered with success
\* asked for: none of them left a row out, and no other request left one behind.
THEOREM RequestsAreAtomic == Spec => []AllOrNothing
BY Invariance, PTL DEF IInv

\* PostgreSQL breaks a deadlock only among requests of one kind, on one person in
\* one case, whose lists name the same items in orders that disagree.
THEOREM DeadlocksAreDisorder == Spec => []OnlyDisorderDeadlocks
BY Invariance, PTL DEF IInv
==============================================================================
