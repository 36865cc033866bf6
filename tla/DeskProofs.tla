----------------------------- MODULE DeskProofs -----------------------------
(***************************************************************************)
(* Theorems about Desk and People, for any calls, sessions, names and      *)
(* addresses: types, that accepted edits stand, that the address a picker  *)
(* keeps is on file as saved, and that it goes to one created person.      *)
(***************************************************************************)
EXTENDS Desk, TLAPS

\* r updates an address, or gives one for the person it updates.
Edits(r) == req[r].op = "update_address" \/ (req[r].op = "update_person" /\ Inline(req[r]))

\* r has inserted an address, or a person.
HasAddress(r) ==
    /\ req[r].op \in {"create_address", "create_person"} /\ Inline(req[r])
    /\ pc[r] \in {"write_person", "commit", "done"}
HasPerson(r) == req[r].op = "create_person" /\ pc[r] \in {"commit", "done"}

\* What r has written of its address and of its person.
AddressStatement(r) ==
    IF pc[r] \notin {"write_person", "commit"} \/ ~ Inline(req[r]) THEN NoFields
    ELSE IF Edits(r) THEN AddressChange(r)
    ELSE req[r].address
PersonStatement(r) ==
    IF pc[r] # "commit" THEN NoFields
    ELSE CASE req[r].op = "create_person" -> [name |-> req[r].name, home |-> aid[r]]
           [] req[r].op = "update_person" -> PersonChange(r)
           [] OTHER                       -> NoFields

StageOK(r) ==
    /\ pc[r] # "new" => req[r] \in Request
    /\ pc[r] = "find_person" => req[r].op = "update_person"
    /\ pc[r] = "find_address" =>
          req[r].op = "update_address" \/ (req[r].op # "create_address" /\ req[r].home # Nil)
    /\ pc[r] = "insert_address" => req[r].op \in {"create_address", "create_person"} /\ Inline(req[r])
    /\ pc[r] = "write_address" => Edits(r)
    /\ pc[r] = "write_person" => req[r].op \in {"create_person", "update_person"}
    /\ pc[r] # "new" /\ req[r].op \in {"create_person", "update_person"} /\ req[r].home # Nil =>
          aid[r] = req[r].home
    /\ pc[r] \in {"write_address", "write_person", "commit", "done"} /\ ~ HasAddress(r) =>
          aid[r] \in DOMAIN addresses
    /\ pc[r] \notin {"new", "find_person", "not_found", "lost"} /\ req[r].op = "update_person" =>
          pid[r] \in DOMAIN persons
    /\ wroteAddress[r] = AddressStatement(r)
    /\ wrotePerson[r] = PersonStatement(r)

\* Another accepted update of the same person gave a name, or a home.
Renamed(r) == \E q \in Calls \ {r} : Did(q, "update_person") /\ pid[q] = pid[r] /\ req[q].name # Nil
Rehoused(r) == \E q \in Calls \ {r} : Did(q, "update_person") /\ pid[q] = pid[r] /\ req[q].home # Nil

\* What r gives is about to be written, or is on file, or another accepted
\* request gave it.
FieldKept(r, f) ==
    \/ f \in DOMAIN wroteAddress[r]
    \/ addresses[aid[r]][f] = req[r].address[f]
    \/ \E q \in Calls \ {r} : Gave(q, aid[r], f)
NameKept(r) ==
    "name" \in DOMAIN wrotePerson[r] \/ persons[pid[r]].name = req[r].name \/ Renamed(r)
HomeKept(r) ==
    "home" \in DOMAIN wrotePerson[r] \/ persons[pid[r]].home = req[r].home \/ Rehoused(r)

\* Each column r leaves out of its UPDATE needs none, then or later.
EditOK(r) ==
    /\ Edits(r) => \A f \in DOMAIN req[r].address :
          /\ pc[r] = "write_address" /\ seen[r].address[f] = req[r].address[f] => FieldKept(r, f)
          /\ pc[r] \in {"write_person", "commit", "done"} => FieldKept(r, f)
    /\ req[r].op = "update_person" =>
          /\ pc[r] \in {"find_address", "write_address", "write_person"} =>
                /\ seen[r].person.name = req[r].name => NameKept(r)
                /\ seen[r].person.home = req[r].home => HomeKept(r)
          /\ pc[r] \in {"commit", "done"} =>
                /\ req[r].name # Nil => NameKept(r)
                /\ req[r].home # Nil => HomeKept(r)
          /\ pc[r] \in {"write_address", "write_person", "commit", "done"} /\ Inline(req[r]) =>
                persons[pid[r]].home = aid[r] \/ Rehoused(r)

\* Uncommitted rows are locked.
AddressLocks ==
    \A r, q \in Calls :
        r # q /\ wroteAddress[r] # NoFields /\ wroteAddress[q] # NoFields => aid[r] # aid[q]
PersonLocks ==
    \A r, q \in Calls :
        r # q /\ wrotePerson[r] # NoFields /\ wrotePerson[q] # NoFields => pid[r] # pid[q]

\* Ids are new when they are drawn, and on file once committed.
AddressIds ==
    /\ nextAddress \in Nat \ {0}
    /\ \A r \in Calls : HasAddress(r) =>
          /\ aid[r] \in 1 .. nextAddress - 1
          /\ aid[r] \in DOMAIN addresses <=> pc[r] = "done"
          /\ \A q \in Calls : r # q /\ HasAddress(q) => aid[r] # aid[q]
PersonIds ==
    /\ nextPerson \in Nat \ {0}
    /\ \A r \in Calls : HasPerson(r) =>
          /\ pid[r] \in 1 .. nextPerson - 1
          /\ pid[r] \in DOMAIN persons <=> pc[r] = "done"
          /\ \A q \in Calls : r # q /\ HasPerson(q) => pid[r] # pid[q]

\* What holds of the service, whoever uses it.
PeopleInv ==
    /\ TypeOK /\ AddressLocks /\ PersonLocks /\ AddressIds /\ PersonIds
    /\ \A r \in Calls : StageOK(r) /\ EditOK(r)

\* An address that a picker created and was told of.
Saved(a) ==
    \E k \in Calls : told[k] = "done" /\ Did(k, "create_address") /\ aid[k] = a

\* Two persons whose creation a user was told of were not both submitted with the
\* address that one picker kept.
PickedForOne ==
    \A r, q \in picked :
        r # q /\ told[r] = "done" /\ told[q] = "done" => req[r].home # req[q].home

\* What holds of the sessions: a saved address is of one session, and of no
\* person that a user was told of.
SessionsInv ==
    /\ dialog \in [Sessions -> {"none", "new_address", "new_person"}]
    /\ saved \in [Sessions -> Given(Nat)]
    /\ call \in [Sessions -> Given(Calls)]
    /\ told \in [Calls -> {"nothing", "done", "failed"}]
    /\ picked \subseteq Calls
    /\ \A s \in Sessions : call[s] # Nil =>
          /\ pc[call[s]] # "new" /\ told[call[s]] = "nothing"
          /\ \A t \in Sessions : t # s => call[t] # call[s]
          /\ call[s] \in picked => saved[s] = req[call[s]].home
    /\ \A s \in Sessions : saved[s] # Nil =>
          /\ Saved(saved[s])
          /\ \A t \in Sessions : t # s => saved[t] # saved[s]
          /\ \A r \in picked : told[r] = "done" => req[r].home # saved[s]
    /\ \A r \in Calls : told[r] # "nothing" => pc[r] # "new"
    /\ \A r \in picked :
          pc[r] # "new" /\ req[r].op = "create_person" /\ req[r].home # Nil /\ Saved(req[r].home)
    /\ PickedForOne

IInv == PeopleInv /\ SessionsInv
-----------------------------------------------------------------------------
LEMMA NoFieldsShape ==
    /\ DOMAIN NoFields = {} /\ NoFields \in AddressFields /\ NoFields \in PersonFields
<1> QED
  BY DEF NoFields, AddressFields, PersonFields

LEMMA RequestType ==
    ASSUME NEW q \in Request
    PROVE  /\ q.op \in {"create_address", "update_address", "create_person", "update_person"}
           /\ q.id \in Nat /\ q.name \in Given(Names) /\ q.home \in Given(Nat)
           /\ Inline(q) => q.home = Nil /\ q.address \in AddressFields
           /\ Inline(q) /\ q.op \in {"create_address", "create_person"} => q.address \in Address
           /\ q.op \in {"create_address", "update_address"} => Inline(q)
           /\ q.op = "create_person" => q.name \in Names /\ (Inline(q) \/ q.home \in Nat)
<1> QED
  BY DEF Request, Given, Inline

\* The shape of what is given of an address, and of a row of it.
LEMMA AddressShape ==
    ASSUME NEW w \in AddressFields
    PROVE  /\ DOMAIN w \subseteq {"street", "city"}
           /\ w = [f \in DOMAIN w |-> w[f]]
           /\ "street" \in DOMAIN w => w.street \in Given(Streets)
           /\ "city" \in DOMAIN w => w.city \in Cities
<1>1. CASE w = NoFields
  BY <1>1 DEF NoFields
<1>2. CASE w \in [{"street"} -> Given(Streets)]
  BY <1>2
<1>3. CASE w \in [{"city"} -> Cities]
  BY <1>3
<1>4. CASE w \in Address
  BY <1>4 DEF Address
<1> QED
  BY <1>1, <1>2, <1>3, <1>4 DEF AddressFields

LEMMA AddressOfShape ==
    ASSUME NEW w, w = [f \in DOMAIN w |-> w[f]], DOMAIN w \subseteq {"street", "city"},
           "street" \in DOMAIN w => w["street"] \in Given(Streets),
           "city" \in DOMAIN w => w["city"] \in Cities
    PROVE  w \in AddressFields
<1>1. CASE DOMAIN w = {}
  BY <1>1 DEF AddressFields, NoFields
<1>2. CASE DOMAIN w = {"street"}
  BY <1>2 DEF AddressFields
<1>3. CASE DOMAIN w = {"city"}
  BY <1>3 DEF AddressFields
<1>4. CASE DOMAIN w = {"street", "city"}
  BY <1>4 DEF AddressFields, Address
<1> QED
  BY <1>1, <1>2, <1>3, <1>4

LEMMA PersonShape ==
    ASSUME NEW w \in PersonFields
    PROVE  /\ DOMAIN w \subseteq {"name", "home"}
           /\ w = [f \in DOMAIN w |-> w[f]]
           /\ "name" \in DOMAIN w => w.name \in Names
           /\ "home" \in DOMAIN w => w.home \in Nat
<1>1. CASE w = NoFields
  BY <1>1 DEF NoFields
<1>2. CASE w \in [{"name"} -> Names]
  BY <1>2
<1>3. CASE w \in [{"home"} -> Nat]
  BY <1>3
<1>4. CASE w \in Person
  BY <1>4 DEF Person
<1> QED
  BY <1>1, <1>2, <1>3, <1>4 DEF PersonFields

LEMMA PersonOfShape ==
    ASSUME NEW w, w = [f \in DOMAIN w |-> w[f]], DOMAIN w \subseteq {"name", "home"},
           "name" \in DOMAIN w => w["name"] \in Names,
           "home" \in DOMAIN w => w["home"] \in Nat
    PROVE  w \in PersonFields
<1>1. CASE DOMAIN w = {}
  BY <1>1 DEF PersonFields, NoFields
<1>2. CASE DOMAIN w = {"name"}
  BY <1>2 DEF PersonFields
<1>3. CASE DOMAIN w = {"home"}
  BY <1>3 DEF PersonFields
<1>4. CASE DOMAIN w = {"name", "home"}
  BY <1>4 DEF PersonFields, Person
<1> QED
  BY <1>1, <1>2, <1>3, <1>4

\* An UPDATE carries the columns given that differ from what was read.
LEMMA DifferingColumns ==
    ASSUME NEW row, NEW w
    PROVE  /\ DOMAIN Differing(row, w) \subseteq DOMAIN w
           /\ Differing(row, w) = [f \in DOMAIN Differing(row, w) |-> Differing(row, w)[f]]
           /\ \A f \in DOMAIN w :
                /\ f \in DOMAIN Differing(row, w) <=> w[f] # row[f]
                /\ f \in DOMAIN Differing(row, w) => Differing(row, w)[f] = w[f]
<1> QED
  BY DEF Differing

LEMMA DifferingAddress ==
    ASSUME NEW row, NEW w \in AddressFields
    PROVE  Differing(row, w) \in AddressFields
<1> DEFINE d == Differing(row, w)
<1>1. /\ d = [f \in DOMAIN d |-> d[f]] /\ DOMAIN d \subseteq DOMAIN w
      /\ \A f \in DOMAIN d : d[f] = w[f]
  BY DifferingColumns
<1> HIDE DEF d
<1>2. d \in AddressFields
  BY <1>1, AddressShape, AddressOfShape
<1> QED
  BY <1>2 DEF d

\* What update_person sets of a person.
LEMMA GivenPersonColumns ==
    ASSUME NEW r \in Calls, req[r] \in Request
    PROVE  /\ GivenPerson(r) = [f \in DOMAIN GivenPerson(r) |-> GivenPerson(r)[f]]
           /\ DOMAIN GivenPerson(r) \subseteq {"name", "home"}
           /\ "name" \in DOMAIN GivenPerson(r) <=> req[r].name # Nil
           /\ "home" \in DOMAIN GivenPerson(r) <=> req[r].home # Nil
           /\ req[r].name # Nil => GivenPerson(r)["name"] = req[r].name /\ req[r].name \in Names
           /\ req[r].home # Nil => GivenPerson(r)["home"] = req[r].home /\ req[r].home \in Nat
<1> QED
  BY RequestType DEF GivenPerson, Given

LEMMA PersonChangeType ==
    ASSUME NEW r \in Calls, req[r] \in Request
    PROVE  PersonChange(r) \in PersonFields
<1> DEFINE w == PersonChange(r)
<1>1. /\ w = [f \in DOMAIN w |-> w[f]] /\ DOMAIN w \subseteq DOMAIN GivenPerson(r)
      /\ \A f \in DOMAIN w : w[f] = GivenPerson(r)[f]
  BY DifferingColumns DEF PersonChange
<1> HIDE DEF w
<1>2. w \in PersonFields
  BY <1>1, GivenPersonColumns, PersonOfShape
<1> QED
  BY <1>2 DEF w

\* A statement replaces the columns it carries and no others.
LEMMA SetAddress ==
    ASSUME NEW row \in Address \cup {NullAddress}, NEW w \in AddressFields,
           row \in Address \/ w \in Address
    PROVE  /\ Set(row, w) \in Address
           /\ \A f \in {"street", "city"} :
                Set(row, w)[f] = IF f \in DOMAIN w THEN w[f] ELSE row[f]
<1>1. DOMAIN row = {"street", "city"}
  BY DEF Address, NullAddress
<1>2. Set(row, w) = [f \in {"street", "city"} |-> IF f \in DOMAIN w THEN w[f] ELSE row[f]]
  BY <1>1 DEF Set
<1>3. /\ (IF "street" \in DOMAIN w THEN w["street"] ELSE row["street"]) \in Given(Streets)
      /\ (IF "city" \in DOMAIN w THEN w["city"] ELSE row["city"]) \in Cities
  BY AddressShape DEF Address, NullAddress, Given
<1> QED
  BY <1>2, <1>3 DEF Address

LEMMA SetPerson ==
    ASSUME NEW row \in Person \cup {NullPerson}, NEW w \in PersonFields,
           row \in Person \/ w \in Person
    PROVE  /\ Set(row, w) \in Person
           /\ \A f \in {"name", "home"} :
                Set(row, w)[f] = IF f \in DOMAIN w THEN w[f] ELSE row[f]
<1>1. DOMAIN row = {"name", "home"}
  BY DEF Person, NullPerson
<1>2. Set(row, w) = [f \in {"name", "home"} |-> IF f \in DOMAIN w THEN w[f] ELSE row[f]]
  BY <1>1 DEF Set
<1>3. /\ (IF "name" \in DOMAIN w THEN w["name"] ELSE row["name"]) \in Names
      /\ (IF "home" \in DOMAIN w THEN w["home"] ELSE row["home"]) \in Nat
  BY PersonShape DEF Person, NullPerson
<1> QED
  BY <1>2, <1>3 DEF Person

LEMMA Facts ==
    ASSUME PeopleInv, NEW r \in Calls
    PROVE  /\ aid[r] \in Nat /\ pid[r] \in Nat
           /\ wroteAddress[r] \in AddressFields /\ wrotePerson[r] \in PersonFields
           /\ seen[r].address \in Address \cup {NullAddress}
           /\ seen[r].person \in Person \cup {NullPerson}
           /\ r \in DOMAIN pc /\ r \in DOMAIN req /\ r \in DOMAIN aid /\ r \in DOMAIN pid
           /\ r \in DOMAIN seen /\ r \in DOMAIN wroteAddress /\ r \in DOMAIN wrotePerson
           /\ StageOK(r) /\ EditOK(r)
           /\ pc[r] # "new" => req[r] \in Request
           /\ pc[r] \notin {"write_person", "commit"} => wroteAddress[r] = NoFields
           /\ pc[r] # "commit" => wrotePerson[r] = NoFields
<1> QED
  BY DEF PeopleInv, TypeOK, StageOK, AddressStatement, PersonStatement
-----------------------------------------------------------------------------
LEMMA InitPeopleInv == PeopleInit => PeopleInv
<1> SUFFICES ASSUME PeopleInit PROVE PeopleInv
  OBVIOUS
<1> USE DEF PeopleInit
<1>1. TypeOK
  <2>1. /\ DOMAIN addresses \subseteq 1 .. nextAddress - 1
        /\ \A a \in DOMAIN addresses : addresses[a] \in Address
    BY SeedAssumption
  <2>2. /\ DOMAIN persons \subseteq 1 .. nextPerson - 1
        /\ \A p \in DOMAIN persons : persons[p] \in Person /\ persons[p].home \in DOMAIN addresses
    BY SeedAssumption
  <2> QED
    BY <2>1, <2>2, NoFieldsShape DEF TypeOK
<1>2. AddressLocks /\ PersonLocks
  BY DEF AddressLocks, PersonLocks
<1>3. AddressIds /\ PersonIds
  BY SeedAssumption DEF AddressIds, PersonIds, HasAddress, HasPerson, NoRequest
<1>4. \A r \in Calls : StageOK(r) /\ EditOK(r)
  BY DEF StageOK, EditOK, AddressStatement, PersonStatement, NoRequest, Edits, HasAddress
<1> QED
  BY <1>1, <1>2, <1>3, <1>4 DEF PeopleInv

\* What everybody but r has is left alone.
Others(r) ==
    \A q \in Calls \ {r} :
        /\ pc'[q] = pc[q] /\ req'[q] = req[q] /\ aid'[q] = aid[q] /\ pid'[q] = pid[q]
        /\ seen'[q] = seen[q]
        /\ wroteAddress'[q] = wroteAddress[q] /\ wrotePerson'[q] = wrotePerson[q]

LEMMA StageKept ==
    ASSUME NEW r, NEW q \in Calls \ {r}, Others(r), StageOK(q),
           DOMAIN addresses \subseteq DOMAIN addresses', DOMAIN persons \subseteq DOMAIN persons'
    PROVE  StageOK(q)'
<1>1. /\ AddressStatement(q)' = AddressStatement(q) /\ PersonStatement(q)' = PersonStatement(q)
      /\ Edits(q)' <=> Edits(q)
      /\ HasAddress(q)' <=> HasAddress(q)
      /\ Inline(req[q])' <=> Inline(req[q])
  BY DEF Others, AddressStatement, PersonStatement, Edits, HasAddress, Inline, AddressChange,
         PersonChange, GivenPerson
<1> QED
  BY <1>1 DEF StageOK, Others

\* A step of r that neither commits nor starts from an end.
LEMMA QuietStep ==
    ASSUME PeopleInv, NEW r \in Calls, Others(r), UNCHANGED <<addresses, persons>>,
           pc[r] # "done", pc'[r] # "done",
           TypeOK', AddressLocks', PersonLocks', AddressIds', PersonIds', StageOK(r)', EditOK(r)'
    PROVE  PeopleInv'
<1>1. ASSUME NEW q \in Calls \ {r} PROVE StageOK(q)'
  BY StageKept DEF PeopleInv
<1>2. ASSUME NEW q \in Calls \ {r} PROVE EditOK(q)'
  <2>1. /\ Renamed(q)' <=> Renamed(q)
        /\ Rehoused(q)' <=> Rehoused(q)
    BY DEF Renamed, Rehoused, Did, Others
  <2>2. ASSUME NEW f PROVE FieldKept(q, f)' <=> FieldKept(q, f)
    BY DEF FieldKept, Gave, Inline, Others
  <2>3. NameKept(q)' <=> NameKept(q)
    BY <2>1 DEF NameKept, Others
  <2>4. HomeKept(q)' <=> HomeKept(q)
    BY <2>1 DEF HomeKept, Others
  <2>5. /\ Edits(q)' <=> Edits(q)
        /\ Inline(req[q])' <=> Inline(req[q])
    BY DEF Edits, Inline, Others
  <2>6. EditOK(q)
    BY DEF PeopleInv
  <2> QED
    BY <2>1, <2>2, <2>3, <2>4, <2>5, <2>6 DEF EditOK, Others
<1> QED
  BY <1>1, <1>2 DEF PeopleInv

\* A step after which r holds nothing.
LEMMA HoldsNothing ==
    ASSUME PeopleInv, NEW r \in Calls, Others(r), UNCHANGED <<addresses, persons, ids>>,
           wroteAddress'[r] = NoFields, wrotePerson'[r] = NoFields,
           ~ HasAddress(r)', ~ HasPerson(r)'
    PROVE  AddressLocks' /\ PersonLocks' /\ AddressIds' /\ PersonIds'
<1>1. ASSUME NEW q \in Calls \ {r}
      PROVE  (HasAddress(q)' <=> HasAddress(q)) /\ (HasPerson(q)' <=> HasPerson(q))
  BY DEF Others, HasAddress, HasPerson, Inline
<1>2. AddressLocks' /\ PersonLocks'
  BY DEF PeopleInv, AddressLocks, PersonLocks, Others
<1>3. AddressIds'
  BY <1>1 DEF PeopleInv, AddressIds, Others, ids
<1>4. PersonIds'
  BY <1>1 DEF PeopleInv, PersonIds, Others, ids
<1> QED
  BY <1>2, <1>3, <1>4

\* A step of r that leaves its address, or its person, as it is.
LEMMA SameAddresses ==
    ASSUME PeopleInv, NEW r \in Calls, Others(r), UNCHANGED <<addresses, nextAddress, wroteAddress, aid>>,
           HasAddress(r)' <=> HasAddress(r), pc[r] # "done", pc'[r] # "done"
    PROVE  AddressLocks' /\ AddressIds'
<1>1. ASSUME NEW q \in Calls PROVE HasAddress(q)' <=> HasAddress(q)
  BY DEF Others, HasAddress, Inline
<1>2. ASSUME NEW q \in Calls PROVE pc'[q] = "done" <=> pc[q] = "done"
  BY DEF Others
<1>3. AddressLocks'
  BY DEF PeopleInv, AddressLocks
<1>4. AddressIds'
  BY <1>1, <1>2 DEF PeopleInv, AddressIds
<1> QED
  BY <1>3, <1>4

LEMMA SamePersons ==
    ASSUME PeopleInv, NEW r \in Calls, Others(r), UNCHANGED <<persons, nextPerson, wrotePerson, pid>>,
           HasPerson(r)' <=> HasPerson(r), pc[r] # "done", pc'[r] # "done"
    PROVE  PersonLocks' /\ PersonIds'
<1>1. ASSUME NEW q \in Calls PROVE HasPerson(q)' <=> HasPerson(q)
  BY DEF Others, HasPerson
<1>2. ASSUME NEW q \in Calls PROVE pc'[q] = "done" <=> pc[q] = "done"
  BY DEF Others
<1>3. PersonLocks'
  BY DEF PeopleInv, PersonLocks
<1>4. PersonIds'
  BY <1>1, <1>2 DEF PeopleInv, PersonIds
<1> QED
  BY <1>3, <1>4
-----------------------------------------------------------------------------
LEMMA FailStep ==
    ASSUME PeopleInv, NEW r \in Calls, NEW o \in {"not_found", "lost"}, Fail(r, o), pc[r] \notin {"new", "done"}
    PROVE  PeopleInv'
<1> USE DEF Fail, Goto
<1>1. /\ Others(r) /\ pc'[r] = o
      /\ wroteAddress'[r] = NoFields /\ wrotePerson'[r] = NoFields
  BY Facts DEF Others
<1>2. TypeOK'
  BY NoFieldsShape DEF PeopleInv, TypeOK, Working, Outcomes, ids
<1>3. ~ HasAddress(r)' /\ ~ HasPerson(r)'
  BY <1>1 DEF HasAddress, HasPerson
<1>4. StageOK(r)'
  <2>1. AddressStatement(r)' = NoFields /\ PersonStatement(r)' = NoFields
    BY <1>1 DEF AddressStatement, PersonStatement
  <2>2. pc[r] # "new" => req[r] \in Request
    BY Facts
  <2> QED
    BY <1>1, <2>1, <2>2, Facts DEF StageOK
<1>5. EditOK(r)'
  BY <1>1 DEF EditOK
<1> QED
  BY <1>1, <1>2, <1>3, <1>4, <1>5, QuietStep, HoldsNothing

\* The call q arrives.
LEMMA ReceiveStep ==
    ASSUME PeopleInv, NEW r \in Calls, NEW q \in Request, Receive(r, q)
    PROVE  PeopleInv'
<1> USE DEF Receive, Goto
<1>1. /\ Others(r) /\ req'[r] = q /\ pc[r] = "new"
      /\ wroteAddress'[r] = NoFields /\ wrotePerson'[r] = NoFields
      /\ q.home # Nil /\ q.op \in {"create_person", "update_person"} => aid'[r] = q.home
  BY Facts DEF Others
<1>2. /\ q.op = "update_person" => pc'[r] = "find_person"
      /\ q.op = "update_address" => pc'[r] = "find_address"
      /\ q.op \in {"create_address", "create_person"} =>
            pc'[r] = IF Inline(q) THEN "insert_address" ELSE "find_address"
      /\ pc'[r] \in {"find_person", "find_address", "insert_address"}
  BY <1>1, RequestType, Facts
<1>3. TypeOK'
  <2>1. aid'[r] \in Nat /\ pid'[r] \in Nat
    BY RequestType, Facts DEF Given
  <2> QED
    BY <1>2, <2>1 DEF PeopleInv, TypeOK, Working, ids
<1>4. ~ HasAddress(r)' /\ ~ HasPerson(r)'
  BY <1>2 DEF HasAddress, HasPerson
<1>5. StageOK(r)'
  <2>1. AddressStatement(r)' = NoFields /\ PersonStatement(r)' = NoFields
    BY <1>2 DEF AddressStatement, PersonStatement
  <2>2. pc'[r] = "insert_address" => q.op \in {"create_address", "create_person"} /\ Inline(q)
    BY <1>2, RequestType
  <2>3. pc'[r] = "find_address" => q.op = "update_address" \/ (q.op # "create_address" /\ q.home # Nil)
    BY <1>2, RequestType, NilAssumption
  <2>4. pc'[r] = "find_person" => q.op = "update_person"
    BY <1>2, RequestType
  <2>5. req[r]' = q /\ (Inline(req[r])' <=> Inline(q))
    BY <1>1 DEF Inline
  <2> QED
    BY <1>1, <1>2, <2>1, <2>2, <2>3, <2>4, <2>5 DEF StageOK
<1>6. EditOK(r)'
  BY <1>1, <1>2 DEF EditOK
<1> QED
  BY <1>1, <1>2, <1>3, <1>4, <1>5, <1>6, QuietStep, HoldsNothing DEF ids

LEMMA FindPersonStep ==
    ASSUME PeopleInv, NEW r \in Calls, FindPerson(r)
    PROVE  PeopleInv'
<1>1. CASE pid[r] \notin DOMAIN persons
  BY <1>1, FailStep DEF FindPerson
<1>2. CASE pid[r] \in DOMAIN persons
  <2> USE DEF FindPerson, Goto
  <2> DEFINE home == persons[pid[r]].home
  <2>0. req[r] \in Request /\ req[r].op = "update_person"
    BY Facts DEF StageOK
  <2>1. /\ Others(r) /\ req'[r] = req[r] /\ pid'[r] = pid[r]
        /\ wroteAddress'[r] = NoFields /\ wrotePerson'[r] = NoFields
        /\ aid'[r] = IF req[r].home = Nil THEN home ELSE aid[r]
        /\ seen'[r] = [address |-> addresses[home], person |-> persons[pid[r]]]
    BY <1>2, Facts DEF Others
  <2>2. /\ Inline(req[r]) => pc'[r] = "write_address" /\ req[r].home = Nil
        /\ ~ Inline(req[r]) => pc'[r] = IF req[r].home # Nil THEN "find_address" ELSE "write_person"
    BY <1>2, <2>0, RequestType, Facts
  <2>3. /\ persons[pid[r]] \in Person /\ home \in Nat /\ home \in DOMAIN addresses
        /\ addresses[home] \in Address
    BY <1>2 DEF PeopleInv, TypeOK, Person
  <2>4. TypeOK'
    <3>1. aid'[r] \in Nat /\ seen'[r] \in [address : Address \cup {NullAddress}, person : Person \cup {NullPerson}]
      BY <2>1, <2>3, Facts
    <3> QED
      BY <1>2, <2>2, <3>1 DEF PeopleInv, TypeOK, Working, ids
  <2>5. ~ HasAddress(r)' /\ ~ HasPerson(r)'
    BY <2>0, <2>1 DEF HasAddress, HasPerson
  <2>6. StageOK(r)'
    <3>1. AddressStatement(r)' = NoFields /\ PersonStatement(r)' = NoFields
      BY <2>1, <2>2 DEF AddressStatement, PersonStatement, Inline
    <3>2. req[r].home # Nil => aid[r] = req[r].home
      BY <2>0, Facts DEF StageOK
    <3>3. Edits(r)' <=> Edits(r)
      BY <2>1 DEF Edits, Inline
    <3> QED
      BY <1>2, <2>0, <2>1, <2>2, <2>3, <2>5, <3>1, <3>2, <3>3 DEF StageOK, Edits
  <2>7. EditOK(r)'
    <3>1. /\ addresses' = addresses /\ persons' = persons
          /\ Edits(r)' => Inline(req[r]) /\ aid'[r] = home
      BY <1>2, <2>0, <2>1, <2>2 DEF Edits, Inline
    <3>2. /\ pc'[r] \in {"find_address", "write_address", "write_person"}
          /\ Inline(req[r])' => Inline(req[r])
      BY <2>1, <2>2 DEF Inline
    <3>3. ASSUME NEW f, Edits(r)', seen'[r].address[f] = req'[r].address[f]
          PROVE  FieldKept(r, f)'
      BY <2>1, <3>1, <3>3 DEF FieldKept
    <3>4. seen'[r].person.name = req'[r].name => NameKept(r)'
      BY <2>1, <3>1 DEF NameKept
    <3>5. seen'[r].person.home = req'[r].home => HomeKept(r)'
      BY <2>1, <3>1 DEF HomeKept
    <3>6. pc'[r] = "write_person" => ~ Edits(r)'
      BY <2>0, <2>1, <2>2 DEF Edits, Inline
    <3>7. Inline(req[r])' => persons'[pid'[r]].home = aid'[r]
      BY <2>1, <2>2, <3>1, <3>2
    <3> QED
      BY <2>0, <2>1, <3>2, <3>3, <3>4, <3>5, <3>6, <3>7 DEF EditOK
  <2> QED
    BY <1>2, <2>1, <2>2, <2>4, <2>5, <2>6, <2>7, QuietStep, HoldsNothing DEF ids
<1> QED
  BY <1>1, <1>2

LEMMA FindAddressStep ==
    ASSUME PeopleInv, NEW r \in Calls, FindAddress(r)
    PROVE  PeopleInv'
<1>1. CASE aid[r] \notin DOMAIN addresses
  BY <1>1, FailStep DEF FindAddress
<1>2. CASE aid[r] \in DOMAIN addresses
  <2> USE DEF FindAddress, Goto
  <2>1. /\ Others(r) /\ req'[r] = req[r] /\ pid'[r] = pid[r] /\ aid'[r] = aid[r]
        /\ wroteAddress'[r] = NoFields /\ wrotePerson'[r] = NoFields
        /\ seen'[r].address = addresses[aid[r]] /\ seen'[r].person = seen[r].person
        /\ pc'[r] = IF req[r].op = "update_address" THEN "write_address" ELSE "write_person"
    BY <1>2, Facts DEF Others, PeopleInv, TypeOK
  <2>2. /\ req[r] \in Request /\ req[r].op # "create_address"
        /\ req[r].op # "update_address" => ~ Inline(req[r])
    BY Facts, RequestType, NilAssumption DEF StageOK, Given
  <2>3. TypeOK'
    <3>1. addresses[aid[r]] \in Address
      BY <1>2 DEF PeopleInv, TypeOK
    <3>2. seen' \in [Calls -> [address : Address \cup {NullAddress}, person : Person \cup {NullPerson}]]
      BY <1>2, <3>1 DEF PeopleInv, TypeOK
    <3> QED
      BY <1>2, <3>2 DEF PeopleInv, TypeOK, Working, ids
  <2>4. ~ HasAddress(r)' /\ ~ HasPerson(r)'
    BY <2>1, <2>2 DEF HasAddress, HasPerson, Inline
  <2>5. StageOK(r)'
    <3>1. AddressStatement(r)' = NoFields /\ PersonStatement(r)' = NoFields
      BY <2>1, <2>2 DEF AddressStatement, PersonStatement, Inline
    <3>2. Edits(r)' <=> Edits(r)
      BY <2>1 DEF Edits, Inline
    <3>3. addresses' = addresses /\ persons' = persons
      BY <1>2
    <3>4. req[r].op \in {"update_address", "create_person", "update_person"}
      BY <2>2, RequestType
    <3> QED
      BY <1>2, <2>1, <2>2, <2>4, <3>1, <3>2, <3>3, <3>4, Facts DEF StageOK, Edits
  <2>6. EditOK(r)'
    <3>1. addresses' = addresses /\ persons' = persons
      BY <1>2
    <3>2. ASSUME NEW f, Edits(r)', seen'[r].address[f] = req'[r].address[f]
          PROVE  FieldKept(r, f)'
      BY <2>1, <3>1, <3>2 DEF FieldKept
    <3>3. /\ Renamed(r) => Renamed(r)'
          /\ Rehoused(r) => Rehoused(r)'
      BY <2>1 DEF Renamed, Rehoused, Did, Others
    <3>4. /\ NameKept(r) => NameKept(r)'
          /\ HomeKept(r) => HomeKept(r)'
      BY <2>1, <3>1, <3>3, Facts DEF NameKept, HomeKept
    <3>5. /\ pc'[r] = "write_person" => ~ Edits(r)'
          /\ req[r].op = "update_person" => ~ Inline(req[r])'
      BY <2>1, <2>2 DEF Edits, Inline
    <3>6. EditOK(r)
      BY Facts
    <3>7. /\ pc[r] = "find_address"
          /\ pc'[r] \in {"write_address", "write_person"}
          /\ req[r].op = "update_person" => pc'[r] = "write_person"
      BY <2>1
    <3> QED
      BY <2>1, <3>2, <3>4, <3>5, <3>6, <3>7 DEF EditOK
  <2> QED
    BY <1>2, <2>1, <2>3, <2>4, <2>5, <2>6, QuietStep, HoldsNothing DEF ids
<1> QED
  BY <1>1, <1>2

\* Who has written an address has one that is on file or has drawn its id.
LEMMA AddressKnown ==
    ASSUME PeopleInv, NEW q \in Calls, wroteAddress[q] # NoFields \/ HasAddress(q)
    PROVE  aid[q] \in 1 .. nextAddress - 1
<1>1. CASE HasAddress(q)
  BY <1>1 DEF PeopleInv, AddressIds
<1>2. CASE ~ HasAddress(q)
  <2>1. aid[q] \in DOMAIN addresses
    BY <1>2, Facts DEF StageOK
  <2> QED
    BY <2>1, Facts DEF PeopleInv, TypeOK, AddressIds
<1> QED
  BY <1>1, <1>2

LEMMA InsertAddressStep ==
    ASSUME PeopleInv, NEW r \in Calls, InsertAddress(r)
    PROVE  PeopleInv'
<1> USE DEF InsertAddress, Goto
<1>1. /\ Others(r) /\ req'[r] = req[r] /\ pid'[r] = pid[r] /\ aid'[r] = nextAddress
      /\ wroteAddress'[r] = req[r].address /\ wrotePerson'[r] = NoFields
      /\ pc'[r] = IF req[r].op = "create_person" THEN "write_person" ELSE "commit"
      /\ nextAddress' = nextAddress + 1 /\ nextAddress \in Nat \ {0}
      /\ addresses' = addresses /\ persons' = persons
  BY Facts DEF Others, PeopleInv, AddressIds
<1>2. /\ req[r] \in Request /\ req[r].op \in {"create_address", "create_person"}
      /\ Inline(req[r]) /\ req[r].address \in Address /\ req[r].home = Nil
  BY Facts, RequestType DEF StageOK
<1>3. TypeOK'
  <2>1. req[r].address \in AddressFields
    BY <1>2 DEF AddressFields
  <2>2. DOMAIN addresses' \subseteq 1 .. nextAddress' - 1
    BY <1>1 DEF PeopleInv, TypeOK
  <2> QED
    BY <1>1, <2>1, <2>2 DEF PeopleInv, TypeOK, Working, ids
<1>4. /\ HasAddress(r)' /\ (req[r].op = "create_person" => ~ HasPerson(r)')
      /\ HasPerson(r)' <=> HasPerson(r)
  BY <1>1, <1>2 DEF HasAddress, HasPerson, Inline
<1>5. AddressLocks'
  <2>1. ASSUME NEW q \in Calls \ {r}, wroteAddress'[q] # NoFields PROVE aid'[q] \in 1 .. nextAddress - 1
    BY <1>1, <2>1, AddressKnown DEF Others
  <2> QED
    BY <1>1, <2>1, Facts DEF PeopleInv, AddressLocks, Others
<1>6. AddressIds'
  <2>1. ASSUME NEW q \in Calls \ {r} PROVE HasAddress(q)' <=> HasAddress(q)
    BY <1>1 DEF Others, HasAddress, Inline
  <2>2. ASSUME NEW q \in Calls \ {r}, HasAddress(q)' PROVE aid'[q] \in 1 .. nextAddress - 1
    BY <1>1, <2>1, <2>2, AddressKnown DEF Others
  <2>3. nextAddress \notin DOMAIN addresses
    BY <1>1 DEF PeopleInv, TypeOK
  <2>4. ASSUME NEW q \in Calls, HasAddress(q)'
        PROVE  /\ aid'[q] \in 1 .. nextAddress' - 1 /\ (aid'[q] \in DOMAIN addresses' <=> pc'[q] = "done")
               /\ \A k \in Calls : q # k /\ HasAddress(k)' => aid'[q] # aid'[k]
    <3>1. CASE q = r
      BY <1>1, <2>2, <2>3, <3>1, Facts DEF Others
    <3>2. CASE q # r
      BY <1>1, <2>1, <2>2, <2>4, <3>2, Facts DEF PeopleInv, AddressIds, Others
    <3> QED
      BY <3>1, <3>2
  <2> QED
    BY <1>1, <2>4 DEF AddressIds
<1>7. PersonLocks' /\ PersonIds'
  BY <1>1, <1>4, SamePersons
<1>8. StageOK(r)'
  <2>1. AddressStatement(r)' = req[r].address /\ PersonStatement(r)' = NoFields
    BY <1>1, <1>2 DEF AddressStatement, PersonStatement, Inline, Edits
  <2>2. Inline(req[r])'
    BY <1>1, <1>2 DEF Inline
  <2> QED
    BY <1>1, <1>2, <1>4, <2>1, <2>2, Facts DEF StageOK
<1>9. EditOK(r)'
  BY <1>1, <1>2 DEF EditOK, Edits
<1> QED
  BY <1>1, <1>3, <1>5, <1>6, <1>7, <1>8, <1>9, QuietStep

LEMMA WriteAddressStep ==
    ASSUME PeopleInv, NEW r \in Calls, WriteAddress(r)
    PROVE  PeopleInv'
<1> USE DEF WriteAddress, Goto
<1>1. /\ Others(r) /\ req'[r] = req[r] /\ pid'[r] = pid[r] /\ aid'[r] = aid[r] /\ seen'[r] = seen[r]
      /\ wroteAddress'[r] = AddressChange(r) /\ wrotePerson'[r] = NoFields
      /\ pc'[r] = IF req[r].op = "update_person" THEN "write_person" ELSE "commit"
      /\ addresses' = addresses /\ persons' = persons
  BY Facts DEF Others
<1>2. /\ req[r] \in Request /\ Edits(r) /\ Inline(req[r])
      /\ req[r].address \in AddressFields /\ req[r].home = Nil
      /\ req[r].op \in {"update_address", "update_person"}
  BY Facts, RequestType DEF StageOK, Edits
<1>3. TypeOK'
  <2>1. AddressChange(r) \in AddressFields
    BY <1>2, DifferingAddress DEF AddressChange
  <2> QED
    BY <1>1, <2>1 DEF PeopleInv, TypeOK, Working, ids
<1>4. ~ HasAddress(r)' /\ ~ HasPerson(r)' /\ ~ HasAddress(r) /\ ~ HasPerson(r)
  BY <1>1, <1>2 DEF HasAddress, HasPerson
<1>5. AddressLocks'
  BY <1>1 DEF PeopleInv, AddressLocks, Others
<1>6. AddressIds'
  <2>1. ASSUME NEW q \in Calls PROVE HasAddress(q)' <=> HasAddress(q)
    BY <1>1, <1>4 DEF Others, HasAddress, Inline
  <2> QED
    BY <1>1, <1>4, <2>1 DEF PeopleInv, AddressIds, Others, ids
<1>7. PersonLocks' /\ PersonIds'
  BY <1>1, <1>4, SamePersons DEF ids
<1>8. StageOK(r)'
  <2>1. AddressChange(r)' = AddressChange(r)
    BY <1>1 DEF AddressChange
  <2>2. (Edits(r)' <=> Edits(r)) /\ (Inline(req[r])' <=> Inline(req[r]))
    BY <1>1 DEF Edits, Inline
  <2>3. AddressStatement(r)' = AddressChange(r)
    BY <1>1, <1>2, <2>1, <2>2 DEF AddressStatement
  <2>4. PersonStatement(r)' = NoFields
    BY <1>1, <1>2 DEF PersonStatement
  <2> QED
    BY <1>1, <1>2, <1>4, <2>2, <2>3, <2>4, Facts DEF StageOK
<1>9. EditOK(r)'
  <2>1. ASSUME NEW f \in DOMAIN req[r].address PROVE FieldKept(r, f)'
    <3>1. f \in DOMAIN AddressChange(r) \/ seen[r].address[f] = req[r].address[f]
      BY DifferingColumns DEF AddressChange
    <3>2. CASE f \in DOMAIN AddressChange(r)
      BY <1>1, <3>2 DEF FieldKept
    <3>3. CASE seen[r].address[f] = req[r].address[f]
      <4>1. FieldKept(r, f)
        BY <1>2, <3>3, Facts DEF EditOK
      <4>2. wroteAddress[r] = NoFields
        BY Facts
      <4>3. \A q \in Calls \ {r} : Gave(q, aid[r], f) => Gave(q, aid[r], f)'
        BY <1>1 DEF Gave, Inline, Others
      <4> QED
        BY <1>1, <4>1, <4>2, <4>3, NoFieldsShape DEF FieldKept
    <3> QED
      BY <3>1, <3>2, <3>3
  <2>2. /\ Renamed(r) => Renamed(r)'
        /\ Rehoused(r) => Rehoused(r)'
    BY <1>1 DEF Renamed, Rehoused, Did, Others
  <2>3. /\ NameKept(r) => NameKept(r)'
        /\ HomeKept(r) => HomeKept(r)'
    BY <1>1, <2>2, Facts DEF NameKept, HomeKept
  <2>4. (Edits(r)' <=> Edits(r)) /\ (Inline(req[r])' <=> Inline(req[r]))
    BY <1>1 DEF Edits, Inline
  <2>5. EditOK(r)
    BY Facts
  <2>6. pc[r] = "write_address" /\ (req[r].op = "update_person" => pc'[r] = "write_person")
    BY <1>1
  <2> QED
    BY <1>1, <2>1, <2>2, <2>3, <2>4, <2>5, <2>6 DEF EditOK
<1> QED
  BY <1>1, <1>3, <1>5, <1>6, <1>7, <1>8, <1>9, QuietStep

\* Who has written a person has one that is on file or has drawn its id.
LEMMA PersonKnown ==
    ASSUME PeopleInv, NEW q \in Calls, wrotePerson[q] # NoFields \/ HasPerson(q)
    PROVE  pid[q] \in 1 .. nextPerson - 1
<1>1. CASE HasPerson(q)
  BY <1>1 DEF PeopleInv, PersonIds
<1>2. CASE ~ HasPerson(q)
  <2>1. pc[q] = "commit" /\ req[q].op = "update_person"
    BY <1>2, Facts DEF StageOK, PersonStatement, HasPerson
  <2>2. pid[q] \in DOMAIN persons
    BY <2>1, Facts DEF StageOK
  <2> QED
    BY <2>2, Facts DEF PeopleInv, TypeOK, PersonIds
<1> QED
  BY <1>1, <1>2

LEMMA InsertPersonStep ==
    ASSUME PeopleInv, NEW r \in Calls, InsertPerson(r)
    PROVE  PeopleInv'
<1> USE DEF InsertPerson, Goto
<1>1. /\ Others(r) /\ req'[r] = req[r] /\ pid'[r] = nextPerson /\ aid'[r] = aid[r] /\ pc'[r] = "commit"
      /\ wroteAddress'[r] = wroteAddress[r]
      /\ wrotePerson'[r] = [name |-> req[r].name, home |-> aid[r]]
      /\ nextPerson' = nextPerson + 1 /\ nextPerson \in Nat \ {0}
      /\ addresses' = addresses /\ persons' = persons
  BY Facts DEF Others, PeopleInv, PersonIds
<1>2. /\ req[r] \in Request /\ req[r].op = "create_person" /\ req[r].name \in Names
      /\ pc[r] = "write_person"
  BY Facts, RequestType
<1>3. TypeOK'
  <2>1. [name |-> req[r].name, home |-> aid[r]] \in PersonFields
    BY <1>2, Facts DEF PersonFields, Person
  <2>2. DOMAIN persons' \subseteq 1 .. nextPerson' - 1
    BY <1>1 DEF PeopleInv, TypeOK
  <2> QED
    BY <1>1, <2>1, <2>2 DEF PeopleInv, TypeOK, Working, ids
<1>4. /\ HasAddress(r)' <=> HasAddress(r)
      /\ HasPerson(r)'
  BY <1>1, <1>2 DEF HasAddress, HasPerson, Inline
<1>5. PersonLocks'
  <2>1. ASSUME NEW q \in Calls \ {r}, wrotePerson'[q] # NoFields PROVE pid'[q] \in 1 .. nextPerson - 1
    BY <1>1, <2>1, PersonKnown DEF Others
  <2> QED
    BY <1>1, <2>1, Facts DEF PeopleInv, PersonLocks, Others
<1>6. PersonIds'
  <2>1. ASSUME NEW q \in Calls \ {r} PROVE HasPerson(q)' <=> HasPerson(q)
    BY <1>1 DEF Others, HasPerson
  <2>2. ASSUME NEW q \in Calls \ {r}, HasPerson(q)' PROVE pid'[q] \in 1 .. nextPerson - 1
    BY <1>1, <2>1, <2>2, PersonKnown DEF Others
  <2>3. nextPerson \notin DOMAIN persons
    BY <1>1 DEF PeopleInv, TypeOK
  <2>4. ASSUME NEW q \in Calls, HasPerson(q)'
        PROVE  /\ pid'[q] \in 1 .. nextPerson' - 1 /\ (pid'[q] \in DOMAIN persons' <=> pc'[q] = "done")
               /\ \A k \in Calls : q # k /\ HasPerson(k)' => pid'[q] # pid'[k]
    <3>1. CASE q = r
      BY <1>1, <2>2, <2>3, <3>1, Facts DEF Others
    <3>2. CASE q # r
      BY <1>1, <2>1, <2>2, <2>4, <3>2, Facts DEF PeopleInv, PersonIds, Others
    <3> QED
      BY <3>1, <3>2
  <2> QED
    BY <1>1, <2>4 DEF PersonIds
<1>7. AddressLocks' /\ AddressIds'
  BY <1>1, <1>2, <1>4, SameAddresses
<1>8. StageOK(r)'
  <2>1. /\ Edits(r)' <=> Edits(r)
        /\ Inline(req[r])' <=> Inline(req[r])
    BY <1>1 DEF Edits, Inline
  <2>2. AddressStatement(r)' = AddressStatement(r)
    BY <1>1, <1>2, <2>1 DEF AddressStatement, Edits
  <2>3. PersonStatement(r)' = wrotePerson'[r]
    BY <1>1, <1>2 DEF PersonStatement
  <2> QED
    BY <1>1, <1>2, <1>4, <2>2, <2>3, Facts DEF StageOK
<1>9. EditOK(r)'
  BY <1>1, <1>2 DEF EditOK, Edits
<1> QED
  BY <1>1, <1>2, <1>3, <1>5, <1>6, <1>7, <1>8, <1>9, QuietStep

LEMMA WritePersonStep ==
    ASSUME PeopleInv, NEW r \in Calls, WritePerson(r)
    PROVE  PeopleInv'
<1> USE DEF WritePerson, Goto
<1>1. /\ Others(r) /\ req'[r] = req[r] /\ pid'[r] = pid[r] /\ aid'[r] = aid[r] /\ pc'[r] = "commit"
      /\ seen'[r] = seen[r]
      /\ wroteAddress'[r] = wroteAddress[r] /\ wrotePerson'[r] = PersonChange(r)
      /\ addresses' = addresses /\ persons' = persons
  BY Facts DEF Others
<1>2. /\ req[r] \in Request /\ req[r].op = "update_person" /\ pc[r] = "write_person"
  BY Facts
<1>3. TypeOK'
  BY <1>1, <1>2, PersonChangeType DEF PeopleInv, TypeOK, Working, ids
<1>4. /\ HasAddress(r)' <=> HasAddress(r)
      /\ ~ HasPerson(r)' /\ ~ HasPerson(r)
  BY <1>1, <1>2 DEF HasAddress, HasPerson
<1>5. PersonLocks'
  BY <1>1 DEF PeopleInv, PersonLocks, Others
<1>6. PersonIds'
  <2>1. ASSUME NEW q \in Calls PROVE HasPerson(q)' <=> HasPerson(q)
    BY <1>1, <1>4 DEF Others, HasPerson
  <2> QED
    BY <1>1, <1>4, <2>1 DEF PeopleInv, PersonIds, Others, ids
<1>7. AddressLocks' /\ AddressIds'
  BY <1>1, <1>2, <1>4, SameAddresses DEF ids
<1>8. StageOK(r)'
  <2>1. /\ Edits(r)' <=> Edits(r)
        /\ Inline(req[r])' <=> Inline(req[r])
        /\ AddressChange(r)' = AddressChange(r)
        /\ PersonChange(r)' = PersonChange(r)
    BY <1>1 DEF Edits, Inline, AddressChange, PersonChange, GivenPerson
  <2>2. AddressStatement(r)' = AddressStatement(r)
    BY <1>1, <1>2, <2>1 DEF AddressStatement
  <2>3. PersonStatement(r)' = wrotePerson'[r]
    BY <1>1, <1>2, <2>1 DEF PersonStatement
  <2> QED
    BY <1>1, <1>2, <1>4, <2>2, <2>3, Facts DEF StageOK
<1>9. EditOK(r)'
  <2>1. /\ Renamed(r) => Renamed(r)'
        /\ Rehoused(r) => Rehoused(r)'
    BY <1>1 DEF Renamed, Rehoused, Did, Others
  <2>2. wrotePerson[r] = NoFields
    BY <1>2, Facts
  <2>3. EditOK(r)
    BY Facts
  <2>4. req[r].name # Nil => NameKept(r)'
    <3>1. req[r].name # Nil =>
             "name" \in DOMAIN PersonChange(r) \/ seen[r].person.name = req[r].name
      BY <1>2, GivenPersonColumns, DifferingColumns DEF PersonChange
    <3> QED
      BY <1>1, <1>2, <2>1, <2>2, <2>3, <3>1, NoFieldsShape DEF EditOK, NameKept
  <2>5. req[r].home # Nil => HomeKept(r)'
    <3>1. req[r].home # Nil =>
             "home" \in DOMAIN PersonChange(r) \/ seen[r].person.home = req[r].home
      BY <1>2, GivenPersonColumns, DifferingColumns DEF PersonChange
    <3> QED
      BY <1>1, <1>2, <2>1, <2>2, <2>3, <3>1, NoFieldsShape DEF EditOK, HomeKept
  <2>6. (Edits(r)' <=> Edits(r)) /\ (Inline(req[r])' <=> Inline(req[r]))
    BY <1>1 DEF Edits, Inline
  <2>7. ASSUME NEW f PROVE FieldKept(r, f) => FieldKept(r, f)'
    BY <1>1 DEF FieldKept, Gave, Inline, Others
  <2> QED
    BY <1>1, <1>2, <2>1, <2>3, <2>4, <2>5, <2>6, <2>7 DEF EditOK
<1> QED
  BY <1>1, <1>2, <1>3, <1>5, <1>6, <1>7, <1>8, <1>9, QuietStep

\* What r commits is what it gave, and nobody else holds it.
LEMMA WroteAddress ==
    ASSUME PeopleInv, NEW r \in Calls, pc[r] = "commit"
    PROVE  /\ req[r] \in Request
           /\ \A f \in DOMAIN wroteAddress[r] :
                /\ Inline(req[r]) /\ f \in DOMAIN req[r].address
                /\ wroteAddress[r][f] = req[r].address[f]
           /\ HasAddress(r) => wroteAddress[r] \in Address /\ wroteAddress[r] # NoFields
           /\ ~ HasAddress(r) => aid[r] \in DOMAIN addresses
<1>1. StageOK(r) /\ req[r] \in Request
  BY Facts
<1>2. CASE ~ Inline(req[r])
  BY <1>1, <1>2, NoFieldsShape DEF StageOK, AddressStatement, HasAddress
<1>3. CASE Inline(req[r]) /\ Edits(r)
  <2>1. wroteAddress[r] = Differing(seen[r].address, req[r].address) /\ ~ HasAddress(r)
    BY <1>1, <1>3 DEF StageOK, AddressStatement, AddressChange, HasAddress, Edits
  <2> QED
    BY <1>1, <1>3, <2>1, DifferingColumns DEF StageOK
<1>4. CASE Inline(req[r]) /\ ~ Edits(r)
  <2>1. wroteAddress[r] = req[r].address /\ req[r].op \in {"create_address", "create_person"}
    BY <1>1, <1>4, RequestType DEF StageOK, AddressStatement, Edits
  <2>2. req[r].address \in Address
    BY <1>1, <1>4, <2>1, RequestType
  <2>3. req[r].address # NoFields
    BY <2>2, NoFieldsShape DEF Address
  <2>4. HasAddress(r)
    BY <1>4, <2>1 DEF HasAddress
  <2> QED
    BY <1>1, <1>4, <2>1, <2>2, <2>3, <2>4
<1> QED
  BY <1>2, <1>3, <1>4

LEMMA WrotePerson ==
    ASSUME PeopleInv, NEW r \in Calls, pc[r] = "commit"
    PROVE  /\ HasPerson(r) => wrotePerson[r] \in Person /\ wrotePerson[r] # NoFields
           /\ wrotePerson[r] # NoFields /\ ~ HasPerson(r) =>
                req[r].op = "update_person" /\ pid[r] \in DOMAIN persons
           /\ "home" \in DOMAIN wrotePerson[r] => wrotePerson[r]["home"] = aid[r]
           /\ req[r].op = "update_person" =>
                /\ "name" \in DOMAIN wrotePerson[r] =>
                      req[r].name # Nil /\ wrotePerson[r]["name"] = req[r].name
                /\ "home" \in DOMAIN wrotePerson[r] =>
                      req[r].home # Nil /\ wrotePerson[r]["home"] = req[r].home
<1>1. StageOK(r) /\ req[r] \in Request
  BY Facts
<1>2. CASE req[r].op = "create_person"
  <2>1. wrotePerson[r] = [name |-> req[r].name, home |-> aid[r]]
    BY <1>1, <1>2 DEF StageOK, PersonStatement
  <2>2. wrotePerson[r] \in Person
    BY <1>1, <1>2, <2>1, RequestType, Facts DEF Person
  <2> QED
    BY <1>2, <2>1, <2>2, NoFieldsShape DEF HasPerson
<1>3. CASE req[r].op = "update_person"
  <2>1. wrotePerson[r] = Differing(seen[r].person, GivenPerson(r)) /\ ~ HasPerson(r)
    BY <1>1, <1>3 DEF StageOK, PersonStatement, PersonChange, HasPerson
  <2>2. \A f \in DOMAIN wrotePerson[r] : f \in DOMAIN GivenPerson(r) /\ wrotePerson[r][f] = GivenPerson(r)[f]
    BY <2>1, DifferingColumns
  <2>3. req[r].home # Nil => aid[r] = req[r].home
    BY <1>1, <1>3 DEF StageOK
  <2>4. pid[r] \in DOMAIN persons
    BY <1>1, <1>3 DEF StageOK
  <2> QED
    BY <1>1, <1>3, <2>1, <2>2, <2>3, <2>4, GivenPersonColumns
<1>4. CASE req[r].op \notin {"create_person", "update_person"}
  BY <1>1, <1>4, NoFieldsShape DEF StageOK, PersonStatement, HasPerson
<1> QED
  BY <1>2, <1>3, <1>4

\* What a commit does to the tables.
LEMMA CommitAddresses ==
    ASSUME PeopleInv, NEW r \in Calls, Commit(r)
    PROVE  /\ DOMAIN addresses' = DOMAIN addresses \cup IF HasAddress(r) THEN {aid[r]} ELSE {}
           /\ aid[r] \in DOMAIN addresses'
           /\ \A a \in DOMAIN addresses' : addresses'[a] \in Address
           /\ \A a \in DOMAIN addresses' : a # aid[r] => addresses'[a] = addresses[a]
           /\ \A f \in DOMAIN wroteAddress[r] : addresses'[aid[r]][f] = req[r].address[f]
           /\ aid[r] \in DOMAIN addresses =>
                \A f \in {"street", "city"} \ DOMAIN wroteAddress[r] :
                    addresses'[aid[r]][f] = addresses[aid[r]][f]
<1> DEFINE a == aid[r]
           w == wroteAddress[r]
<1>1. /\ addresses' = Write(addresses, a, w, NullAddress)
      /\ \A b \in DOMAIN addresses : addresses[b] \in Address
      /\ w \in AddressFields
  BY Facts DEF Commit, PeopleInv, TypeOK
<1>2. CASE w = NoFields
  <2>1. addresses' = addresses /\ a \in DOMAIN addresses /\ ~ HasAddress(r)
    BY <1>1, <1>2, WroteAddress DEF Commit, Write
  <2> QED
    BY <1>1, <1>2, <2>1, NoFieldsShape
<1>3. CASE w # NoFields
  <2> DEFINE old == IF a \in DOMAIN addresses THEN addresses[a] ELSE NullAddress
  <2>1. /\ DOMAIN addresses' = DOMAIN addresses \cup {a}
        /\ \A j \in DOMAIN addresses \cup {a} : j # a => addresses'[j] = addresses[j]
        /\ addresses'[a] = Set(old, w)
    BY <1>1, <1>3 DEF Write
  <2>2. HasAddress(r) => a \notin DOMAIN addresses
    BY DEF Commit, PeopleInv, AddressIds
  <2>3. old \in Address \cup {NullAddress} /\ (old \in Address \/ w \in Address)
    BY <1>1, WroteAddress DEF Commit
  <2>4. /\ Set(old, w) \in Address
        /\ \A f \in {"street", "city"} : Set(old, w)[f] = IF f \in DOMAIN w THEN w[f] ELSE old[f]
    BY <1>1, <2>3, SetAddress
  <2>5. DOMAIN w \subseteq {"street", "city"}
    BY <1>1, AddressShape
  <2>6. \A f \in DOMAIN w : w[f] = req[r].address[f]
    BY WroteAddress DEF Commit
  <2>7. ~ HasAddress(r) => a \in DOMAIN addresses
    BY WroteAddress DEF Commit
  <2> HIDE DEF w, old
  <2>8. a \in DOMAIN addresses => old = addresses[a]
    BY DEF old
  <2> QED
    BY <1>1, <2>1, <2>2, <2>4, <2>5, <2>6, <2>7, <2>8 DEF w
<1> QED
  BY <1>2, <1>3

LEMMA CommitPersons ==
    ASSUME PeopleInv, NEW r \in Calls, Commit(r)
    PROVE  /\ DOMAIN persons' = DOMAIN persons \cup IF HasPerson(r) THEN {pid[r]} ELSE {}
           /\ \A p \in DOMAIN persons' : persons'[p] \in Person /\ persons'[p].home \in DOMAIN addresses'
           /\ \A p \in DOMAIN persons' : p # pid[r] => persons'[p] = persons[p]
           /\ pid[r] \in DOMAIN persons => \A f \in {"name", "home"} :
                persons'[pid[r]][f] =
                  IF f \in DOMAIN wrotePerson[r] THEN wrotePerson[r][f] ELSE persons[pid[r]][f]
<1> DEFINE p == pid[r]
           w == wrotePerson[r]
<1>1. /\ persons' = Write(persons, p, w, NullPerson)
      /\ \A q \in DOMAIN persons : persons[q] \in Person /\ persons[q].home \in DOMAIN addresses
      /\ w \in PersonFields
      /\ DOMAIN addresses \subseteq DOMAIN addresses' /\ aid[r] \in DOMAIN addresses'
  BY Facts, CommitAddresses DEF Commit, PeopleInv, TypeOK
<1>2. CASE w = NoFields
  <2>1. persons' = persons /\ ~ HasPerson(r)
    BY <1>1, <1>2, WrotePerson DEF Commit, Write
  <2> QED
    BY <1>1, <1>2, <2>1, NoFieldsShape
<1>3. CASE w # NoFields
  <2> DEFINE old == IF p \in DOMAIN persons THEN persons[p] ELSE NullPerson
  <2>1. /\ DOMAIN persons' = DOMAIN persons \cup {p}
        /\ \A j \in DOMAIN persons \cup {p} : j # p => persons'[j] = persons[j]
        /\ persons'[p] = Set(old, w)
    BY <1>1, <1>3 DEF Write
  <2>2. /\ HasPerson(r) => w \in Person
        /\ ~ HasPerson(r) => p \in DOMAIN persons
        /\ "home" \in DOMAIN w => w["home"] = aid[r]
    BY <1>3, WrotePerson DEF Commit
  <2>3. old \in Person \cup {NullPerson} /\ (old \in Person \/ w \in Person)
    BY <1>1, <2>2
  <2>4. /\ Set(old, w) \in Person
        /\ \A f \in {"name", "home"} : Set(old, w)[f] = IF f \in DOMAIN w THEN w[f] ELSE old[f]
    BY <1>1, <2>3, SetPerson
  <2>5. persons'[p].home \in DOMAIN addresses'
    <3>1. CASE "home" \in DOMAIN w
      BY <1>1, <2>1, <2>2, <2>4, <3>1
    <3>2. CASE "home" \notin DOMAIN w
      <4>1. w \notin Person
        BY <3>2 DEF Person
      <4>2. p \in DOMAIN persons /\ persons'[p]["home"] = old["home"]
        BY <2>1, <2>2, <2>4, <3>2, <4>1
      <4> QED
        BY <1>1, <4>2
    <3> QED
      BY <3>1, <3>2
  <2>6. p \in DOMAIN persons => old = persons[p]
    OBVIOUS
  <2> HIDE DEF w, old
  <2> QED
    BY <1>1, <2>1, <2>2, <2>4, <2>5, <2>6 DEF w
<1> QED
  BY <1>2, <1>3

LEMMA CommitTypes ==
    ASSUME PeopleInv, NEW r \in Calls, Commit(r)
    PROVE  TypeOK'
<1>1. HasAddress(r) => aid[r] \in 1 .. nextAddress - 1
  BY DEF PeopleInv, AddressIds
<1>2. HasPerson(r) => pid[r] \in 1 .. nextPerson - 1
  BY DEF PeopleInv, PersonIds
<1>3. /\ UNCHANGED <<ids, req, aid, pid, seen>>
      /\ pc' = [pc EXCEPT ![r] = "done"]
      /\ wroteAddress' = [wroteAddress EXCEPT ![r] = NoFields]
      /\ wrotePerson' = [wrotePerson EXCEPT ![r] = NoFields]
  BY DEF Commit, Goto
<1>4. DOMAIN addresses' \subseteq 1 .. nextAddress' - 1
  <2>1. DOMAIN addresses' = DOMAIN addresses \cup IF HasAddress(r) THEN {aid[r]} ELSE {}
    BY CommitAddresses
  <2> QED
    BY <1>1, <1>3, <2>1 DEF ids, PeopleInv, TypeOK
<1>5. DOMAIN persons' \subseteq 1 .. nextPerson' - 1
  <2>1. DOMAIN persons' = DOMAIN persons \cup IF HasPerson(r) THEN {pid[r]} ELSE {}
    BY CommitPersons
  <2> QED
    BY <1>2, <1>3, <2>1 DEF ids, PeopleInv, TypeOK
<1>6. /\ \A a \in DOMAIN addresses' : addresses'[a] \in Address
      /\ \A p \in DOMAIN persons' : persons'[p] \in Person /\ persons'[p].home \in DOMAIN addresses'
  BY CommitAddresses, CommitPersons
<1>7. wroteAddress' \in [Calls -> AddressFields] /\ wrotePerson' \in [Calls -> PersonFields]
  BY <1>3, NoFieldsShape DEF PeopleInv, TypeOK
<1> QED
  BY <1>3, <1>4, <1>5, <1>6, <1>7 DEF PeopleInv, TypeOK, Outcomes

LEMMA CommitIds ==
    ASSUME PeopleInv, NEW r \in Calls, Commit(r)
    PROVE  AddressLocks' /\ PersonLocks' /\ AddressIds' /\ PersonIds'
<1>1. /\ Others(r) /\ pc[r] = "commit" /\ pc'[r] = "done"
      /\ UNCHANGED <<ids, req, aid, pid, seen>>
      /\ wroteAddress'[r] = NoFields /\ wrotePerson'[r] = NoFields
  BY Facts DEF Others, Commit, Goto
<1>2. AddressLocks' /\ PersonLocks'
  BY <1>1 DEF PeopleInv, AddressLocks, PersonLocks, Others
<1>3. ASSUME NEW q \in Calls
      PROVE  (HasAddress(q)' <=> HasAddress(q)) /\ (HasPerson(q)' <=> HasPerson(q))
  BY <1>1 DEF Others, HasAddress, HasPerson, Inline
<1>4. ASSUME NEW q \in Calls, HasAddress(q) PROVE aid[q] \in DOMAIN addresses' <=> pc'[q] = "done"
  <2>1. /\ DOMAIN addresses' = DOMAIN addresses \cup IF HasAddress(r) THEN {aid[r]} ELSE {}
        /\ aid[r] \in DOMAIN addresses'
    BY CommitAddresses
  <2>2. q # r /\ HasAddress(r) => aid[q] # aid[r]
    BY <1>4 DEF PeopleInv, AddressIds
  <2> QED
    BY <1>1, <1>4, <2>1, <2>2 DEF PeopleInv, AddressIds, Others
<1>5. ASSUME NEW q \in Calls, HasPerson(q) PROVE pid[q] \in DOMAIN persons' <=> pc'[q] = "done"
  <2>1. DOMAIN persons' = DOMAIN persons \cup IF HasPerson(r) THEN {pid[r]} ELSE {}
    BY CommitPersons
  <2>2. q # r /\ HasPerson(r) => pid[q] # pid[r]
    BY <1>5 DEF PeopleInv, PersonIds
  <2> QED
    BY <1>1, <1>5, <2>1, <2>2 DEF PeopleInv, PersonIds, Others
<1>6. AddressIds'
  BY <1>1, <1>3, <1>4 DEF PeopleInv, AddressIds, ids
<1>7. PersonIds'
  BY <1>1, <1>3, <1>5 DEF PeopleInv, PersonIds, ids
<1> QED
  BY <1>2, <1>6, <1>7

\* The commit of r takes from another request only what r gave.
LEMMA EditSurvives ==
    ASSUME PeopleInv, NEW r \in Calls, Commit(r), NEW q \in Calls \ {r}
    PROVE  EditOK(q)'
<1>1. /\ Others(r) /\ pc[r] = "commit" /\ pc'[r] = "done"
      /\ UNCHANGED <<ids, req, aid, pid, seen>>
      /\ pc'[q] = pc[q]
      /\ wroteAddress'[q] = wroteAddress[q] /\ wrotePerson'[q] = wrotePerson[q]
  BY Facts DEF Others, Commit, Goto
<1>2. /\ StageOK(q) /\ EditOK(q)
      /\ (Edits(q)' <=> Edits(q)) /\ (Inline(req[q])' <=> Inline(req[q]))
  BY <1>1, Facts DEF Edits, Inline
<1>3. ASSUME NEW f \in DOMAIN req[q].address, Edits(q), FieldKept(q, f),
             pc[q] \in {"write_address", "write_person", "commit", "done"}
      PROVE  FieldKept(q, f)'
  <2>1. aid[q] \in DOMAIN addresses
    BY <1>2, <1>3 DEF StageOK, Edits, HasAddress
  <2>2. f \in {"street", "city"}
    BY <1>2, <1>3, Facts, RequestType, AddressShape DEF Edits
  <2>3. \A k \in Calls \ {q} : Gave(k, aid[q], f) => Gave(k, aid[q], f)'
    BY <1>1 DEF Gave, Inline, Others
  <2>4. CASE addresses[aid[q]][f] = req[q].address[f]
    <3>1. CASE aid[r] = aid[q] /\ f \in DOMAIN wroteAddress[r]
      <4>1. Inline(req[r]) /\ f \in DOMAIN req[r].address
        BY <1>1, <3>1, WroteAddress
      <4>2. Gave(r, aid[q], f)'
        BY <1>1, <3>1, <4>1 DEF Gave, Inline
      <4> QED
        BY <1>1, <4>2 DEF FieldKept, Gave, Inline
    <3>2. CASE ~ (aid[r] = aid[q] /\ f \in DOMAIN wroteAddress[r])
      <4>1. addresses'[aid[q]][f] = addresses[aid[q]][f]
        <5>1. CASE aid[r] = aid[q]
          <6>1. f \notin DOMAIN wroteAddress[r]
            BY <3>2, <5>1
          <6> QED
            BY <2>1, <2>2, <5>1, <6>1, CommitAddresses
        <5>2. CASE aid[r] # aid[q]
          <6>1. aid[q] \in DOMAIN addresses'
            BY <2>1, CommitAddresses
          <6> QED
            BY <5>2, <6>1, CommitAddresses
        <5> QED
          BY <5>1, <5>2
      <4> QED
        BY <1>1, <2>4, <4>1 DEF FieldKept
    <3> QED
      BY <3>1, <3>2
  <2>5. CASE f \in DOMAIN wroteAddress[q]
    BY <1>1, <2>5 DEF FieldKept
  <2>6. CASE \E k \in Calls \ {q} : Gave(k, aid[q], f)
    BY <2>3, <2>6 DEF FieldKept
  <2> QED
    BY <1>3, <2>4, <2>5, <2>6 DEF FieldKept
<1>4. /\ Renamed(q) => Renamed(q)'
      /\ Rehoused(q) => Rehoused(q)'
  BY <1>1 DEF Renamed, Rehoused, Did, Others
<1>5. ASSUME req[q].op = "update_person", pid[q] \in DOMAIN persons
      PROVE  /\ persons'[pid[q]].name = persons[pid[q]].name \/ Renamed(q)'
             /\ persons'[pid[q]].home = persons[pid[q]].home \/ Rehoused(q)'
  <2>1. CASE pid[r] # pid[q] \/ wrotePerson[r] = NoFields
    BY <1>5, <2>1, CommitPersons, NoFieldsShape
  <2>2. CASE pid[r] = pid[q] /\ wrotePerson[r] # NoFields
    <3>1. ~ HasPerson(r)
      BY <1>1, <1>5, <2>2 DEF PeopleInv, PersonIds
    <3>2. req[r].op = "update_person"
      BY <1>1, <2>2, <3>1, WrotePerson
    <3>3. /\ req[r].name # Nil => Renamed(q)'
          /\ req[r].home # Nil => Rehoused(q)'
      BY <1>1, <2>2, <3>2 DEF Renamed, Rehoused, Did
    <3>4. /\ "name" \in DOMAIN wrotePerson[r] => req[r].name # Nil
          /\ "home" \in DOMAIN wrotePerson[r] => req[r].home # Nil
      BY <1>1, <3>2, WrotePerson
    <3> QED
      BY <1>5, <2>2, <3>3, <3>4, CommitPersons
  <2> QED
    BY <2>1, <2>2
<1>6. ASSUME req[q].op = "update_person",
             pc[q] \in {"find_address", "write_address", "write_person", "commit", "done"}
      PROVE  /\ NameKept(q) => NameKept(q)'
             /\ HomeKept(q) => HomeKept(q)'
             /\ persons[pid[q]].home = aid[q] \/ Rehoused(q) =>
                  (persons[pid[q]].home = aid[q] \/ Rehoused(q))'
  <2>1. pid[q] \in DOMAIN persons
    BY <1>2, <1>6 DEF StageOK
  <2> QED
    BY <1>1, <1>4, <1>5, <1>6, <2>1 DEF NameKept, HomeKept
<1> QED
  BY <1>1, <1>2, <1>3, <1>6 DEF EditOK

\* The commit of r puts what r gave on file.
LEMMA EditCommitted ==
    ASSUME PeopleInv, NEW r \in Calls, Commit(r)
    PROVE  EditOK(r)'
<1>1. /\ Others(r) /\ pc[r] = "commit" /\ pc'[r] = "done"
      /\ UNCHANGED <<ids, req, aid, pid, seen>>
  BY Facts DEF Others, Commit, Goto
<1>2. /\ StageOK(r) /\ EditOK(r) /\ req[r] \in Request
      /\ (Edits(r)' <=> Edits(r)) /\ (Inline(req[r])' <=> Inline(req[r]))
  BY <1>1, Facts DEF Edits, Inline
<1>3. ASSUME NEW f \in DOMAIN req[r].address, Edits(r) PROVE FieldKept(r, f)'
  <2>1. aid[r] \in DOMAIN addresses /\ FieldKept(r, f)
    BY <1>1, <1>2, <1>3 DEF StageOK, Edits, HasAddress, EditOK
  <2>2. f \in {"street", "city"}
    BY <1>2, <1>3, RequestType, AddressShape DEF Edits
  <2>3. \A k \in Calls \ {r} : Gave(k, aid[r], f) => Gave(k, aid[r], f)'
    BY <1>1 DEF Gave, Inline, Others
  <2>4. CASE f \in DOMAIN wroteAddress[r]
    BY <1>1, <2>4, CommitAddresses DEF FieldKept
  <2>5. CASE f \notin DOMAIN wroteAddress[r]
    <3>1. addresses'[aid[r]][f] = addresses[aid[r]][f]
      BY <2>1, <2>2, <2>5, CommitAddresses
    <3> QED
      BY <1>1, <2>1, <2>3, <2>5, <3>1 DEF FieldKept
  <2> QED
    BY <2>4, <2>5
<1>4. /\ Renamed(r) => Renamed(r)'
      /\ Rehoused(r) => Rehoused(r)'
  BY <1>1 DEF Renamed, Rehoused, Did, Others
<1>5. ASSUME req[r].op = "update_person"
      PROVE  /\ NameKept(r) => NameKept(r)'
             /\ HomeKept(r) => HomeKept(r)'
             /\ Inline(req[r]) => persons'[pid[r]].home = persons[pid[r]].home
  <2>1. pid[r] \in DOMAIN persons
    BY <1>1, <1>2, <1>5 DEF StageOK
  <2>2. /\ "name" \in DOMAIN wrotePerson[r] => wrotePerson[r]["name"] = req[r].name
        /\ "home" \in DOMAIN wrotePerson[r] => req[r].home # Nil /\ wrotePerson[r]["home"] = req[r].home
    BY <1>1, <1>5, WrotePerson
  <2>3. /\ persons'[pid[r]]["name"] = IF "name" \in DOMAIN wrotePerson[r] THEN wrotePerson[r]["name"] ELSE persons[pid[r]]["name"]
        /\ persons'[pid[r]]["home"] = IF "home" \in DOMAIN wrotePerson[r] THEN wrotePerson[r]["home"] ELSE persons[pid[r]]["home"]
    BY <2>1, CommitPersons
  <2>4. Inline(req[r]) => req[r].home = Nil
    BY <1>2, RequestType
  <2> QED
    BY <1>1, <1>4, <2>2, <2>3, <2>4 DEF NameKept, HomeKept
<1> QED
  BY <1>1, <1>2, <1>3, <1>4, <1>5 DEF EditOK

LEMMA CommitStep ==
    ASSUME PeopleInv, NEW r \in Calls, Commit(r)
    PROVE  PeopleInv'
<1>1. /\ Others(r) /\ pc[r] = "commit" /\ pc'[r] = "done"
      /\ UNCHANGED <<ids, req, aid, pid, seen>>
      /\ wroteAddress'[r] = NoFields /\ wrotePerson'[r] = NoFields
  BY Facts DEF Others, Commit, Goto
<1>2. /\ DOMAIN addresses \subseteq DOMAIN addresses' /\ DOMAIN persons \subseteq DOMAIN persons'
      /\ aid[r] \in DOMAIN addresses'
  BY CommitAddresses, CommitPersons
<1>3. ASSUME NEW q \in Calls \ {r} PROVE StageOK(q)'
  BY <1>1, <1>2, StageKept, Facts
<1>4. StageOK(r)'
  <2>1. AddressStatement(r)' = NoFields /\ PersonStatement(r)' = NoFields
    BY <1>1 DEF AddressStatement, PersonStatement
  <2>2. StageOK(r) /\ req[r] \in Request
    BY <1>1, Facts
  <2> QED
    BY <1>1, <1>2, <2>1, <2>2 DEF StageOK
<1>5. \A q \in Calls : StageOK(q)' /\ EditOK(q)'
  BY <1>3, <1>4, EditSurvives, EditCommitted
<1> QED
  BY <1>5, CommitTypes, CommitIds DEF PeopleInv

LEMMA ServeStep ==
    ASSUME PeopleInv, NEW r \in Calls, Serve(r)
    PROVE  PeopleInv'
<1>1. Crash(r) => PeopleInv'
  BY FailStep DEF Crash, Working
<1> QED
  BY <1>1, FindPersonStep, FindAddressStep, InsertAddressStep, WriteAddressStep,
     InsertPersonStep, WritePersonStep, CommitStep DEF Serve
-----------------------------------------------------------------------------
\* What the sessions rely on in the service: calls that are in stay in, with what
\* they asked for, and those carried out keep their outcome.
CallsStand ==
    \A k \in Calls :
        /\ pc[k] # "new" => pc'[k] # "new" /\ req'[k] = req[k]
        /\ pc[k] = "done" => pc'[k] = "done" /\ aid'[k] = aid[k]

LEMMA ServeCallsStand ==
    ASSUME PeopleInv, NEW r \in Calls, Serve(r)
    PROVE  CallsStand
<1>1. /\ pc[r] \notin {"new", "done"} /\ req' = req
      /\ \A k \in Calls \ {r} : pc'[k] = pc[k] /\ aid'[k] = aid[k]
  BY DEF Serve, FindPerson, FindAddress, InsertAddress, WriteAddress, InsertPerson, WritePerson,
         Commit, Crash, Fail, Goto, Working, PeopleInv, TypeOK
<1>2. pc'[r] # "new"
  BY DEF Serve, FindPerson, FindAddress, InsertAddress, WriteAddress, InsertPerson, WritePerson,
         Commit, Crash, Fail, Goto, PeopleInv, TypeOK
<1> QED
  BY <1>1, <1>2 DEF CallsStand

LEMMA ReceiveCallsStand ==
    ASSUME PeopleInv, NEW r \in Calls, NEW q \in Request, Receive(r, q)
    PROVE  CallsStand /\ req'[r] = q /\ pc'[r] # "new" /\ pc[r] = "new"
<1>1. \A k \in Calls \ {r} : pc'[k] = pc[k] /\ aid'[k] = aid[k] /\ req'[k] = req[k]
  BY DEF Receive, Goto, PeopleInv, TypeOK
<1>2. pc'[r] # "new" /\ req'[r] = q
  BY RequestType DEF Receive, Goto, PeopleInv, TypeOK
<1> QED
  BY <1>1, <1>2 DEF CallsStand, Receive

\* An address that was saved stays saved.
LEMMA SavedStays ==
    ASSUME CallsStand, NEW a, Saved(a), \A k \in Calls : told[k] = "done" => told'[k] = "done"
    PROVE  Saved(a)'
<1> QED
  BY DEF Saved, Did, CallsStand

\* A step of the service that no session notices.
LEMMA ServiceSteps ==
    ASSUME SessionsInv, CallsStand, UNCHANGED desk
    PROVE  SessionsInv'
<1>1. /\ dialog' = dialog /\ saved' = saved /\ call' = call /\ told' = told /\ picked' = picked
  BY DEF desk
<1>2. ASSUME NEW s \in Sessions, saved[s] # Nil PROVE Saved(saved[s])'
  BY <1>1, <1>2 DEF SessionsInv, Saved, Did, CallsStand
<1>3. ASSUME NEW r \in picked
      PROVE  pc'[r] # "new" /\ req'[r] = req[r] /\ Saved(req[r].home)'
  <2>1. r \in Calls /\ pc[r] # "new" /\ Saved(req[r].home)
    BY DEF SessionsInv
  <2>2. pc'[r] # "new" /\ req'[r] = req[r]
    BY <2>1 DEF CallsStand
  <2> QED
    BY <1>1, <2>1, <2>2 DEF Saved, Did, CallsStand
<1>4. ASSUME NEW s \in Sessions, call[s] # Nil
      PROVE  pc'[call[s]] # "new" /\ req'[call[s]] = req[call[s]]
  <2>1. call[s] \in Calls /\ pc[call[s]] # "new"
    BY <1>4 DEF SessionsInv, Given
  <2> QED
    BY <2>1 DEF CallsStand
<1>5. ASSUME NEW r \in Calls, told[r] # "nothing" PROVE pc'[r] # "new"
  BY <1>5 DEF SessionsInv, CallsStand
<1>6. PickedForOne'
  BY <1>1, <1>3 DEF SessionsInv, PickedForOne
<1> QED
  BY <1>1, <1>2, <1>3, <1>4, <1>5, <1>6 DEF SessionsInv

LEMMA PickersStep ==
    ASSUME SessionsInv, NEW s \in Sessions,
           NEW d \in {"none", "new_address", "new_person"},
           dialog' = [dialog EXCEPT ![s] = d], UNCHANGED <<vars, saved, call, told, picked>>
    PROVE  SessionsInv'
<1>1. ASSUME NEW a PROVE Saved(a)' <=> Saved(a)
  BY DEF Saved, Did, vars
<1> QED
  BY <1>1 DEF SessionsInv, PickedForOne, vars

LEMMA NewPersonType ==
    ASSUME NEW a \in Nat
    PROVE  /\ NewPerson(a) \in Request /\ NewPerson(a).op = "create_person"
           /\ NewPerson(a).home = a /\ a # Nil
<1> QED
  BY NilAssumption, ClientsAssumption DEF NewPerson, Request, Given

LEMMA NewAddressType == NewAddress \in Request
<1>1. SomeAddress \in AddressFields
  BY ClientsAssumption DEF AddressFields
<1> QED
  BY <1>1, NilAssumption, ClientsAssumption DEF NewAddress, Request, Given

\* A session makes a call, maybe with the address its picker keeps.
LEMMA MakeStep ==
    ASSUME PeopleInv, SessionsInv, NEW s \in Sessions, NEW r \in Calls, NEW q \in Request,
           Make(s, r, q),
           \/ picked' = picked
           \/ picked' = picked \cup {r} /\ saved[s] # Nil /\ q = NewPerson(saved[s])
    PROVE  SessionsInv'
<1>1. /\ dialog' = dialog /\ saved' = saved /\ told' = told /\ call' = [call EXCEPT ![s] = r]
      /\ CallsStand /\ req'[r] = q /\ pc'[r] # "new" /\ pc[r] = "new"
  BY ReceiveCallsStand DEF Make
<1>2. /\ told[r] = "nothing" /\ r \notin picked
      /\ call \in [Sessions -> Given(Calls)]
      /\ \A t \in Sessions : call[t] # r
  <2>1. \A t \in Sessions : call[t] # Nil => pc[call[t]] # "new"
    BY DEF SessionsInv
  <2>2. r # Nil
    BY CallsAssumption, NilAssumption
  <2> QED
    BY <1>1, <2>1, <2>2 DEF SessionsInv
<1>3. saved[s] # Nil => saved[s] \in Nat
  BY DEF SessionsInv, Given
<1>4. ASSUME NEW t \in Sessions, saved[t] # Nil PROVE Saved(saved[t])'
  BY <1>1, <1>4 DEF SessionsInv, Saved, Did, CallsStand
<1>5. ASSUME NEW k \in picked'
      PROVE  /\ k \in Calls /\ pc'[k] # "new" /\ req'[k].op = "create_person" /\ req'[k].home # Nil
             /\ Saved(req[k].home)'
             /\ k # r => k \in picked /\ req'[k] = req[k]
             /\ k = r => req'[k].home = saved[s]
  <2>1. CASE k = r
    <3>1. saved[s] # Nil /\ q = NewPerson(saved[s])
      BY <1>2, <2>1
    <3>2. req'[k].op = "create_person" /\ req'[k].home = saved[s]
      BY <1>1, <1>3, <2>1, <3>1, NewPersonType
    <3>3. Saved(saved[s])'
      BY <1>4, <3>1
    <3>4. Saved(req[k].home)'
      BY <1>1, <3>2, <3>3 DEF Saved
    <3> QED
      BY <1>1, <1>3, <2>1, <3>1, <3>2, <3>4
  <2>2. CASE k # r
    <3>1. k \in picked
      BY <2>2
    <3>2. k \in Calls /\ pc[k] # "new" /\ Saved(req[k].home) /\ req[k].op = "create_person" /\ req[k].home # Nil
      BY <3>1 DEF SessionsInv
    <3>3. pc'[k] # "new" /\ req'[k] = req[k]
      BY <3>2, <1>1 DEF CallsStand
    <3> QED
      BY <1>1, <2>2, <3>1, <3>2, <3>3 DEF Saved, Did, CallsStand
  <2> QED
    BY <2>1, <2>2
<1>6. ASSUME NEW t \in Sessions, call'[t] # Nil
      PROVE  /\ pc'[call'[t]] # "new" /\ told'[call'[t]] = "nothing"
             /\ \A u \in Sessions : u # t => call'[u] # call'[t]
             /\ call'[t] \in picked' => saved'[t] = req'[call'[t]].home
  <2>1. CASE t = s
    BY <1>1, <1>2, <1>5, <2>1
  <2>2. CASE t # s
    <3>1. call'[t] = call[t] /\ call[t] \in Calls /\ call[t] # r
      BY <1>1, <1>2, <1>6, <2>2 DEF Given
    <3>2. /\ pc[call[t]] # "new" /\ told[call[t]] = "nothing"
          /\ \A u \in Sessions : u # t => call[u] # call[t]
          /\ call[t] \in picked => saved[t] = req[call[t]].home
      BY <1>6, <3>1 DEF SessionsInv
    <3>3. pc'[call[t]] # "new" /\ req'[call[t]] = req[call[t]]
      BY <1>1, <3>1, <3>2 DEF CallsStand
    <3>4. \A u \in Sessions : u # t => call'[u] # call[t]
      BY <1>1, <1>2, <3>1, <3>2
    <3> QED
      BY <1>1, <3>1, <3>2, <3>3, <3>4
  <2> QED
    BY <2>1, <2>2
<1>7. ASSUME NEW t \in Sessions, saved'[t] # Nil
      PROVE  /\ Saved(saved[t])'
             /\ \A u \in Sessions : u # t => saved'[u] # saved'[t]
             /\ \A k \in picked' : told'[k] = "done" => req'[k].home # saved'[t]
  <2>1. ASSUME NEW k \in picked', told'[k] = "done" PROVE req'[k].home # saved'[t]
    <3>1. k \in picked /\ req'[k] = req[k]
      BY <1>1, <1>2, <1>5, <2>1
    <3> QED
      BY <1>1, <1>7, <2>1, <3>1 DEF SessionsInv
  <2> QED
    BY <1>1, <1>4, <1>7, <2>1 DEF SessionsInv
<1>8. \A k \in Calls : told'[k] # "nothing" => pc'[k] # "new"
  BY <1>1 DEF SessionsInv, CallsStand
<1>9. PickedForOne'
  <2>1. ASSUME NEW k \in picked', told'[k] = "done" PROVE k \in picked /\ told[k] = "done" /\ req'[k] = req[k]
    BY <1>1, <1>2, <1>5, <2>1
  <2> QED
    BY <2>1 DEF SessionsInv, PickedForOne
<1>10. call' \in [Sessions -> Given(Calls)] /\ picked' \subseteq Calls
  BY <1>1, <1>2, <1>5 DEF Given
<1> QED
  BY <1>1, <1>5, <1>6, <1>7, <1>8, <1>9, <1>10 DEF SessionsInv

\* A call that failed, or whose answer is lost, leaves what the session keeps.
LEMMA HearFailureStep ==
    ASSUME SessionsInv, NEW s \in Sessions, HearFailure(s)
    PROVE  SessionsInv'
<1>1. /\ UNCHANGED <<vars, picked, dialog, saved>> /\ call[s] # Nil /\ call[s] \in Calls
      /\ call' = [call EXCEPT ![s] = Nil] /\ told' = [told EXCEPT ![call[s]] = "failed"]
      /\ told[call[s]] = "nothing" /\ pc[call[s]] # "new"
  BY DEF HearFailure, Tell, Idle, SessionsInv, Given
<1>2. req' = req /\ pc' = pc /\ aid' = aid
  BY <1>1 DEF vars
<1>3. \A k \in Calls : told'[k] = "done" <=> told[k] = "done"
  BY <1>1 DEF SessionsInv
<1>4. ASSUME NEW a PROVE Saved(a)' <=> Saved(a)
  BY <1>2, <1>3 DEF Saved, Did
<1>5. PickedForOne'
  BY <1>1, <1>2, <1>3 DEF SessionsInv, PickedForOne
<1>6. /\ told' \in [Calls -> {"nothing", "done", "failed"}]
      /\ call' \in [Sessions -> Given(Calls)]
      /\ \A k \in Calls : told'[k] # "nothing" => pc'[k] # "new"
  BY <1>1, <1>2 DEF SessionsInv, Given
<1>7. ASSUME NEW t \in Sessions, call'[t] # Nil
      PROVE  /\ pc'[call'[t]] # "new" /\ told'[call'[t]] = "nothing"
             /\ \A u \in Sessions : u # t => call'[u] # call'[t]
             /\ call'[t] \in picked' => saved'[t] = req'[call'[t]].home
  <2>1. t # s /\ call'[t] = call[t] /\ call[t] # call[s] /\ call[t] \in Calls
    BY <1>1, <1>7 DEF SessionsInv, Given
  <2>2. told'[call[t]] = told[call[t]]
    BY <1>1, <2>1 DEF SessionsInv
  <2> QED
    BY <1>1, <1>2, <1>7, <2>1, <2>2 DEF SessionsInv
<1> QED
  BY <1>1, <1>2, <1>3, <1>4, <1>5, <1>6, <1>7 DEF SessionsInv

\* A saved address is that of a call, so it is not the one of another call that
\* created an address.
LEMMA SavedIsAnother ==
    ASSUME PeopleInv, NEW c \in Calls, Did(c, "create_address"), told[c] # "done",
           NEW a, Saved(a)
    PROVE  a # aid[c]
<1>1. PICK k \in Calls : told[k] = "done" /\ Did(k, "create_address") /\ aid[k] = a
  BY DEF Saved
<1>2. HasAddress(k) /\ HasAddress(c)
  BY <1>1, Facts, RequestType DEF HasAddress, Did
<1> QED
  BY <1>1, <1>2 DEF PeopleInv, AddressIds

LEMMA HearDoneStep ==
    ASSUME PeopleInv, SessionsInv, NEW s \in Sessions, NEW c \in Calls, c = call[s], HearDone(s)
    PROVE  SessionsInv'
<1>1. /\ UNCHANGED <<vars, picked>> /\ pc[c] = "done" /\ told[c] = "nothing" /\ c # Nil
      /\ call' = [call EXCEPT ![s] = Nil] /\ told' = [told EXCEPT ![c] = "done"]
  BY CallsAssumption, NilAssumption DEF HearDone, HearSuccess, Tell, Idle, SessionsInv, Given
<1>2. req' = req /\ pc' = pc /\ aid' = aid
  BY <1>1 DEF vars
<1>3. /\ told'[c] = "done"
      /\ \A k \in Calls \ {c} : told'[k] = told[k]
      /\ told' \in [Calls -> {"nothing", "done", "failed"}]
      /\ call' \in [Sessions -> Given(Calls)]
      /\ \A k \in Calls : told'[k] # "nothing" => pc'[k] # "new"
  BY <1>1, <1>2 DEF SessionsInv, Given
<1>4. ASSUME NEW a, Saved(a) PROVE Saved(a)'
  BY <1>1, <1>2, <1>3, <1>4 DEF Saved, Did
<1>5. ASSUME NEW t \in Sessions, call'[t] # Nil
      PROVE  /\ t # s /\ pc'[call'[t]] # "new" /\ told'[call'[t]] = "nothing"
             /\ \A u \in Sessions : u # t => call'[u] # call'[t]
             /\ call'[t] \in picked => saved[t] = req'[call'[t]].home
  <2>1. t # s /\ call'[t] = call[t] /\ call[t] # c /\ call[t] \in Calls
    BY <1>1, <1>5 DEF SessionsInv, Given
  <2>2. told'[call[t]] = told[call[t]]
    BY <1>3, <2>1
  <2> QED
    BY <1>1, <1>2, <1>5, <2>1, <2>2 DEF SessionsInv
<1>6. c \in picked => saved[s] = req[c].home /\ req[c].home # Nil /\ req[c].op = "create_person"
  BY <1>1 DEF SessionsInv
<1>7. ASSUME NEW k \in picked
      PROVE  /\ pc'[k] # "new" /\ req'[k].op = "create_person" /\ req'[k].home # Nil
             /\ Saved(req[k].home)'
  <2>1. /\ pc[k] # "new" /\ req[k].op = "create_person" /\ req[k].home # Nil
        /\ Saved(req[k].home) /\ k \in Calls
    BY DEF SessionsInv
  <2> QED
    BY <1>1, <1>2, <1>3, <2>1 DEF Saved, Did
<1>8. PickedForOne'
  <2>1. ASSUME NEW k \in picked, k # c, told[k] = "done", c \in picked
        PROVE  req[k].home # req[c].home
    BY <1>6, <2>1 DEF SessionsInv
  <2>2. picked \subseteq Calls /\ picked' = picked
    BY <1>1 DEF SessionsInv
  <2> QED
    BY <1>2, <1>3, <2>1, <2>2 DEF SessionsInv, PickedForOne
<1>9. CASE Saving(s)
  <2>1. /\ dialog' = dialog /\ saved' = [saved EXCEPT ![s] = aid[c]] /\ Did(c, "create_address")
        /\ c \notin picked /\ aid[c] \in Nat
    BY <1>1, <1>6, <1>9, Facts DEF HearDone, HearSuccess, Saving, Did
  <2>2. ASSUME NEW t \in Sessions, saved'[t] # Nil
        PROVE  /\ Saved(saved[t])'
               /\ \A u \in Sessions : u # t => saved'[u] # saved'[t]
               /\ \A k \in picked : told'[k] = "done" => req'[k].home # saved'[t]
    <3>1. \A u \in Sessions \ {s} : saved[u] # Nil => Saved(saved[u]) /\ saved[u] # aid[c]
      BY <1>1, <2>1, SavedIsAnother DEF SessionsInv
    <3>2. aid[c] # Nil
      BY <2>1, NilAssumption
    <3>3. \A u \in Sessions \ {s} : saved'[u] = saved[u] /\ saved[u] # aid[c]
      BY <2>1, <3>1, <3>2 DEF SessionsInv
    <3>4. saved'[s] = aid[c]
      BY <2>1 DEF SessionsInv
    <3>5. ASSUME NEW k \in picked, told'[k] = "done"
          PROVE  told[k] = "done" /\ req[k].home # aid[c]
      <4>1. k \in Calls /\ k # c /\ Saved(req[k].home)
        BY <2>1 DEF SessionsInv
      <4> QED
        BY <1>1, <1>3, <2>1, <3>5, <4>1, SavedIsAnother
    <3>6. CASE t = s
      <4>1. Saved(saved[t])'
        BY <1>2, <1>3, <2>1, <3>4, <3>6 DEF Saved, Did
      <4> QED
        BY <1>2, <3>3, <3>4, <3>5, <3>6, <4>1
    <3>7. CASE t # s
      <4>1. saved'[t] = saved[t] /\ saved[t] # Nil /\ Saved(saved[t])
        BY <2>2, <3>1, <3>3, <3>7
      <4>2. Saved(saved[t])'
        BY <1>1, <1>2, <1>3, <4>1 DEF Saved, Did
      <4>3. \A u \in Sessions : u # t => saved'[u] # saved'[t]
        BY <3>3, <3>4, <3>7, <4>1 DEF SessionsInv
      <4>4. \A k \in picked : told'[k] = "done" => req'[k].home # saved'[t]
        BY <1>2, <3>5, <4>1 DEF SessionsInv
      <4> QED
        BY <4>2, <4>3, <4>4
    <3> QED
      BY <3>6, <3>7
  <2>3. saved' \in [Sessions -> Given(Nat)] /\ \A t \in Sessions \ {s} : saved'[t] = saved[t]
    BY <2>1 DEF SessionsInv, Given
  <2> QED
    BY <1>1, <1>2, <1>3, <1>5, <1>7, <1>8, <2>1, <2>2, <2>3 DEF SessionsInv
<1>10. CASE ~ Saving(s)
  <2>1. /\ dialog' = [dialog EXCEPT ![s] = "none"] /\ saved' = [saved EXCEPT ![s] = Nil]
    BY <1>10 DEF HearDone, HearSuccess
  <2>2. ASSUME NEW t \in Sessions, saved'[t] # Nil
        PROVE  /\ Saved(saved[t])'
               /\ \A u \in Sessions : u # t => saved'[u] # saved'[t]
               /\ \A k \in picked : told'[k] = "done" => req'[k].home # saved'[t]
    <3>1. t # s /\ saved'[t] = saved[t]
      BY <2>1, <2>2 DEF SessionsInv
    <3>2. Saved(saved[t])'
      BY <1>1, <1>2, <1>3, <2>2, <3>1 DEF SessionsInv, Saved, Did
    <3>3. \A u \in Sessions : u # t => saved'[u] # saved'[t]
      BY <2>1, <2>2, <3>1 DEF SessionsInv
    <3>4. ASSUME NEW k \in picked, told'[k] = "done" PROVE req[k].home # saved[t]
      <4>1. CASE k = c
        BY <1>6, <2>2, <3>1, <4>1 DEF SessionsInv
      <4>2. CASE k # c
        <5>1. told[k] = "done"
          BY <1>3, <3>4, <4>2 DEF SessionsInv
        <5> QED
          BY <2>2, <3>1, <5>1 DEF SessionsInv
      <4> QED
        BY <4>1, <4>2
    <3> QED
      BY <1>2, <3>1, <3>2, <3>3, <3>4
  <2>3. /\ saved' \in [Sessions -> Given(Nat)] /\ dialog' \in [Sessions -> {"none", "new_address", "new_person"}]
        /\ \A t \in Sessions \ {s} : saved'[t] = saved[t]
    BY <2>1 DEF SessionsInv, Given
  <2> QED
    BY <1>1, <1>2, <1>3, <1>5, <1>7, <1>8, <2>2, <2>3 DEF SessionsInv
<1> QED
  BY <1>9, <1>10
-----------------------------------------------------------------------------
LEMMA StutterPeople == PeopleInv /\ UNCHANGED vars => PeopleInv'
BY DEF vars, ids, PeopleInv, TypeOK, AddressLocks, PersonLocks, AddressIds, PersonIds, StageOK, EditOK,
       HasAddress, HasPerson, Edits, Inline, AddressStatement, PersonStatement, AddressChange,
       PersonChange, GivenPerson, FieldKept, NameKept, HomeKept, Renamed, Rehoused, Gave, Did

LEMMA InitIInv == Init => IInv
<1>1. Init => SessionsInv
  BY DEF Init, SessionsInv, PickedForOne, Given
<1> QED
  BY <1>1, InitPeopleInv DEF Init, IInv

LEMMA Inductive == IInv /\ [Next]_<<vars, desk>> => IInv'
<1> SUFFICES ASSUME IInv, [Next]_<<vars, desk>> PROVE IInv'
  OBVIOUS
<1> USE DEF IInv
<1>1. ASSUME NEW r \in Calls, Serve(r), UNCHANGED desk PROVE IInv'
  BY <1>1, ServeStep, ServeCallsStand, ServiceSteps
<1>2. ASSUME NEW r \in Calls, OtherClient(r) PROVE IInv'
  <2>1. PICK q \in Request : Receive(r, q)
    BY <1>2, ClientsAssumption DEF OtherClient
  <2> QED
    BY <1>2, <2>1, ReceiveStep, ReceiveCallsStand, ServiceSteps DEF OtherClient
<1>3. ASSUME NEW s \in Sessions, NEW r \in Calls, NEW q \in Request, Make(s, r, q),
             \/ picked' = picked
             \/ picked' = picked \cup {r} /\ saved[s] # Nil /\ q = NewPerson(saved[s])
      PROVE  IInv'
  BY <1>3, ReceiveStep, MakeStep DEF Make
<1>4. ASSUME NEW s \in Sessions, NEW r \in Calls, SaveAddress(s, r) \/ SubmitAddress(s, r)
      PROVE  IInv'
  BY <1>3, <1>4, NewAddressType DEF SaveAddress, SubmitAddress
<1>5. ASSUME NEW s \in Sessions, NEW r \in Calls, SubmitPerson(s, r) PROVE IInv'
  <2>1. CASE saved[s] # Nil /\ Make(s, r, NewPerson(saved[s])) /\ picked' = picked \cup {r}
    <3>1. saved[s] \in Nat
      BY <2>1 DEF SessionsInv, Given
    <3> QED
      BY <1>3, <2>1, <3>1, NewPersonType
  <2>2. CASE picked' = picked /\ \E a \in DOMAIN addresses : Make(s, r, NewPerson(a))
    <3>1. PICK a \in DOMAIN addresses : Make(s, r, NewPerson(a))
      BY <2>2
    <3>2. a \in Nat
      BY DEF PeopleInv, TypeOK, AddressIds
    <3> QED
      BY <1>3, <2>2, <3>1, <3>2, NewPersonType
  <2> QED
    BY <1>5, <2>1, <2>2 DEF SubmitPerson
<1>6. ASSUME NEW s \in Sessions, NEW d \in {"none", "new_address", "new_person"},
             dialog' = [dialog EXCEPT ![s] = d], UNCHANGED <<vars, saved, call, told, picked>>
      PROVE  IInv'
  BY <1>6, PickersStep, StutterPeople
<1>7. ASSUME NEW s \in Sessions, HearDone(s) PROVE IInv'
  <2>1. call[s] \in Calls /\ UNCHANGED vars
    BY <1>7 DEF HearDone, HearSuccess, Tell, Idle, SessionsInv, Given
  <2> QED
    BY <1>7, <2>1, HearDoneStep, StutterPeople
<1>8. ASSUME NEW s \in Sessions, HearFailure(s) PROVE IInv'
  BY <1>8, HearFailureStep, StutterPeople DEF HearFailure, Tell
<1>9. CASE UNCHANGED <<vars, desk>>
  <2>1. CallsStand
    BY <1>9 DEF CallsStand, vars
  <2> QED
    BY <1>9, <2>1, ServiceSteps, StutterPeople
<1>10. ASSUME NEW s \in Sessions, NEW d \in {"new_address", "new_person"}, OpenDialog(s, d) PROVE IInv'
  BY <1>6, <1>10 DEF OpenDialog
<1>11. ASSUME NEW s \in Sessions, Dismiss(s) PROVE IInv'
  BY <1>6, <1>11 DEF Dismiss
<1> QED
  BY <1>1, <1>2, <1>4, <1>5, <1>7, <1>8, <1>9, <1>10, <1>11 DEF Next

LEMMA Invariance == Spec => []IInv
BY InitIInv, Inductive, PTL DEF Spec

\* The variables of the service and of the sessions keep their types.
THEOREM TypeCorrect == Spec => []DeskTypeOK
<1>1. IInv => DeskTypeOK
  BY DEF IInv, PeopleInv, SessionsInv, DeskTypeOK
<1> QED
  BY <1>1, Invariance, PTL

\* What an accepted update of a person or of an address gave stands, unless
\* another accepted request gave that column: update_person and update_address
\* leave out of their UPDATEs only columns that need none.
THEOREM EditsStand == Spec => []EditStands
<1>1. ASSUME IInv, NEW r \in Calls, Did(r, "update_address"), NEW f \in DOMAIN req[r].address
      PROVE  \/ addresses[aid[r]][f] = req[r].address[f]
             \/ \E q \in Calls \ {r} : Gave(q, aid[r], f)
  <2>1. PeopleInv
    BY <1>1 DEF IInv
  <2>2. EditOK(r) /\ pc[r] = "done" /\ Edits(r) /\ wroteAddress[r] = NoFields
    BY <1>1, <2>1, Facts DEF Did, Edits
  <2>3. FieldKept(r, f)
    BY <1>1, <2>2 DEF EditOK
  <2> QED
    BY <2>2, <2>3, NoFieldsShape DEF FieldKept
<1>2. ASSUME IInv, NEW r \in Calls, Did(r, "update_person")
      PROVE  /\ req[r].name # Nil => persons[pid[r]].name = req[r].name \/ Renamed(r)
             /\ req[r].home # Nil => persons[pid[r]].home = req[r].home \/ Rehoused(r)
             /\ Inline(req[r]) => \A f \in DOMAIN req[r].address :
                   \/ addresses[persons[pid[r]].home][f] = req[r].address[f]
                   \/ Rehoused(r)
                   \/ \E q \in Calls \ {r} : Gave(q, persons[pid[r]].home, f)
  <2>1. PeopleInv
    BY <1>2 DEF IInv
  <2>2. /\ EditOK(r) /\ pc[r] = "done" /\ (Inline(req[r]) => Edits(r))
        /\ wroteAddress[r] = NoFields /\ wrotePerson[r] = NoFields
    BY <1>2, <2>1, Facts DEF Did, Edits
  <2>3. /\ req[r].name # Nil => NameKept(r)
        /\ req[r].home # Nil => HomeKept(r)
        /\ Inline(req[r]) => /\ persons[pid[r]].home = aid[r] \/ Rehoused(r)
                             /\ \A f \in DOMAIN req[r].address : FieldKept(r, f)
    BY <1>2, <2>2 DEF EditOK, Did
  <2> QED
    BY <2>2, <2>3, NoFieldsShape DEF NameKept, HomeKept, FieldKept
<1>3. IInv => EditStands
  <2> SUFFICES ASSUME IInv, NEW r \in Calls, Did(r, "update_person")
               PROVE  LET home   == persons[pid[r]].home
                          others == {q \in Calls \ {r} : Did(q, "update_person") /\ pid[q] = pid[r]}
                      IN  /\ req[r].name # Nil =>
                                \/ persons[pid[r]].name = req[r].name
                                \/ \E q \in others : req[q].name # Nil
                          /\ req[r].home # Nil =>
                                home = req[r].home \/ \E q \in others : req[q].home # Nil
                          /\ Inline(req[r]) => \A f \in DOMAIN req[r].address :
                                \/ addresses[home][f] = req[r].address[f]
                                \/ \E q \in others : req[q].home # Nil
                                \/ \E q \in Calls \ {r} : Gave(q, home, f)
    BY <1>1 DEF EditStands
  <2> QED
    BY <1>2 DEF Renamed, Rehoused
<1> QED
  BY <1>3, Invariance, PTL

\* Two persons whose creation a user was told of never share an address that the
\* picker of New Person kept, for any sessions, and calls that fail or are lost:
\* _done clears the pickers.  After a failure, or a dialog dismissed, the address
\* may go to another person than it was saved for.
THEOREM AddressesServeOnePerson == Spec => []PickedForOne
<1>1. IInv => PickedForOne
  BY DEF IInv, SessionsInv
<1> QED
  BY <1>1, Invariance, PTL
-----------------------------------------------------------------------------
\* The address that k created is on file as k gave it, save for accepted edits.
CreatedStands(k) ==
    Did(k, "create_address") =>
        /\ aid[k] \in DOMAIN addresses
        /\ \A f \in {"street", "city"} :
              \/ addresses[aid[k]][f] = req[k].address[f]
              \/ \E q \in Calls : req[q].op # "create_address" /\ Gave(q, aid[k], f)

\* Sessions create only the address that the user typed, and no person of theirs
\* is refused for the address kept.
PickInv ==
    /\ \A k \in Calls : CreatedStands(k)
    /\ \A s \in Sessions :
          call[s] # Nil /\ req[call[s]].op = "create_address" => req[call[s]] = NewAddress
    /\ \A k \in Calls : told[k] = "done" /\ req[k].op = "create_address" => req[k] = NewAddress
    /\ \A r \in picked : pc[r] # "not_found"

LEMMA InitPickInv == Init => PickInv
<1> QED
  BY DEF Init, PeopleInit, PickInv, CreatedStands, Did

\* Only a commit changes a row: that of the address's own creation, or of an edit.
LEMMA CreatedKept ==
    ASSUME PeopleInv, NEW r \in Calls, Serve(r), \A k \in Calls : CreatedStands(k)
    PROVE  \A k \in Calls : CreatedStands(k)'
<1>1. CallsStand /\ req' = req
  BY ServeCallsStand DEF Serve, FindPerson, FindAddress, InsertAddress, WriteAddress, InsertPerson,
     WritePerson, Commit, Crash, Fail
<1>2. \A q \in Calls : \A a, f : Gave(q, a, f) => Gave(q, a, f)'
  BY <1>1 DEF Gave, CallsStand, Inline
<1>3. CASE ~ Commit(r)
  <2>1. addresses' = addresses /\ \A k \in Calls : pc'[k] = "done" => pc[k] = "done"
    BY <1>3 DEF Serve, FindPerson, FindAddress, InsertAddress, WriteAddress, InsertPerson,
       WritePerson, Crash, Fail, Goto, PeopleInv, TypeOK
  <2> QED
    BY <1>1, <1>2, <2>1 DEF CreatedStands, Did, CallsStand
<1>4. CASE Commit(r)
  <2>1. /\ pc' = [pc EXCEPT ![r] = "done"] /\ pc[r] = "commit" /\ UNCHANGED <<req, aid>>
        /\ r \in DOMAIN pc /\ req[r] \in Request
    BY <1>4, Facts DEF Commit, Goto
  <2>2. ASSUME NEW k \in Calls, k # r, Did(k, "create_address"), NEW f \in {"street", "city"}
        PROVE  /\ aid[k] \in DOMAIN addresses'
               /\ \/ addresses'[aid[k]][f] = req[k].address[f]
                  \/ \E q \in Calls : req[q].op # "create_address" /\ Gave(q, aid[k], f)'
    <3>1. /\ aid[k] \in DOMAIN addresses /\ aid[k] \in DOMAIN addresses'
          /\ \/ addresses[aid[k]][f] = req[k].address[f]
             \/ \E q \in Calls : req[q].op # "create_address" /\ Gave(q, aid[k], f)
      BY <1>4, <2>2, CommitAddresses DEF CreatedStands
    <3>2. CASE aid[r] = aid[k] /\ f \in DOMAIN wroteAddress[r]
      <4>1. Gave(r, aid[k], f)'
        BY <2>1, <3>2, WroteAddress DEF Gave, Inline
      <4>2. HasAddress(k)
        BY <2>2, Facts, RequestType DEF HasAddress, Did
      <4>3. req[r].op # "create_address"
        BY <2>1, <2>2, <3>2, <4>2, WroteAddress DEF HasAddress, PeopleInv, AddressIds
      <4> QED
        BY <3>1, <4>1, <4>3
    <3>3. CASE ~ (aid[r] = aid[k] /\ f \in DOMAIN wroteAddress[r])
      <4>1. addresses'[aid[k]][f] = addresses[aid[k]][f]
        <5>1. CASE aid[r] # aid[k]
          BY <1>4, <3>1, <5>1, CommitAddresses
        <5>2. CASE aid[r] = aid[k] /\ f \notin DOMAIN wroteAddress[r]
          BY <1>4, <3>1, <5>2, CommitAddresses
        <5> QED
          BY <3>3, <5>1, <5>2
      <4> QED
        BY <1>2, <2>1, <3>1, <4>1
    <3> QED
      BY <3>2, <3>3
  <2>3. ASSUME Did(r, "create_address")'
        PROVE  /\ aid[r] \in DOMAIN addresses'
               /\ \A f \in {"street", "city"} : addresses'[aid[r]][f] = req[r].address[f]
    <3>1. Inline(req[r]) /\ ~ Edits(r) /\ req[r].address \in Address
      BY <2>1, <2>3, RequestType DEF Did, Edits
    <3>2. wroteAddress[r] = req[r].address
      BY <2>1, <3>1, Facts DEF StageOK, AddressStatement
    <3> QED
      BY <1>4, <3>1, <3>2, CommitAddresses DEF Address
  <2>4. \A k \in Calls : k # r => (Did(k, "create_address")' <=> Did(k, "create_address"))
    BY <2>1 DEF Did
  <2> QED
    BY <2>1, <2>2, <2>3, <2>4 DEF CreatedStands
<1> QED
  BY <1>3, <1>4

\* The address that a picker kept is found.
LEMMA PickedFound ==
    ASSUME IInv, PickInv, NEW r \in Calls, Serve(r), NEW k \in picked
    PROVE  pc'[k] # "not_found"
<1>1. /\ k \in Calls /\ pc[k] # "not_found" /\ req[k].op = "create_person" /\ req[k].home # Nil
      /\ pc[k] # "new" /\ Saved(req[k].home)
  BY DEF IInv, SessionsInv, PickInv
<1>2. req[k].home \in DOMAIN addresses
  BY <1>1 DEF PickInv, CreatedStands, Saved
<1>3. CASE k # r
  BY <1>1, <1>3 DEF Serve, FindPerson, FindAddress, InsertAddress, WriteAddress, InsertPerson,
     WritePerson, Commit, Crash, Fail, Goto, IInv, PeopleInv, TypeOK
<1>4. CASE k = r
  <2>1. ~ FindPerson(r) /\ aid[r] = req[r].home
    BY <1>1, <1>4, Facts DEF IInv, StageOK, FindPerson
  <2> QED
    BY <1>1, <1>2, <1>4, <2>1 DEF Serve, FindAddress, InsertAddress, WriteAddress, InsertPerson,
       WritePerson, Commit, Crash, Fail, Goto, IInv, PeopleInv, TypeOK
<1> QED
  BY <1>3, <1>4

\* A call of the sessions or of another client changes no row.
LEMMA ReceiveKeepsPicks ==
    ASSUME PeopleInv, NEW r \in Calls, NEW q \in Request, Receive(r, q),
           \A k \in Calls : CreatedStands(k)
    PROVE  (\A k \in Calls : CreatedStands(k)') /\ pc'[r] # "not_found"
<1>1. /\ CallsStand /\ addresses' = addresses /\ pc[r] = "new" /\ pc'[r] \notin {"done", "not_found"}
      /\ \A k \in Calls \ {r} : pc'[k] = pc[k] /\ req'[k] = req[k] /\ aid'[k] = aid[k]
  BY ReceiveCallsStand, RequestType DEF Receive, Goto, PeopleInv, TypeOK
<1>2. \A k \in Calls : \A a, f : Gave(k, a, f) /\ k # r => Gave(k, a, f)'
  BY <1>1 DEF Gave, Inline
<1>3. \A a, f : ~ Gave(r, a, f)
  BY <1>1 DEF Gave
<1> QED
  BY <1>1, <1>2, <1>3 DEF CreatedStands, Did

LEMMA PickInductive == IInv /\ PickInv /\ [Next]_<<vars, desk>> => PickInv'
<1> SUFFICES ASSUME IInv, PickInv, [Next]_<<vars, desk>> PROVE PickInv'
  OBVIOUS
<1>1. /\ \A s \in Sessions : call[s] # Nil => call[s] \in Calls /\ pc[call[s]] # "new"
      /\ \A k \in Calls : told[k] # "nothing" => pc[k] # "new"
      /\ picked \subseteq Calls /\ PeopleInv
  BY DEF IInv, SessionsInv, Given
<1>2. ASSUME NEW r \in Calls, Serve(r), UNCHANGED desk PROVE PickInv'
  <2>1. CallsStand /\ UNCHANGED <<call, told, picked>>
    BY <1>1, <1>2, ServeCallsStand DEF desk
  <2>2. \A k \in picked' : pc'[k] # "not_found"
    BY <1>2, <2>1, PickedFound
  <2>3. \A k \in Calls : CreatedStands(k)'
    BY <1>1, <1>2, CreatedKept DEF PickInv
  <2> QED
    BY <1>1, <2>1, <2>2, <2>3 DEF PickInv, CallsStand, NewAddress
<1>3. ASSUME NEW r \in Calls, NEW q \in Request, Receive(r, q), UNCHANGED told,
             picked' \subseteq picked \cup {r},
             \/ UNCHANGED call
             \/ /\ \E s \in Sessions : call' = [call EXCEPT ![s] = r]
                /\ q.op = "create_address" => q = NewAddress
      PROVE  PickInv'
  <2>1. /\ CallsStand /\ pc[r] = "new" /\ req'[r] = q
        /\ \A k \in Calls \ {r} : pc'[k] = pc[k]
    BY <1>1, <1>3, ReceiveCallsStand DEF Receive, Goto, PeopleInv, TypeOK
  <2>2. (\A k \in Calls : CreatedStands(k)') /\ pc'[r] # "not_found"
    BY <1>1, <1>3, ReceiveKeepsPicks DEF PickInv
  <2>3. \A k \in picked' : pc'[k] # "not_found"
    BY <1>1, <1>3, <2>1, <2>2 DEF PickInv
  <2>4. \A k \in Calls : told'[k] = "done" /\ req'[k].op = "create_address" => req'[k] = NewAddress
    BY <1>1, <1>3, <2>1 DEF PickInv, CallsStand
  <2>5. ASSUME NEW s \in Sessions, call'[s] # Nil, req'[call'[s]].op = "create_address"
        PROVE  req'[call'[s]] = NewAddress
    <3>1. CASE call'[s] = call[s]
      <4>1. req'[call[s]] = req[call[s]]
        BY <1>1, <2>1, <2>5, <3>1 DEF CallsStand
      <4> QED
        BY <2>5, <3>1, <4>1 DEF PickInv
    <3>2. CASE call'[s] # call[s]
      <4>1. call'[s] = r /\ (q.op = "create_address" => q = NewAddress)
        BY <1>3, <3>2 DEF IInv, SessionsInv
      <4> QED
        BY <2>1, <2>5, <4>1
    <3> QED
      BY <3>1, <3>2
  <2> QED
    BY <2>2, <2>3, <2>4, <2>5 DEF PickInv, NewAddress
<1>4. ASSUME NEW r \in Calls, OtherClient(r) PROVE PickInv'
  <2>1. PICK q \in Request : Receive(r, q)
    BY <1>4, ClientsAssumption DEF OtherClient
  <2> QED
    BY <1>3, <1>4, <2>1 DEF OtherClient, desk
<1>5. ASSUME NEW s \in Sessions, NEW r \in Calls, SaveAddress(s, r) \/ SubmitAddress(s, r)
      PROVE  PickInv'
  BY <1>3, <1>5, NewAddressType DEF SaveAddress, SubmitAddress, Make
<1>6. ASSUME NEW s \in Sessions, NEW r \in Calls, SubmitPerson(s, r) PROVE PickInv'
  <2>1. PICK a \in Nat : Make(s, r, NewPerson(a)) /\ picked' \subseteq picked \cup {r}
    <3>1. (saved[s] # Nil => saved[s] \in Nat) /\ DOMAIN addresses \subseteq Nat
      BY DEF IInv, SessionsInv, Given, PeopleInv, TypeOK, AddressIds
    <3> QED
      BY <1>6, <3>1 DEF SubmitPerson
  <2> QED
    BY <1>3, <2>1, NewPersonType DEF Make
<1>7. ASSUME NEW s \in Sessions, NEW how \in {"done", "failed"}, ~ Idle(s), Tell(s, how)
      PROVE  PickInv'
  <2>1. /\ UNCHANGED <<addresses, pc, req, aid, picked>>
        /\ call[s] \in Calls /\ call' = [call EXCEPT ![s] = Nil]
        /\ told' = [told EXCEPT ![call[s]] = how]
        /\ call \in [Sessions -> Given(Calls)] /\ told \in [Calls -> {"nothing", "done", "failed"}]
    BY <1>1, <1>7 DEF Tell, Idle, vars, IInv, SessionsInv
  <2>2. \A k \in Calls : CreatedStands(k)'
    BY <2>1 DEF PickInv, CreatedStands, Did, Gave, Inline
  <2>3. \A t \in Sessions : call'[t] # Nil => call'[t] = call[t]
    BY <2>1
  <2>4. \A k \in Calls : told'[k] = "done" => told[k] = "done" \/ k = call[s]
    BY <2>1
  <2> QED
    BY <1>7, <2>1, <2>2, <2>3, <2>4 DEF PickInv, Idle, NewAddress
<1>8. CASE UNCHANGED <<vars, call, told, picked>>
  BY <1>8 DEF vars, PickInv, CreatedStands, Did, Gave, Inline, NewAddress
<1>9. ASSUME NEW s \in Sessions,
             \/ OpenDialog(s, "new_address") \/ OpenDialog(s, "new_person")
             \/ Dismiss(s) \/ HearDone(s) \/ HearFailure(s)
      PROVE  PickInv'
  BY <1>7, <1>8, <1>9 DEF OpenDialog, Dismiss, HearDone, HearSuccess, HearFailure
<1>10. CASE UNCHANGED <<vars, desk>>
  BY <1>8, <1>10 DEF desk
<1> QED
  BY <1>2, <1>4, <1>5, <1>6, <1>9, <1>10 DEF Next

\* An address that a picker keeps is on file as saved, save for accepted edits,
\* and no person is refused for it, for any sessions and other clients: the
\* service commits before it answers, and deletes no address.
THEOREM KeptAddressesAreSaved == Spec => []PickedIsSaved
<1>1. IInv /\ PickInv => PickedIsSaved
  <2> SUFFICES ASSUME IInv, PickInv, NEW r \in picked
               PROVE  /\ pc[r] # "not_found"
                      /\ req[r].home \in DOMAIN addresses
                      /\ \A f \in DOMAIN SomeAddress :
                            \/ addresses[req[r].home][f] = SomeAddress[f]
                            \/ \E q \in Calls : req[q].op # "create_address" /\ Gave(q, req[r].home, f)
    BY DEF PickedIsSaved
  <2>1. Saved(req[r].home)
    BY DEF IInv, SessionsInv
  <2>2. PICK k \in Calls : told[k] = "done" /\ Did(k, "create_address") /\ aid[k] = req[r].home
    BY <2>1 DEF Saved
  <2>3. req[k] = NewAddress /\ CreatedStands(k)
    BY <2>2 DEF PickInv, Did
  <2>4. req[k].address = SomeAddress /\ DOMAIN SomeAddress = {"street", "city"}
    BY <2>3, ClientsAssumption DEF NewAddress, Address
  <2> QED
    BY <2>2, <2>3, <2>4 DEF PickInv, CreatedStands
<1> QED
  BY <1>1, InitPickInv, PickInductive, Invariance, PTL DEF Spec
==============================================================================
