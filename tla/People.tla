------------------------------- MODULE People -------------------------------
(***************************************************************************)
(* Persons and addresses: the endpoints that create and update them.       *)
(*                                                                         *)
(* An address is a row of its own that several persons share; updating the *)
(* address of a person edits that row in place, for all who live there.  A *)
(* handler reads rows without a lock and sends UPDATEs of the columns that *)
(* differ from what it read; the middleware commits.  PostgreSQL is at     *)
(* READ COMMITTED: an UPDATE waits for the row lock.  Every step below is  *)
(* one statement, or the commit.                                           *)
(***************************************************************************)
EXTENDS Integers, Sequences

CONSTANTS Calls,          \* the calls that may reach the service
          Names,          \* what a person is called: all columns but the address
          Streets, Cities,\* the optional and the required columns of an address
          SeedAddresses,  \* the addresses on file at the start, from id 1
          SeedPersons,    \* and the persons who live there
          Nil             \* NULL, or a field that is not given

-----------------------------------------------------------------------------
Given(S) == S \cup {Nil}

Address == [street : Given(Streets), city : Cities]
Person  == [name : Names, home : Nat]

ASSUME SeedAssumption ==
    /\ SeedAddresses \in Seq(Address)
    /\ SeedPersons \in Seq(Person)
    /\ \A p \in DOMAIN SeedPersons : SeedPersons[p].home \in DOMAIN SeedAddresses

\* Some columns of an address or of a person, as a payload or a statement has them.
NoFields == [f \in {} |-> Nil]
AddressFields ==
    {NoFields} \cup [{"street"} -> Given(Streets)] \cup [{"city"} -> Cities] \cup Address
PersonFields ==
    {NoFields} \cup [{"name"} -> Names] \cup [{"home"} -> Nat] \cup Person

ASSUME NilAssumption == Nil \notin Names \cup Nat \cup AddressFields

\* What the validators let through: a payload names an address by its id (home)
\* or gives one, whole where a row is inserted; a new person has either.
Request ==
    {q \in [op : {"create_address", "update_address", "create_person", "update_person"},
            id : Nat, name : Given(Names), home : Given(Nat), address : Given(AddressFields)] :
        /\ q.home = Nil \/ q.address = Nil
        /\ q.op \in {"create_address", "create_person"} => q.address \in Given(Address)
        /\ q.op \in {"create_address", "update_address"} => q.address # Nil
        /\ q.op = "create_person" => q.name # Nil /\ (q.home # Nil \/ q.address # Nil)}

NoRequest == [op |-> "none"]

VARIABLES addresses, persons,       \* the committed rows, by id
          nextAddress, nextPerson,  \* identity columns, which no rollback resets
          req, pc,                  \* each call and how far it has got
          aid, pid,                 \* the address and the person it is about
          seen,                     \* the rows it read
          wroteAddress, wrotePerson \* the columns it wrote, uncommitted

ids  == <<nextAddress, nextPerson>>
vars == <<addresses, persons, ids, req, pc, aid, pid, seen, wroteAddress, wrotePerson>>

Working  == {"find_person", "find_address", "insert_address", "write_address",
             "write_person", "commit"}
Outcomes == {"done", "not_found", "lost"}

NullAddress == [street |-> Nil, city |-> Nil]
NullPerson  == [name |-> Nil, home |-> Nil]

TypeOK ==
    /\ DOMAIN addresses \subseteq 1 .. nextAddress - 1
    /\ \A a \in DOMAIN addresses : addresses[a] \in Address
    /\ DOMAIN persons \subseteq 1 .. nextPerson - 1
    /\ \A p \in DOMAIN persons : persons[p] \in Person /\ persons[p].home \in DOMAIN addresses
    /\ req \in [Calls -> Request \cup {NoRequest}]
    /\ pc \in [Calls -> {"new"} \cup Working \cup Outcomes]
    /\ aid \in [Calls -> Nat] /\ pid \in [Calls -> Nat]
    /\ seen \in [Calls -> [address : Address \cup {NullAddress}, person : Person \cup {NullPerson}]]
    /\ wroteAddress \in [Calls -> AddressFields]
    /\ wrotePerson \in [Calls -> PersonFields]

PeopleInit ==
    /\ addresses = SeedAddresses /\ persons = SeedPersons
    /\ nextAddress = 1 + Len(SeedAddresses) /\ nextPerson = 1 + Len(SeedPersons)
    /\ req = [r \in Calls |-> NoRequest]
    /\ pc = [r \in Calls |-> "new"]
    /\ aid = [r \in Calls |-> 0] /\ pid = [r \in Calls |-> 0]
    /\ seen = [r \in Calls |-> [address |-> NullAddress, person |-> NullPerson]]
    /\ wroteAddress = [r \in Calls |-> NoFields]
    /\ wrotePerson = [r \in Calls |-> NoFields]
-----------------------------------------------------------------------------
Goto(r, stage) == pc' = [pc EXCEPT ![r] = stage]

\* The row with the columns of w set.
Set(row, w) == [f \in DOMAIN row |-> IF f \in DOMAIN w THEN w[f] ELSE row[f]]

\* The table with the columns of w written to one row, which may be new.
Write(table, i, w, null) ==
    IF w = NoFields THEN table
    ELSE [j \in DOMAIN table \cup {i} |->
            IF j # i THEN table[j] ELSE Set(IF i \in DOMAIN table THEN table[i] ELSE null, w)]

OnlyMoves(r, stage) ==
    /\ Goto(r, stage)
    /\ UNCHANGED <<addresses, persons, ids, req, aid, pid, seen, wroteAddress, wrotePerson>>

\* The transaction of r ends without a commit.
Fail(r, outcome) ==
    /\ Goto(r, outcome)
    /\ wroteAddress' = [wroteAddress EXCEPT ![r] = NoFields]
    /\ wrotePerson' = [wrotePerson EXCEPT ![r] = NoFields]
    /\ UNCHANGED <<addresses, persons, ids, req, aid, pid, seen>>

\* A payload that gives an address but names none.
Inline(q) == q.address # Nil
-----------------------------------------------------------------------------
\* The call q arrives in slot r; its handler starts with a look or an INSERT.
Receive(r, q) ==
    /\ pc[r] = "new"
    /\ req' = [req EXCEPT ![r] = q]
    /\ aid' = [aid EXCEPT ![r] = IF q.op = "update_address" THEN q.id
                                 ELSE IF q.home = Nil THEN 0 ELSE q.home]
    /\ pid' = [pid EXCEPT ![r] = IF q.op = "update_person" THEN q.id ELSE 0]
    /\ Goto(r, CASE q.op = "update_person" -> "find_person"
                 [] q.op = "update_address" -> "find_address"
                 [] q.op \in {"create_address", "create_person"} ->
                      IF Inline(q) THEN "insert_address" ELSE "find_address")
    /\ UNCHANGED <<addresses, persons, ids, seen, wroteAddress, wrotePerson>>

\* update_person loads the person with the address joined.
FindPerson(r) ==
    /\ pc[r] = "find_person"
    /\ IF pid[r] \notin DOMAIN persons THEN Fail(r, "not_found")
       ELSE LET home == persons[pid[r]].home IN
            /\ aid' = [aid EXCEPT ![r] = IF req[r].home = Nil THEN home ELSE @]
            /\ seen' = [seen EXCEPT ![r] = [address |-> addresses[home], person |-> persons[pid[r]]]]
            /\ Goto(r, CASE Inline(req[r])     -> "write_address"
                         [] req[r].home # Nil  -> "find_address"
                         [] OTHER              -> "write_person")
            /\ UNCHANGED <<addresses, persons, ids, req, pid, wroteAddress, wrotePerson>>

\* Mutant: a missing address is no error.
FindAddressOrNot(r) ==
    /\ pc[r] = "find_address"
    /\ seen' = [seen EXCEPT ![r].address = IF aid[r] \in DOMAIN addresses THEN addresses[aid[r]] ELSE @]
    /\ Goto(r, IF req[r].op = "update_address" THEN "write_address" ELSE "write_person")
    /\ UNCHANGED <<addresses, persons, ids, req, aid, pid, wroteAddress, wrotePerson>>

\* db.get of the address the payload or the path names.
FindAddress(r) ==
    /\ pc[r] = "find_address"
    /\ IF aid[r] \notin DOMAIN addresses THEN Fail(r, "not_found")
       ELSE /\ seen' = [seen EXCEPT ![r].address = addresses[aid[r]]]
            /\ Goto(r, IF req[r].op = "update_address" THEN "write_address" ELSE "write_person")
            /\ UNCHANGED <<addresses, persons, ids, req, aid, pid, wroteAddress, wrotePerson>>

\* create_address, which takes an id at once.
InsertAddress(r) ==
    /\ pc[r] = "insert_address"
    /\ aid' = [aid EXCEPT ![r] = nextAddress]
    /\ nextAddress' = nextAddress + 1
    /\ wroteAddress' = [wroteAddress EXCEPT ![r] = req[r].address]
    /\ Goto(r, IF req[r].op = "create_person" THEN "write_person" ELSE "commit")
    /\ UNCHANGED <<addresses, persons, nextPerson, req, pid, seen, wrotePerson>>

\* Mutant: an UPDATE carries every column of the row the session holds.
DifferingWhole(row, w) == Set(row, w)

\* The columns an UPDATE carries: those set to something else than was read.
Differing(row, w) == [f \in {g \in DOMAIN w : w[g] # row[g]} |-> w[f]]

AddressChange(r) == Differing(seen[r].address, req[r].address)

\* The UPDATE of the address row, for update_address or update_person; the unit
\* of work sends it before the person's.
WriteAddress(r) ==
    /\ pc[r] = "write_address"
    /\ AddressChange(r) # NoFields =>
          \A q \in Calls \ {r} : wroteAddress[q] # NoFields => aid[q] # aid[r]
    /\ wroteAddress' = [wroteAddress EXCEPT ![r] = AddressChange(r)]
    /\ Goto(r, IF req[r].op = "update_person" THEN "write_person" ELSE "commit")
    /\ UNCHANGED <<addresses, persons, ids, req, aid, pid, seen, wrotePerson>>

\* The columns of a person that the payload sets.
GivenPerson(r) == [f \in {g \in {"name", "home"} : req[r][g] # Nil} |-> req[r][f]]

PersonChange(r) == Differing(seen[r].person, GivenPerson(r))

\* The INSERT of create_person.
InsertPerson(r) ==
    /\ pc[r] = "write_person"
    /\ req[r].op = "create_person"
    /\ pid' = [pid EXCEPT ![r] = nextPerson]
    /\ nextPerson' = nextPerson + 1
    /\ wrotePerson' = [wrotePerson EXCEPT ![r] = [name |-> req[r].name, home |-> aid[r]]]
    /\ Goto(r, "commit")
    /\ UNCHANGED <<addresses, persons, nextAddress, req, aid, seen, wroteAddress>>

\* The UPDATE of update_person.
WritePerson(r) ==
    /\ pc[r] = "write_person"
    /\ req[r].op = "update_person"
    /\ PersonChange(r) # NoFields =>
          \A q \in Calls \ {r} : wrotePerson[q] # NoFields => pid[q] # pid[r]
    /\ wrotePerson' = [wrotePerson EXCEPT ![r] = PersonChange(r)]
    /\ Goto(r, "commit")
    /\ UNCHANGED <<addresses, persons, ids, req, aid, pid, seen, wroteAddress>>

\* _finish_db with commit.
Commit(r) ==
    /\ pc[r] = "commit"
    /\ Goto(r, "done")
    /\ addresses' = Write(addresses, aid[r], wroteAddress[r], NullAddress)
    /\ persons' = Write(persons, pid[r], wrotePerson[r], NullPerson)
    /\ wroteAddress' = [wroteAddress EXCEPT ![r] = NoFields]
    /\ wrotePerson' = [wrotePerson EXCEPT ![r] = NoFields]
    /\ UNCHANGED <<ids, req, aid, pid, seen>>

\* The task that serves r dies and PostgreSQL rolls its transaction back.
Crash(r) == pc[r] \in Working /\ Fail(r, "lost")

Serve(r) ==
    \/ FindPerson(r)   \/ FindAddress(r) \/ InsertAddress(r)
    \/ WriteAddress(r) \/ InsertPerson(r) \/ WritePerson(r)
    \/ Commit(r)       \/ Crash(r)
-----------------------------------------------------------------------------
Did(r, op) == pc[r] = "done" /\ req[r].op = op

\* r was carried out and gave column f of address a.
Gave(r, a, f) ==
    pc[r] = "done" /\ Inline(req[r]) /\ aid[r] = a /\ f \in DOMAIN req[r].address

\* What an accepted update gave stands, unless another accepted update of the
\* same person or address gave that column too: neither an update computed from
\* older rows, nor a move that overlaps an edit of the home, takes it back.  The
\* address given for a person is that of the person's home, wherever it now is.
EditStands ==
    \A r \in Calls :
        /\ Did(r, "update_address") => \A f \in DOMAIN req[r].address :
              \/ addresses[aid[r]][f] = req[r].address[f]
              \/ \E q \in Calls \ {r} : Gave(q, aid[r], f)
        /\ Did(r, "update_person") =>
              LET home     == persons[pid[r]].home
                  others   == {q \in Calls \ {r} : Did(q, "update_person") /\ pid[q] = pid[r]}
              IN  /\ req[r].name # Nil =>
                        \/ persons[pid[r]].name = req[r].name
                        \/ \E q \in others : req[q].name # Nil
                  /\ req[r].home # Nil =>
                        home = req[r].home \/ \E q \in others : req[q].home # Nil
                  /\ Inline(req[r]) => \A f \in DOMAIN req[r].address :
                        \/ addresses[home][f] = req[r].address[f]
                        \/ \E q \in others : req[q].home # Nil
                        \/ \E q \in Calls \ {r} : Gave(q, home, f)
=============================================================================
