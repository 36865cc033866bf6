------------------------------- MODULE MCDesk -------------------------------
(***************************************************************************)
(* Desk on a small instance: two persons share address 1, address 2 is     *)
(* empty; another client edits and moves the first person, edits address 1 *)
(* and creates a person with an address.                                   *)
(***************************************************************************)
EXTENDS Desk

CONSTANTS ann, bob, mill, dock, york, hull

MCSeedAddresses == << [street |-> mill, city |-> york], [street |-> Nil, city |-> york] >>
MCSeedPersons == << [name |-> ann, home |-> 1], [name |-> bob, home |-> 1] >>
MCAddress == [street |-> dock, city |-> hull]

Ask(op, id, name, home, address) ==
    [op |-> op, id |-> id, name |-> name, home |-> home, address |-> address]

MCOtherClients ==
    { Ask("update_person", 1, Nil, Nil, [city |-> hull]),
      Ask("update_person", 2, bob, Nil, [street |-> dock]),
      Ask("update_person", 1, bob, 2, Nil),
      Ask("update_person", 1, bob, Nil, Nil),
      Ask("update_person", 1, Nil, 9, Nil),
      Ask("update_address", 1, Nil, Nil, [street |-> Nil]),
      Ask("update_address", 1, Nil, Nil, [city |-> york]),
      Ask("update_address", 9, Nil, Nil, [city |-> york]),
      Ask("create_person", 0, ann, Nil, MCAddress) }
=============================================================================
