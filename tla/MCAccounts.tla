----------------------------- MODULE MCAccounts -----------------------------
(***************************************************************************)
(* Accounts on a small instance: one user is on file, another name and     *)
(* email address are free.                                                 *)
(***************************************************************************)
EXTENDS Accounts, TLC

CONSTANTS ann, bob, a1, b1, p, q

MCSeedUsers == << [name |-> ann, email |-> a1, password |-> p] >>

RequestSymmetry == Permutations(Requests)
=============================================================================
