----------------------------- MODULE MCCaseFile -----------------------------
(***************************************************************************)
(* CaseFile on a small instance: case 1 is on file, open, without an end   *)
(* date; case 2 is the one the first request to open a case would get.     *)
(***************************************************************************)
EXTENDS CaseFile, TLC

CONSTANTS o1, o2, x, \* two officers, and an id that names no person
          d1         \* a date

MCSeedCases == << [status |-> "open", end |-> Nil, reporter |-> Nil] >>
MCSeedAssigned == { <<1, o1>> }

MCPatches == { "reporter" :> o1, "reporter" :> x, "status" :> "on_hold",
               "status" :> "closed", "status" :> "closed" @@ "end" :> Nil }

RequestSymmetry == Permutations(Requests)
=============================================================================
