---------------------------- MODULE MCTrialDocket ----------------------------
(***************************************************************************)
(* TrialDocket on a small instance: two cases, one of them with a trial    *)
(* that has no hearing yet, and a case id and a person id that name        *)
(* nothing.                                                                *)
(***************************************************************************)
EXTENDS TrialDocket, TLC

CONSTANTS c1, c2, cX,   \* two cases, and an id that names none
          p1, pX,       \* a person, and an id that names none
          d1, d2,       \* two hearing dates
          k1            \* a court level

MCSeedTrials ==
    c1 :> << >> @@ c2 :> << [hearing |-> Nil, judge |-> Nil, court |-> Nil] >>

OneSeed == c2 :> << [hearing |-> Nil, judge |-> Nil, court |-> Nil] >>

MCTrialIds == {1}

RequestSymmetry == Permutations(Requests)
=============================================================================
