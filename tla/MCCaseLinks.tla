----------------------------- MODULE MCCaseLinks -----------------------------
(***************************************************************************)
(* CaseLinks on a small instance: a case with two pieces of evidence, a    *)
(* suspect who is involved in it, and a witness who testifies in it.       *)
(***************************************************************************)
EXTENDS CaseLinks, TLC

CONSTANTS c1, cX,   \* the case, and an id that names none
          a, b, x,  \* a suspect and witness, a bystander, and an unknown id
          e1, e2,   \* two pieces of evidence
          t1, t2    \* texts

MCSeedRows ==
    CaseRow(c1) :> Nil @@ Person(a) :> Nil @@ Person(b) :> Nil
    @@ Suspect(a) :> Nil @@ InvolvedIn(c1, a) :> Nil @@ Suspect(b) :> Nil
    @@ Witness(a) :> t1 @@ TestifiesIn(c1, a) :> t1
    @@ CollectedFor(e1, c1) :> Nil @@ CollectedFor(e2, c1) :> Nil

MCEvidenceIds == {e1, e2} \cup Requests

\* Evidence on file, in both orders, and evidence another request brings in.
MCEvidenceLists == { <<e1, e2>>, <<e2, e1>> } \cup { <<r>> : r \in Requests }

MCSuspectLists == { <<a, b>>, <<b, a>>, <<x>> }

RequestSymmetry == Permutations(Requests)
=============================================================================
