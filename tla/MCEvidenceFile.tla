--------------------------- MODULE MCEvidenceFile ---------------------------
(***************************************************************************)
(* EvidenceFile on a small instance: a piece of evidence with a file, one  *)
(* without, an id that names none, and files below, at and above the       *)
(* limit.  The key drawn for a request is named by the request.            *)
(***************************************************************************)
EXTENDS EvidenceFile, TLC

CONSTANTS e1, e2, eX,   \* two pieces of evidence, and an id that names none
          pdf, png, exe \* two allowed content types, and another

MCKeys == Requests \cup {e1}
MCKeyOf == [r \in Requests |-> r]
MCSeedKey == e1 :> e1 @@ e2 :> Nil
MCSeedFile == e1 :> [type |-> pdf, size |-> 1]

RequestSymmetry == Permutations(Requests)
=============================================================================
