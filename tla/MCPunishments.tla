---------------------------- MODULE MCPunishments ----------------------------
(***************************************************************************)
(* Punishments on a small instance: one trial and one unknown trial id,    *)
(* two persons (one with a Criminal row already) and an unknown one, lists *)
(* in both orders and with a repetition, and the two jail columns.         *)
(***************************************************************************)
EXTENDS Punishments, TLC

CONSTANTS t1, tX, case1, a, b, x

MCCaseOf == t1 :> case1
MCLists == { <<a, b>>, <<b, a>>, <<a, a>>, <<b, x>> }

RequestSymmetry == Permutations(Requests)
MCColumns == {"jail_start", "jail_end"}
MCValues == 1 .. 2

\* a has served a sentence in the case already.
MCSeedPunished ==
    <<case1, a>> :> ("jail_start" :> 1 @@ "jail_end" :> 1) @@ <<case1, b>> :> NoRow

\* Requests that the validator of the schema lets through.
MCSentences == { "jail_start" :> 2, "jail_end" :> 2 }
=============================================================================
