------------------------------- MODULE Docket -------------------------------
(***************************************************************************)
(* What the trial endpoints promise, with no requests, locks or commits in *)
(* sight: every case keeps a list of trials, numbered from one in the      *)
(* order they were opened.  A list only ever grows at its end, and a trial *)
(* on it may be amended but keeps its place and never loses a hearing date *)
(* it has been given.                                                      *)
(***************************************************************************)
EXTENDS Naturals, Sequences

CONSTANTS Cases,        \* the cases on file
          Trials,       \* the rows a docket may hold
          HasHearing(_),\* whether a row carries a hearing date
          SeedTrials    \* the dockets the database is seeded with

VARIABLE docket

Init == docket = SeedTrials

\* A new trial takes the next number of its case.
OpenTrial(c) ==
    \E row \in Trials : docket' = [docket EXCEPT ![c] = Append(docket[c], row)]

\* One trial of one case is changed in place.
AmendTrial(c) ==
    \E n \in DOMAIN docket[c], row \in Trials :
        /\ HasHearing(docket[c][n]) => HasHearing(row)
        /\ docket' = [docket EXCEPT ![c] = [docket[c] EXCEPT ![n] = row]]

Next == \E c \in Cases : OpenTrial(c) \/ AmendTrial(c)

Spec == Init /\ [][Next]_docket
=============================================================================
