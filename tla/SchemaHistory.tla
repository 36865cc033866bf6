--------------------------- MODULE SchemaHistory ---------------------------
(***************************************************************************)
(* What the migrations of all deployments together promise of the          *)
(* database: the schema appears once, whole and with its seed data, and    *)
(* from then on only gains columns.                                        *)
(***************************************************************************)
EXTENDS Naturals

CONSTANTS Releases,  \* the columns a release adds to the first schema
          Absent     \* there is no schema yet

VARIABLES columns,   \* the added columns on file, or Absent
          seeds      \* how many times the seed data was loaded

Init == columns = Absent /\ seeds = 0

Create(release) ==
    /\ columns = Absent
    /\ columns' = release
    /\ seeds' = 1

Grow(release) ==
    /\ columns # Absent
    /\ columns' = columns \cup release
    /\ UNCHANGED seeds

Next == \E release \in Releases : Create(release) \/ Grow(release)

Spec == Init /\ [][Next]_<<columns, seeds>>
=============================================================================
