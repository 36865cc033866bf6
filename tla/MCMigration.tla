---------------------------- MODULE MCMigration ----------------------------
(***************************************************************************)
(* Migration on a small instance: the first release, and one that adds a   *)
(* column, as the testimony column was added.                              *)
(***************************************************************************)
EXTENDS Migration

CONSTANT testimony

MCReleases == { {}, {testimony} }
=============================================================================
