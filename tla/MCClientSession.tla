--------------------------- MODULE MCClientSession ---------------------------
(***************************************************************************)
(* ClientSession with two sessions, so that each finds what the other has  *)
(* written, and two presses, so that a user can repeat what seemed to      *)
(* fail.                                                                   *)
(***************************************************************************)
EXTENDS ClientSession

CONSTANTS s1, s2

MCSessions == {s1, s2}
=============================================================================
