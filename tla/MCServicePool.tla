--------------------------- MODULE MCServicePool ---------------------------
(***************************************************************************)
(* ServicePool on a small instance: 2 threads stand for the 40 of anyio    *)
(* and 2 connections for the 10 + 20 of an engine.  The two writes and     *)
(* /health/ready take three connections of the writer, one too many, and   *)
(* each of the four requests a thread.                                     *)
(***************************************************************************)
EXTENDS ServicePool

CONSTANT t1

MCTaskOf == [r \in Requests |-> t1]
=============================================================================
