------------------------------- MODULE MCCond -------------------------------
(***************************************************************************)
(* Instances of Cond for TLC.                                              *)
(***************************************************************************)
EXTENDS Cond
=============================================================================
