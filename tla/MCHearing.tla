------------------------------- MODULE MCHearing -------------------------------
(* Instances of Hearing for TLC.                                           *)
EXTENDS Hearing
================================================================================
