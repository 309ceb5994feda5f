------------------------------ MODULE MCMpiJob ------------------------------
(***************************************************************************)
(* Jobs for the runs of MpiJob.  The plates need different numbers of      *)
(* states, so that a mixed answer shows, and one needs more than an int    *)
(* can carry.                                                              *)
(***************************************************************************)
EXTENDS MpiJob

MCStatesOf(plate) == 3 * plate + 2
=============================================================================
