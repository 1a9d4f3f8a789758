------------------------------- MODULE MCRuns -------------------------------
(***************************************************************************)
(* The values of MCSystem for the runs of SpindleRuns.                     *)
(***************************************************************************)
EXTENDS SpindleRuns, MCSystem
=============================================================================
