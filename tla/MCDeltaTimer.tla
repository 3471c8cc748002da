---------------------------- MODULE MCDeltaTimer ----------------------------
(***************************************************************************)
(* Instances of DeltaTimer for TLC.                                        *)
(***************************************************************************)
EXTENDS DeltaTimer
===============================================================================
