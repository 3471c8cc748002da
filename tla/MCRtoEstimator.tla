---------------------------- MODULE MCRtoEstimator ----------------------------
(***************************************************************************)
(* The instance of RtoEstimator for TLC, in units of 50 ms: the timeouts   *)
(* of tcpd.c (50 and 300 ms), each wait cut to nothing or its whole        *)
(* length, a first wait for ftpc of more than a second, and round trips    *)
(* shorter and longer than a turn of the loop.                             *)
(***************************************************************************)
EXTENDS RtoEstimator
===============================================================================
