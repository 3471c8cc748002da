----------------------------- MODULE MCFtpSystem -----------------------------
(***************************************************************************)
(* Instances of FtpSystem for TLC.  With blocks of 2 bytes a file of 0, 1, *)
(* 2 or 3 bytes takes 2, 3, 3 or 4 datagrams.                              *)
(***************************************************************************)
EXTENDS FtpSystemInv
===============================================================================
