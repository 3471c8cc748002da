---------------------------- MODULE MCFtpSessions ----------------------------
(***************************************************************************)
(* Instances of FtpSessions for TLC.  The two files differ, and the second *)
(* one ends with a short block.                                            *)
(***************************************************************************)
EXTENDS FtpSessionsInv, FiniteSets

MCEmptyThenShort == <<0, 1>>

MCEmptyThenTwoBlocks == <<0, 3>>

\* At most this many datagrams at a time between the daemons, and each way.
MCMaxDatagrams == 3
MCMaxEachWay == 2

MCFewDatagrams ==
  /\ Cardinality(dataNet) <= MCMaxEachWay /\ Cardinality(ackNet) <= MCMaxEachWay
  /\ Cardinality(dataNet) + Cardinality(ackNet) <= MCMaxDatagrams
===============================================================================
