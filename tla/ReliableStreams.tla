---------------------------- MODULE ReliableStreams ----------------------------
(***************************************************************************)
(* What the daemons promise to the clients that use them one after the     *)
(* other: a reliable stream to each, and a fresh one only when all that    *)
(* was handed over to the last has come out.                               *)
(***************************************************************************)
EXTENDS ReliableStream

Renew ==
  /\ received = sent
  /\ sent' = <<>>
  /\ received' = <<>>

StreamsSpec == Init /\ [][Next \/ Renew]_streamVars
===============================================================================
