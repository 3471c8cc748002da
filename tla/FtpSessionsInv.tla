---------------------------- MODULE FtpSessionsInv ----------------------------
(***************************************************************************)
(* The inductive invariant behind the properties of FtpSessions, for a     *)
(* client-side daemon that is not restarted and an ftps that can open its  *)
(* file.  It is that of FtpSystemInv, about the transfer in progress.      *)
(***************************************************************************)
EXTENDS FtpSessions, FtpSystemInv

\* ftps is run for the transfer of ftpc, or already for the next.
RunsOK ==
  /\ ftpcRuns \in Nat \ {0}
  /\ ftpsRuns \in {ftpcRuns, ftpcRuns + 1}
  /\ ftpsRuns <= Len(Files)

\* The new ftps waits and has nothing to read: the last one read all that its
\* ftpc sent, and what may be missing is that the daemon counts the last read.
BetweenTransfers(first) ==
  /\ BlocksInFile /\ LocalHop(first) /\ SlotsHold(first) /\ NetHolds(first)
  /\ ServerRingEmpty
  /\ ftpsPc = "size" /\ output = <<>> /\ toFtps = <<>> /\ toTcpd = <<>>
  /\ Handed > 1 /\ ~HasBlock(file, blocks)
  /\ \/ serverPc = "recv" /\ ftpsAcks = 0 /\ rn = sn
     \/ serverPc = "wait" /\ ftpsAcks = 1 /\ rn + 1 = sn

\* The transfer of ftpc, whose first datagram has the number first.
TransferInv(first) ==
  IF ftpsRuns = ftpcRuns THEN PathInv(first) ELSE BetweenTransfers(first)

(* The inductive invariant: a transfer has the path of a first one, only with
   other numbers, and what carries an older number is no part of it. *)
SessionsInv ==
  /\ RunsOK
  /\ ftpsPc # "failed"
  /\ FtpsTotals
  /\ \E first \in 0 .. sn : TransferInv(first)
-------------------------------------------------------------------------------
(***************************************************************************)
(* The inductive invariant behind NothingInvented.  It says nothing of     *)
(* numbers, on which the two daemons no longer agree when one of them has  *)
(* been restarted: only that wherever a body and a length are kept         *)
(* together, they were sent together.                                      *)
(***************************************************************************)
Genuine(body, bytes) == [body |-> body, bytes |-> bytes] \in EverSent

\* What waits for the client daemon.
HopGenuine == \A i \in 1 .. Len(toTcpd) : toTcpd[i] \in EverSent

\* A slot and the node that describes it.
SlotsGenuine ==
  \A s \in Slot :
    clientNodes[s].seq # -1 => Genuine(clientRing.cBuffer[s], clientNodes[s].bytes)

\* The packets that pass the check.
NetGenuine == \A p \in dataNet : p.ok => Genuine(p.body, p.bytes)

(* The invariant of the contents, whatever the network and restarts do. *)
OriginInv ==
  /\ file = Files[ftpcRuns]
  /\ BlocksInFile
  /\ ServerRingEmpty
  /\ HopGenuine /\ SlotsGenuine /\ NetGenuine
  /\ NothingInvented
===============================================================================
