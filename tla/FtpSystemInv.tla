----------------------------- MODULE FtpSystemInv -----------------------------
(***************************************************************************)
(* The inductive invariant behind InOrderDelivery and StreamSafe.  It      *)
(* follows a datagram along its path: on the local hop from ftpc, in a     *)
(* slot of the client's buffer, in the network, through the server         *)
(* daemon, on the local hop to ftps, in what ftps keeps.  At every place   *)
(* the datagram with sequence number s is the (s+1)-th that ftpc sends.    *)
(*                                                                         *)
(* The daemons count on when ftpc and ftps are run again.  The conjuncts   *)
(* therefore speak of a transfer whose datagrams are numbered from first   *)
(* on; the only transfer of FtpSystem is numbered from 0 on.               *)
(***************************************************************************)
EXTENDS FtpSystem

\* The i-th datagram of this transfer.
Nth(i) == StreamMsg(file, i)

\* How many datagrams ftps has read.
Taken ==
  IF ftpsPc \in {"down", "size"} THEN 0
  ELSE IF ftpsPc = "name" THEN 1
  ELSE 2 + Len(output)

FtpcWaits == ftpcPc \in {"sizeAck", "nameAck", "blockAck"}

\* The blocks sent are blocks of the file.
BlocksInFile ==
  /\ \A k \in 0 .. blocks - 1 : HasBlock(file, k)
  /\ ftpcPc \in {"sendSize", "sizeAck", "sendName", "nameAck"} => blocks = 0
  /\ ftpcPc = "blockAck" => blocks > 0

\* ftpc and its tcpd work in lockstep.
LocalHop(first) ==
  \/ ~FtpcWaits /\ toTcpd = <<>> /\ ftpcAcks = 0 /\ sn = first + Handed
  \/ FtpcWaits /\ toTcpd = <<Nth(Handed)>> /\ ftpcAcks = 0 /\ sn + 1 = first + Handed
  \/ FtpcWaits /\ toTcpd = <<>> /\ ftpcAcks = 1 /\ sn = first + Handed

\* What carries the number of a datagram of this transfer is that datagram;
\* nothing is said of what carries a smaller number.
Carries(first, seq, body, bytes) ==
  /\ seq \in 0 .. sn - 1
  /\ seq >= first => /\ body = Nth(seq - first + 1).body
                     /\ bytes = Nth(seq - first + 1).bytes

\* A slot holds the datagram its node says.
SlotsHold(first) ==
  \A s \in Slot :
    clientNodes[s].seq # -1 =>
      Carries(first, clientNodes[s].seq, clientRing.cBuffer[s], clientNodes[s].bytes)

\* An undamaged packet carries the datagram its sequence number says.
NetHolds(first) ==
  \A p \in dataNet : p.ok => Carries(first, p.seq, p.body, p.bytes)

\* Nothing stays in the server's buffer.
ServerRingEmpty == serverRing.active = 0 /\ serverRing.start = serverRing.end

\* The server daemon and ftps work in lockstep, until a datagram is lost
\* between them (third disjunct, which then lasts).
ServerHop(first) ==
  /\ rn <= sn
  /\ \/ serverPc = "recv" /\ toFtps = <<>> /\ ftpsAcks = 0 /\ first + Taken = rn
     \/ /\ serverPc = "wait" /\ rn < sn
        /\ \/ toFtps = <<Nth(Taken + 1)>> /\ ftpsAcks = 0 /\ first + Taken = rn
           \/ toFtps = <<>> /\ ftpsAcks = 1 /\ first + Taken = rn + 1
           \/ toFtps = <<>> /\ ftpsAcks = 0 /\ first + Taken = rn

\* ftps keeps what it read as what it is.
FtpsHolds ==
  /\ ftpsPc \in {"name", "data", "done", "failed"} => fileSize = num_bytes
  /\ ftpsPc \in {"data", "done", "failed"} => fileName = NameMsg(file).body
  /\ ftpsPc \in {"down", "size", "name", "failed"} => output = <<>>
  /\ \A i \in 1 .. Len(output) : output[i] = DataMsg(file, i - 1)

\* All of the above.
PathInv(first) ==
  /\ BlocksInFile
  /\ LocalHop(first)
  /\ SlotsHold(first)
  /\ NetHolds(first)
  /\ ServerRingEmpty
  /\ ServerHop(first)
  /\ FtpsHolds

(* The inductive invariant, whatever the network does to data and
   acknowledgements and whenever ftps is started. *)
IInv == PathInv(0)
-------------------------------------------------------------------------------
(***************************************************************************)
(* The client's gate: how the slots of its buffer are used, whatever the   *)
(* network does.                                                           *)
(***************************************************************************)

\* A sequence number has one slot at most.
OneSlotEach ==
  \A s, t \in Slot :
    clientNodes[s].seq # -1 /\ clientNodes[s].seq = clientNodes[t].seq => s = t

\* Only numbers below the window's lower edge are acknowledged, ...
AckedIsBelow == \A s \in Slot : clientNodes[s].ack = 1 => clientNodes[s].seq < sb

\* ... and those above it keep their slots.
OutstandingKept ==
  \A seq \in sb .. sn - 1 :
    \E s \in Slot : clientNodes[s].seq = seq /\ clientNodes[s].ack = 0

\* Since the gate was opened the slots were filled from the first on: those
\* filled have nodes, the others are ready.
FilledInOrder ==
  /\ bufferReady <= Slots
  /\ clientRing.end = IF bufferReady = Slots THEN 0 ELSE bufferReady
  /\ \A s \in Slot : IF s < bufferReady THEN clientNodes[s] # NoNode
                     ELSE SlotReady(clientNodes, s)

\* ftps adds up the blocks it wrote, and reads on exactly while there are more,
\* or, if the length of the file is no int, while the int says so.
FtpsTotals ==
  /\ ftpsPc \in {"down", "size", "name", "failed"} => amtReadTotal = 0
  /\ ftpsPc = "data" => amtReadTotal = Len(output) * MSS /\ amtReadTotal < num_bytes
  /\ ftpsPc = "done" =>
       /\ amtReadTotal >= num_bytes
       /\ file <= INT_MAX => amtReadTotal = file /\ ~HasBlock(file, Len(output))

(* The lengths of the files are ints. *)
FilesFit == \A n \in FileSizes : n <= INT_MAX

(* The invariant of the gate and of ftps' count, for any network. *)
GateInv ==
  /\ OneSlotEach
  /\ AckedIsBelow
  /\ OutstandingKept
  /\ FilledInOrder
  /\ clientPc # "crash"
  /\ FtpsTotals

(***************************************************************************)
(* The window, when acknowledgements arrive undamaged.                     *)
(***************************************************************************)

\* A packet with number sb has left the client and may be, or has been, answered.
BaseWasSent ==
  \/ sb < rn
  \/ serverPc = "wait" /\ rn = sb
  \/ \E p \in dataNet : p.ok /\ p.seq = sb

\* The server daemon is level with the client's, or one ahead.
Level == sb <= rn /\ rn <= sb + 1

\* Nothing that travels is ahead of them.
NothingAhead ==
  /\ \A ack \in ackNet : ack <= rn
  /\ \A p \in dataNet : p.ok => p.seq <= sb
  /\ \A seq \in armed : seq <= sb
  /\ serverPc = "wait" => rn <= sb

\* What may be answered was timed.
BaseIsTimed ==
  BaseWasSent => \A s \in Slot : clientNodes[s].seq = sb => clientNodes[s].timed

(* The invariant of the window. *)
WindowInv == Level /\ NothingAhead /\ BaseIsTimed /\ AckedWasTimed
-------------------------------------------------------------------------------
(***************************************************************************)
(* Who waits, and for what, when acknowledgements arrive undamaged and an  *)
(* ftps whose file opens was there first.                                  *)
(***************************************************************************)

\* What has a slot and is not acknowledged is still to be.
UnackedIsOutstanding ==
  \A s \in Slot : clientNodes[s] # NoNode /\ clientNodes[s].ack = 0 => sb <= clientNodes[s].seq

\* The gate is left closed only while a slot is not acknowledged.
GateClosedForCause ==
  clientPc = "recvAck" /\ bufferReady = Slots => ~cBufferReady(clientNodes)

\* The reads without a timeout are the daemon's first two.
PatientReads ==
  /\ firstRun => clientPc = "recvLocal" /\ sn = 0 /\ bufferReady = 0
  /\ ~localTimeo => sn <= 1

\* ftps has its port bound until it has the whole file.
ServedToTheEnd ==
  /\ ftpsPc \notin {"down", "failed"}
  /\ ftpsBound = (ftpsPc # "done")

\* ftpc exits when its file has no more blocks.
SentToTheEnd == ftpcPc = "done" => ~HasBlock(file, blocks)

\* ftps reads and answers what the server daemon waits for.
ForwardedIsAnswered == serverPc = "wait" => toFtps # <<>> \/ ftpsAcks > 0

(* The invariant of the waits. *)
WaitInv ==
  /\ UnackedIsOutstanding /\ GateClosedForCause /\ PatientReads
  /\ ServedToTheEnd /\ SentToTheEnd /\ ForwardedIsAnswered
===============================================================================
