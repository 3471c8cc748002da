------------------------------ MODULE FtpSystem ------------------------------
(***************************************************************************)
(* The whole transfer: ftpc, the client-side tcpd and its timer, the       *)
(* trolls, the server-side tcpd, and ftps.  The processes interleave; each *)
(* step belongs to one of them and touches only that process' state and    *)
(* the channels it reads or writes.                                        *)
(***************************************************************************)
EXTENDS Ftpc, ClientTcpd, ServerTcpd, Ftps

vars == <<ftpcVars, clientVars, serverVars, ftpsVars, clientHop, serverHop,
          trollVars, armed>>

Init ==
  /\ FtpcInit
  /\ ClientInit
  /\ ServerInit
  /\ FtpsInit
  /\ toTcpd = <<>> /\ ftpcAcks = 0
  /\ toFtps = <<>> /\ ftpsAcks = 0
  /\ dataNet = {} /\ ackNet = {}
  /\ armed = {}

FtpcStep ==
  FtpcNext /\ UNCHANGED <<clientVars, serverVars, ftpsVars, serverHop, trollVars, armed>>

ClientStep ==
  ClientNext /\ UNCHANGED <<ftpcVars, serverVars, ftpsVars, serverHop>>

ServerStep ==
  ServerNext /\ UNCHANGED <<ftpcVars, clientVars, ftpsVars, clientHop, armed>>

FtpsStep ==
  FtpsNext /\ UNCHANGED <<ftpcVars, clientVars, serverVars, clientHop, trollVars, armed>>

Next == FtpcStep \/ ClientStep \/ ServerStep \/ FtpsStep

Spec == Init /\ [][Next]_vars

(***************************************************************************)
(* Fairness.  The processes are scheduled: each takes a step if it can.    *)
(* The trolls drop a percentage below 100 of the datagrams, so of          *)
(* infinitely many transmissions of a packet one is relayed (first SF) and *)
(* a datagram they relay is received, whatever else they have queued       *)
(* (the other three; an answer is among what is relayed).                  *)
(***************************************************************************)
RelayedTransmit ==
  Transmit /\ \E p \in dataNet' : p.ok /\ p.seq = sb

RelayedAnswer(p) == RecvUnexpected(p) /\ rn \in ackNet'

OfClient(A) == A /\ UNCHANGED <<ftpcVars, serverVars, ftpsVars, serverHop>>

OfServer(A) == A /\ UNCHANGED <<ftpcVars, clientVars, ftpsVars, clientHop, armed>>

Fairness ==
  /\ WF_vars(FtpcStep)
  /\ WF_vars(ClientStep)
  /\ WF_vars(OfServer(RecvFtpsAck))
  /\ WF_vars(FtpsStep)
  /\ SF_vars(OfClient(RelayedTransmit))
  /\ SF_vars(OfServer(\E p \in dataNet : RecvExpected(p)))
  /\ SF_vars(OfServer(\E p \in dataNet : RelayedAnswer(p)))
  /\ SF_vars(OfClient(\E ack \in ackNet : RecvAck(ack)))

FairSpec == Spec /\ Fairness

(***************************************************************************)
(* The two ends of the stream.  Received is what ftps has made of the      *)
(* datagrams it read: of the first it keeps the size, of the second the    *)
(* name, of the others the blocks.                                         *)
(***************************************************************************)
Sent == [i \in 1 .. Handed |-> StreamMsg(file, i)]

SizeTaken == [body |-> [kind |-> "size", of |-> 0, val |-> fileSize], bytes |-> MSS]

NameTaken == [body |-> fileName, bytes |-> MSS]

Received ==
  IF ftpsPc \in {"down", "size"} THEN <<>>
  ELSE IF ftpsPc = "name" THEN <<SizeTaken>>
  ELSE <<SizeTaken, NameTaken>> \o output

Stream == INSTANCE ReliableStream
            WITH Messages <- StreamMessages, sent <- Sent, received <- Received

-------------------------------------------------------------------------------
(* Every variable has a value of the kind the code gives it.  What the server
   daemon forwards is a Datagram: GetFromBuffer may have returned no body. *)
Datagram == [body : Body \cup {NoBody}, bytes : Nat]

Node == [seq : Nat \cup {-1}, bytes : Nat, ack : {0, 1}, timed : BOOLEAN]

Ring == [cBuffer : [Slot -> Body \cup {NoBody}], start : Slot, end : Slot, active : Nat]

Packet == [seq : Nat, body : Body \cup {NoBody}, bytes : Nat, ok : BOOLEAN]

FtpcTypeOK == ftpcPc \in FtpcPcs /\ file \in FileSizes /\ blocks \in Nat

ClientHopTypeOK == toTcpd \in Seq(Message) /\ ftpcAcks \in Nat

ClientTypeOK ==
  /\ clientPc \in ClientPcs /\ sn \in Nat /\ sb \in Nat /\ bufferReady \in Nat
  /\ firstRun \in BOOLEAN /\ localTimeo \in BOOLEAN
  /\ clientRing \in Ring /\ clientNodes \in [Slot -> Node]
  /\ armed \subseteq Nat

NetTypeOK == dataNet \subseteq Packet /\ ackNet \subseteq Nat

ServerTypeOK ==
  /\ serverPc \in ServerPcs /\ rn \in Nat
  /\ serverRing \in Ring /\ serverNodes \in [Slot -> Node]

ServerHopTypeOK ==
  toFtps \in Seq(Datagram) /\ ftpsAcks \in Nat /\ ftpsBound \in BOOLEAN

FtpsTypeOK ==
  /\ ftpsPc \in FtpsPcs /\ fileSize \in Int /\ fileName \in Body \cup {NoName}
  /\ amtReadTotal \in Nat /\ output \in Seq(Datagram)

TypeOK ==
  /\ FtpcTypeOK /\ ClientHopTypeOK /\ ClientTypeOK /\ NetTypeOK
  /\ ServerTypeOK /\ ServerHopTypeOK /\ FtpsTypeOK

(* What ftps has read is a prefix of what ftpc has sent: loss, duplication,
   reordering, damage and retransmission on the way leave no trace in the
   order, the contents or the lengths of the datagrams. *)
InOrderDelivery ==
  /\ Len(Received) <= Handed
  /\ \A i \in 1 .. Len(Received) : Received[i] = StreamMsg(file, i)

(* The four counters along the path never contradict each other: a datagram
   counted as acknowledged by the client daemon was read by ftps, and the
   server daemon's count is at most one behind ftps. *)
CountersAgree ==
  /\ sb <= rn
  /\ rn <= Len(Received) /\ Len(Received) <= rn + 1
  /\ Len(Received) <= sn /\ sn <= Handed

(* For all its window of 20 the client daemon works one datagram at a time:
   nothing beyond sb is ever in the network and the server daemon is at most
   one ahead of it. *)
StopAndWait ==
  /\ rn <= sb + 1
  /\ \A p \in dataNet : p.ok => p.seq <= sb
  /\ \A ack \in ackNet : ack <= sb + 1

(* A datagram that ftps has not read can still be retransmitted: exactly one
   slot of the client's buffer belongs to it, unacknowledged, with its own
   contents and length. *)
UnreadIsBuffered ==
  \A seq \in Len(Received) .. sn - 1 :
    \E s \in Slot :
      /\ findNodeBySeq(clientNodes, seq) = {s}
      /\ clientNodes[s].ack = 0
      /\ clientRing.cBuffer[s] = StreamMsg(file, seq + 1).body
      /\ clientNodes[s].bytes = StreamMsg(file, seq + 1).bytes

(* The client daemon never dereferences the null pointer that findNode or
   findNodeBySeq returns, and the search in AddToBuffer always ends. *)
ListLookupsSucceed ==
  /\ clientPc # "crash"
  /\ clientPc = "recvLocal" /\ bufferReady < Slots
       => SearchEnds(clientRing.end, clientNodes)

(* A round-trip time is only computed from a node whose time sendPacket has
   set since the slot was filled. *)
AckedWasTimed == \A s \in Slot : clientNodes[s].ack = 1 => clientNodes[s].timed

(* When ftps has closed the file it holds the whole of it, if the length of
   the file is an int; of a longer file ftpc announces another length, and ftps
   stops by that one. *)
FileComplete ==
  ftpsPc = "done" =>
    /\ fileSize = num_bytes /\ amtReadTotal >= num_bytes
    /\ file <= INT_MAX => amtReadTotal = file /\ ~HasBlock(file, Len(output))

(* No one waits for what no one will do.  ftpc waits for an acknowledgement
   that its tcpd has given, or will once it reads the datagram that is there.
   That daemon reads without a timeout only while ftpc has more to send, and
   leaves its gate closed only while it has something to retransmit.  The
   server daemon waits for ftps when ftps has a datagram to read or has
   answered, and while ftps still waits although ftpc has exited, the client
   daemon still has something to retransmit. *)
NoneWaitsInVain ==
  /\ ftpcPc \in {"sizeAck", "nameAck", "blockAck"} => toTcpd # <<>> \/ ftpcAcks > 0
  /\ clientPc = "recvLocal" /\ bufferReady < Slots /\ ~localTimeo => ftpcPc # "done"
  /\ clientPc = "recvAck" /\ bufferReady = Slots => sb < sn
  /\ serverPc = "wait" => toFtps # <<>> \/ ftpsAcks > 0
  /\ ftpsPc \in {"size", "name", "data"} /\ ftpcPc = "done" => sb < sn

(* A slot of the client's buffer is filled anew only after ftps has read the
   datagram it held. *)
ReuseAfterRead ==
  [][\A s \in Slot :
       clientNodes[s].seq >= 0 /\ clientNodes'[s].seq # clientNodes[s].seq
         => clientNodes[s].seq < Len(Received)]_vars

(* The daemons implement the reliable stream. *)
StreamSafe == Stream!Spec

(* Every datagram handed over is eventually read by ftps. *)
StreamLive == Stream!FairSpec

(* The transfer ends, on both sides. *)
TransferEnds == <>(ftpcPc = "done" /\ ftpsPc = "done")

(* README.md: tcpd adds reliability to the UDP communication between ftpc and
   ftps; then a datagram that the client daemon counts as acknowledged, and
   will never transmit again, has been read by ftps. *)
AckedIsRead == sb <= Len(Received)

(* A transfer that ftpc reports as "FILE SENT SUCCESSFULLY" is one that ftps
   receives. *)
ReportedIsReceived == (ftpcPc = "done") ~> (ftpsPc = "done")
===============================================================================
