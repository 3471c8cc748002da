------------------------------ MODULE ClientTcpd ------------------------------
(***************************************************************************)
(* tcpd --c: the client-side daemon.  Its endless loop makes four stops,   *)
(* each at most one blocking read and the work up to the next one: read a  *)
(* datagram from ftpc, read an acknowledgement, read a timeout, transmit   *)
(* the oldest unacknowledged datagram.  Each stop is a value of clientPc   *)
(* and each outcome of a stop an action.                                   *)
(*                                                                         *)
(* Left out: the upper edge sm of the window, which nothing reads; the     *)
(* estimation of rto, of which only the read of the node's time is kept    *)
(* (field timed); the exits when a system call fails.                      *)
(***************************************************************************)
EXTENDS Sockets, Troll, CircularBuffer, TimerService

VARIABLES
  clientPc,    \* the stop of the loop
  sn,          \* sequence number of the next datagram from ftpc
  sb,          \* oldest unacknowledged sequence number
  bufferReady, \* slots filled since the gate was last opened
  firstRun,    \* TRUE on the first turn of the loop
  localTimeo,  \* SO_RCVTIMEO has been set on localSocket
  clientRing,  \* the circular buffer
  clientNodes  \* the list of nodes

clientVars == <<clientPc, sn, sb, bufferReady, firstRun, localTimeo, clientRing,
                clientNodes>>

ClientPcs == {"recvLocal", "recvAck", "recvTimer", "transmit", "crash"}

ClientInit ==
  /\ clientPc = "recvLocal"
  /\ sn = 0
  /\ sb = 0
  /\ bufferReady = 0
  /\ firstRun = TRUE
  /\ localTimeo = FALSE
  /\ clientRing = EmptyRing
  /\ clientNodes = EmptyList

(***************************************************************************)
(* First stop: a datagram from ftpc.                                       *)
(***************************************************************************)

\* The null pointer cBufferReady meets if a slot before the first
\* unacknowledged one has no node.
ReadyMeetsNull(nodes) ==
  \E s \in Slot : /\ nodes[s] = NoNode
                  /\ \A t \in 0 .. s - 1 : nodes[t].ack = 1

\* Mutant of LeaveLocal: the gate is never opened again.
LeaveLocalGateStuck(filled, nodes) ==
  /\ bufferReady' = filled
  /\ localTimeo' = (localTimeo \/ ~firstRun)
  /\ firstRun' = FALSE
  /\ clientPc' = IF filled = Slots /\ ReadyMeetsNull(nodes) THEN "crash"
                 ELSE IF firstRun THEN "transmit" ELSE "recvAck"

\* From the gate check to the next stop, with the given slots filled.
LeaveLocal(filled, nodes) ==
  /\ bufferReady' = IF filled = Slots /\ cBufferReady(nodes) THEN 0 ELSE filled
  /\ localTimeo' = (localTimeo \/ ~firstRun)
  /\ firstRun' = FALSE
  /\ clientPc' = IF filled = Slots /\ ReadyMeetsNull(nodes) THEN "crash"
                 ELSE IF firstRun THEN "transmit" ELSE "recvAck"

RecvLocal ==
  /\ clientPc = "recvLocal"
  /\ bufferReady < Slots
  /\ toTcpd # <<>>
  /\ SearchEnds(clientRing.end, clientNodes)
  /\ LET m    == Head(toTcpd)
         slot == ReadySlot(clientRing.end, clientNodes)
     IN  /\ clientRing' = AddToBuffer(clientRing, clientNodes, m.body)
         /\ clientNodes' = insertNode(clientNodes, slot, m.bytes, sn)
  /\ toTcpd' = Tail(toTcpd)
  /\ ftpcAcks' = ftpcAcks + 1
  /\ sn' = sn + 1
  /\ LeaveLocal(bufferReady + 1, clientNodes')
  /\ UNCHANGED <<sb, trollVars, armed>>

\* Nothing came within the timeout, which the first two turns do not have.
LocalTimeout ==
  /\ clientPc = "recvLocal"
  /\ bufferReady < Slots
  /\ toTcpd = <<>>
  /\ localTimeo
  /\ LeaveLocal(bufferReady, clientNodes)
  /\ UNCHANGED <<sn, sb, clientRing, clientNodes, clientHop, trollVars, armed>>

\* The gate is closed: ftpc is not listened to.
GateClosed ==
  /\ clientPc = "recvLocal"
  /\ bufferReady = Slots
  /\ LeaveLocal(bufferReady, clientNodes)
  /\ UNCHANGED <<sn, sb, clientRing, clientNodes, clientHop, trollVars, armed>>

(***************************************************************************)
(* Second stop: an acknowledgement.                                        *)
(***************************************************************************)
Acknowledged(seq) ==
  [s \in Slot |-> IF s \in findNodeBySeq(clientNodes, seq)
                  THEN [clientNodes[s] EXCEPT !.ack = 1] ELSE clientNodes[s]]

\* Mutant of RecvAck: ackNo is taken for the number that it acknowledges.
RecvAckOffByOne(ack) ==
  /\ clientPc = "recvAck"
  /\ ack \in ackNet
  /\ ack = sb + 1
  /\ ackNet' \in Remainders(ackNet, ack)
  /\ canceltimer(ack)
  /\ clientNodes' = Acknowledged(ack)
  /\ sb' = ack
  /\ clientPc' = "recvTimer"
  /\ UNCHANGED <<sn, bufferReady, firstRun, localTimeo, clientRing, clientHop,
                 dataNet>>

RecvAck(ack) ==
  /\ clientPc = "recvAck"
  /\ ack \in ackNet
  /\ ack = sb + 1
  /\ ackNet' \in Remainders(ackNet, ack)
  /\ canceltimer(ack - 1)
  /\ clientNodes' = Acknowledged(ack - 1)
  /\ sb' = ack
  /\ clientPc' = "recvTimer"
  /\ UNCHANGED <<sn, bufferReady, firstRun, localTimeo, clientRing, clientHop,
                 dataNet>>

\* Any other number changes nothing, an older and a larger one alike.
RecvNak(ack) ==
  /\ clientPc = "recvAck"
  /\ ack \in ackNet
  /\ ack # sb + 1
  /\ ackNet' \in Remainders(ackNet, ack)
  /\ clientPc' = "recvTimer"
  /\ UNCHANGED <<sn, sb, bufferReady, firstRun, localTimeo, clientRing, clientNodes,
                 clientHop, dataNet, armed>>

AckTimeout ==
  /\ clientPc = "recvAck"
  /\ clientPc' = "recvTimer"
  /\ UNCHANGED <<sn, sb, bufferReady, firstRun, localTimeo, clientRing, clientNodes,
                 clientHop, trollVars, armed>>

(***************************************************************************)
(* sendPacket: the packet that the node of seq and its slot make up, given *)
(* to the troll, and the time noted in the node.  Without such a node the  *)
(* code dereferences a null pointer.                                       *)
(***************************************************************************)
\* Mutant of PacketOf: the length is that of the first node, whatever the slot.
PacketOfFirstNode(s) ==
  [seq |-> clientNodes[s].seq, body |-> clientRing.cBuffer[s],
   bytes |-> clientNodes[0].bytes, ok |-> TRUE]

PacketOf(s) == [seq |-> clientNodes[s].seq, body |-> clientRing.cBuffer[s],
                bytes |-> clientNodes[s].bytes, ok |-> TRUE]

sendPacket(seq, next) ==
  LET found == findNodeBySeq(clientNodes, seq)
  IN  /\ dataNet' \in IF found = {} THEN {dataNet}
                      ELSE UNION {DataFates(PacketOf(s)) : s \in found}
      /\ clientNodes' = [s \in Slot |->
                           IF s \in found THEN [clientNodes[s] EXCEPT !.timed = TRUE]
                           ELSE clientNodes[s]]
      /\ clientPc' = IF found = {} THEN "crash" ELSE next

(***************************************************************************)
(* Third stop: a timeout.                                                  *)
(***************************************************************************)
\* Mutant of Outstanding: an acknowledged number is not told apart.
OutstandingOrOld(seq) == seq < sn

Outstanding(seq) == sb <= seq /\ seq < sn

RecvTimeout(seq) ==
  /\ clientPc = "recvTimer"
  /\ seq \in Timeouts
  /\ Outstanding(seq)
  /\ sendPacket(seq, "transmit")
  /\ starttimer(seq)
  /\ UNCHANGED <<sn, sb, bufferReady, firstRun, localTimeo, clientRing, clientHop,
                 ackNet>>

RecvStaleTimeout(seq) ==
  /\ clientPc = "recvTimer"
  /\ seq \in Timeouts
  /\ ~Outstanding(seq)
  /\ TimeoutRead(seq)
  /\ clientPc' = "transmit"
  /\ UNCHANGED <<sn, sb, bufferReady, firstRun, localTimeo, clientRing, clientNodes,
                 clientHop, trollVars>>

NoTimeout ==
  /\ clientPc = "recvTimer"
  /\ clientPc' = "transmit"
  /\ UNCHANGED <<sn, sb, bufferReady, firstRun, localTimeo, clientRing, clientNodes,
                 clientHop, trollVars, armed>>

(***************************************************************************)
(* Last stop: transmit the oldest unacknowledged datagram, whether or not  *)
(* it was transmitted before, and start one more timer for it.             *)
(***************************************************************************)
\* Mutant of Transmit: the newest datagram instead of the oldest.
TransmitNewest ==
  /\ clientPc = "transmit"
  /\ sb < sn
  /\ sendPacket(sn - 1, "recvLocal")
  /\ starttimer(sn - 1)
  /\ UNCHANGED <<sn, sb, bufferReady, firstRun, localTimeo, clientRing, clientHop,
                 ackNet>>

Transmit ==
  /\ clientPc = "transmit"
  /\ sb < sn
  /\ sendPacket(sb, "recvLocal")
  /\ starttimer(sb)
  /\ UNCHANGED <<sn, sb, bufferReady, firstRun, localTimeo, clientRing, clientHop,
                 ackNet>>

NothingToTransmit ==
  /\ clientPc = "transmit"
  /\ sb >= sn
  /\ clientPc' = "recvLocal"
  /\ UNCHANGED <<sn, sb, bufferReady, firstRun, localTimeo, clientRing, clientNodes,
                 clientHop, trollVars, armed>>

ClientNext ==
  \/ RecvLocal
  \/ LocalTimeout
  \/ GateClosed
  \/ \E ack \in ackNet : RecvAck(ack) \/ RecvNak(ack)
  \/ AckTimeout
  \/ \E seq \in Timeouts : RecvTimeout(seq) \/ RecvStaleTimeout(seq)
  \/ NoTimeout
  \/ Transmit
  \/ NothingToTransmit
===============================================================================
