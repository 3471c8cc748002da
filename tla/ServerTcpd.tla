------------------------------ MODULE ServerTcpd ------------------------------
(***************************************************************************)
(* tcpd --s: the server-side daemon.  It waits for a packet; answers a     *)
(* damaged or unexpected one with the number it expects; forwards the      *)
(* expected one to ftps and then waits, without a timeout and deaf to the  *)
(* network, for ftps to acknowledge it before it acknowledges the packet   *)
(* itself.  The loop therefore has two stops.                              *)
(***************************************************************************)
EXTENDS Sockets, Troll, CircularBuffer

VARIABLES
  serverPc,    \* "recv" from the troll, or "wait" for ftps
  rn,          \* the sequence number expected next
  serverRing,  \* the circular buffer
  serverNodes  \* the list of nodes

serverVars == <<serverPc, rn, serverRing, serverNodes>>

ServerPcs == {"recv", "wait"}

ServerInit ==
  /\ serverPc = "recv"
  /\ rn = 0
  /\ serverRing = EmptyRing
  /\ serverNodes = EmptyList

\* current is never assigned, so every packet is described by the node of slot 0.
current == 0

RecvCorrupt(p) ==
  /\ serverPc = "recv"
  /\ p \in dataNet
  /\ ~p.ok
  /\ dataNet' \in Remainders(dataNet, p)
  /\ ackNet' \in AckFates(rn)
  /\ UNCHANGED <<serverVars, serverHop>>

\* Mutant of Forward: MSS bytes are sent, whatever the length.
ForwardFull(m) ==
  toFtps' = IF ftpsBound THEN Append(toFtps, [m EXCEPT !.bytes = MSS]) ELSE toFtps

\* A datagram sent to ftps while nothing has its port bound is lost.
Forward(m) == toFtps' = IF ftpsBound THEN Append(toFtps, m) ELSE toFtps

\* Through the buffer to ftps, and on to the wait for its acknowledgement.
PassOn(p) ==
  /\ dataNet' \in Remainders(dataNet, p)
  /\ LET filled == AddToBufferForServer(serverRing, p.body)
     IN  /\ serverNodes' = insertNode(serverNodes, current, p.bytes, 0)
         /\ Forward([body |-> FrontOf(filled), bytes |-> serverNodes'[current].bytes])
         /\ serverRing' = GetFromBuffer(filled)
  /\ serverPc' = "wait"
  /\ UNCHANGED <<rn, ftpsAcks, ftpsBound>>

\* Mutants of RecvExpected: any undamaged packet is passed on; the checksum is
\* ignored; the packet is acknowledged before ftps has it.
RecvExpectedAnySeq(p) ==
  /\ serverPc = "recv" /\ p \in dataNet /\ p.ok
  /\ PassOn(p) /\ UNCHANGED ackNet

RecvExpectedUnchecked(p) ==
  /\ serverPc = "recv" /\ p \in dataNet /\ p.seq = rn
  /\ PassOn(p) /\ UNCHANGED ackNet

RecvExpectedAckedFirst(p) ==
  /\ serverPc = "recv" /\ p \in dataNet /\ p.ok /\ p.seq = rn
  /\ PassOn(p) /\ ackNet' \in AckFates(rn + 1)

RecvExpected(p) ==
  /\ serverPc = "recv"
  /\ p \in dataNet
  /\ p.ok
  /\ p.seq = rn
  /\ PassOn(p)
  /\ UNCHANGED ackNet

\* Mutants of RecvUnexpected: it answers with the number after the one it
\* expects; it does not answer.
RecvUnexpectedAcksNext(p) ==
  /\ serverPc = "recv" /\ p \in dataNet /\ p.ok /\ p.seq # rn
  /\ dataNet' \in Remainders(dataNet, p)
  /\ ackNet' \in AckFates(rn + 1)
  /\ UNCHANGED <<serverVars, serverHop>>

RecvUnexpectedSilent(p) ==
  /\ serverPc = "recv" /\ p \in dataNet /\ p.ok /\ p.seq # rn
  /\ dataNet' \in Remainders(dataNet, p)
  /\ UNCHANGED <<serverVars, serverHop, ackNet>>

RecvUnexpected(p) ==
  /\ serverPc = "recv"
  /\ p \in dataNet
  /\ p.ok
  /\ p.seq # rn
  /\ dataNet' \in Remainders(dataNet, p)
  /\ ackNet' \in AckFates(rn)
  /\ UNCHANGED <<serverVars, serverHop>>

RecvFtpsAck ==
  /\ serverPc = "wait"
  /\ ftpsAcks > 0
  /\ ftpsAcks' = ftpsAcks - 1
  /\ rn' = rn + 1
  /\ ackNet' \in AckFates(rn + 1)
  /\ serverPc' = "recv"
  /\ UNCHANGED <<serverRing, serverNodes, dataNet, toFtps, ftpsBound>>

ServerNext ==
  \/ \E p \in dataNet : RecvCorrupt(p) \/ RecvExpected(p) \/ RecvUnexpected(p)
  \/ RecvFtpsAck
===============================================================================
