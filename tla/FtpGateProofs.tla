---------------------------- MODULE FtpGateProofs ----------------------------
(***************************************************************************)
(* Theorems about the client's gate, the end of the file, and the window.  *)
(* The first two hold whatever the network does; those about the window    *)
(* are for acknowledgements that arrive undamaged.  Everything rests on    *)
(* the invariant of FtpSystemProofs.                                       *)
(***************************************************************************)
EXTENDS FtpSystemProofs

-------------------------------------------------------------------------------
(***************************************************************************)
(* Lemmas about the operators.                                             *)
(***************************************************************************)

(* A position in the buffer, and the one after it. *)
LEMMA WrapSlot ==
  ASSUME NEW s \in Slot
  PROVE  /\ s % Slots = s
         /\ (s + 1) % Slots = IF s + 1 = Slots THEN 0 ELSE s + 1
<1>1. \A a \in Nat : a < Slots => a % Slots = a
  BY SlotsAssumption, SMT
<1>2. Slots % Slots = 0
  BY SlotsAssumption, SMT
<1>3. s \in Nat /\ s < Slots
  BY SlotsAssumption, SMT DEF Slot
<1>4. s + 1 = Slots \/ (s + 1 \in Nat /\ s + 1 < Slots)
  BY <1>3, SlotsAssumption, SMT
<1> QED
  BY <1>1, <1>2, <1>3, <1>4

(* AddToBuffer takes the slot at end if that is ready. *)
LEMMA EndIsReadySlot ==
  ASSUME NEW end \in Slot, NEW nodes, SlotReady(nodes, end)
  PROVE  SearchEnds(end, nodes) /\ ReadySlot(end, nodes) = end
<1>1. 0 \in Slot /\ end \in Nat /\ end + 0 = end
  BY SlotsAssumption, SMT DEF Slot
<1>2. SlotReady(nodes, (end + 0) % Slots)
  BY <1>1, WrapSlot
<1>3. SearchStops(end, nodes, 0)
  BY <1>2, SMT DEF SearchStops
<1>4. ASSUME NEW k \in Slot, SearchStops(end, nodes, k) PROVE k = 0
  <2>1. k \in Nat /\ (k # 0 => 0 \in 0 .. k - 1)
    BY SlotsAssumption, SMT DEF Slot
  <2> QED
    BY <1>2, <1>4, <2>1 DEF SearchStops
<1>5. (CHOOSE k \in Slot : SearchStops(end, nodes, k)) = 0
  BY <1>1, <1>3, <1>4
<1> QED
  BY <1>1, <1>3, <1>5, WrapSlot DEF SearchEnds, ReadySlot

(* A node that a transmission touches keeps its number and its mark. *)
LEMMA SendPacketNodes ==
  ASSUME clientNodes \in [Slot -> Node], NEW seq \in Nat, NEW next,
         sendPacket(seq, next)
  PROVE  /\ \A s \in Slot :
              /\ clientNodes'[s].seq = clientNodes[s].seq
              /\ clientNodes'[s].ack = clientNodes[s].ack
              /\ clientNodes[s].timed => clientNodes'[s].timed
              /\ clientNodes[s].seq = seq => clientNodes'[s].timed
              /\ clientNodes[s].seq # seq => clientNodes'[s] = clientNodes[s]
         /\ \A p \in dataNet' : p \in dataNet \/ ~p.ok \/ (p.ok /\ p.seq = seq)
<1>1. \A s \in Slot : clientNodes[s] \in Node
  OBVIOUS
<1>2. ASSUME NEW s \in Slot
      PROVE  clientNodes'[s] = IF clientNodes[s].seq = seq
                               THEN [clientNodes[s] EXCEPT !.timed = TRUE]
                               ELSE clientNodes[s]
  BY DEF sendPacket, findNodeBySeq
<1>3. \A n \in Node : /\ [n EXCEPT !.timed = TRUE].seq = n.seq
                      /\ [n EXCEPT !.timed = TRUE].ack = n.ack
                      /\ [n EXCEPT !.timed = TRUE].timed = TRUE
  BY Zenon DEF Node
<1>4. ASSUME NEW p \in dataNet', p \notin dataNet, p.ok
      PROVE  p.seq = seq
  <2>1. ~Garbled.ok
    BY DEF Garbled
  <2>2. PICK s \in findNodeBySeq(clientNodes, seq) : p = PacketOf(s)
    BY <1>4, <2>1 DEF sendPacket, DataFates
  <2> QED
    BY <2>2 DEF findNodeBySeq, PacketOf
<1> QED
  BY <1>1, <1>2, <1>3, <1>4

(* What RecvLocal does to the buffer and its list when the slot at end is
   ready. *)
LEMMA FillsEnd ==
  ASSUME TypeOK, RecvLocal, SlotReady(clientNodes, clientRing.end)
  PROVE  /\ clientRing.end \in Slot
         /\ clientRing'.end = (clientRing.end + 1) % Slots
         /\ clientNodes'[clientRing.end].seq = sn
         /\ clientNodes'[clientRing.end].ack = 0
         /\ \A s \in Slot \ {clientRing.end} : clientNodes'[s] = clientNodes[s]
<1> DEFINE end == clientRing.end
<1>1. end \in Slot /\ clientNodes \in [Slot -> Node]
  BY DEF TypeOK, ClientTypeOK, Ring
<1>2. ReadySlot(end, clientNodes) = end
  BY <1>1, EndIsReadySlot
<1>3. clientNodes' = insertNode(clientNodes, end, Head(toTcpd).bytes, sn)
  BY <1>2 DEF RecvLocal
<1>4. clientRing'.end = (end + 1) % Slots
  BY <1>2 DEF RecvLocal, AddToBuffer, CopyIn
<1> QED
  BY <1>1, <1>3, <1>4 DEF insertNode
-------------------------------------------------------------------------------
(***************************************************************************)
(* The gate.  Only the client daemon's steps name its state.               *)
(***************************************************************************)

(* The work after the read from ftpc: no slot lacks a node when cBufferReady
   runs, and the gate opens onto a buffer all of whose slots are ready. *)
LEMMA GateOpens ==
  ASSUME NEW filled \in 0 .. Slots, NEW nodes, LeaveLocal(filled, nodes),
         \A s \in Slot : IF s < filled THEN nodes[s] # NoNode ELSE SlotReady(nodes, s)
  PROVE  /\ clientPc' # "crash"
         /\ bufferReady' \in 0 .. Slots
         /\ (IF bufferReady' = Slots THEN 0 ELSE bufferReady')
              = (IF filled = Slots THEN 0 ELSE filled)
         /\ \A s \in Slot : IF s < bufferReady' THEN nodes[s] # NoNode
                            ELSE SlotReady(nodes, s)
<1>0. Slots \in Nat /\ Slots # 0 /\ Slot = 0 .. Slots - 1
  BY SlotsAssumption DEF Slot
<1>1. ~(filled = Slots /\ ReadyMeetsNull(nodes))
  BY <1>0, SMT DEF ReadyMeetsNull
<1>2. clientPc' # "crash"
  BY <1>1, SMT DEF LeaveLocal
<1>3. CASE filled = Slots /\ cBufferReady(nodes)
  <2>1. bufferReady' = 0
    BY <1>3 DEF LeaveLocal
  <2>2. \A s \in Slot : SlotReady(nodes, s) /\ ~(s < bufferReady')
    BY <1>0, <1>3, <2>1 DEF cBufferReady, SlotReady
  <2> QED
    BY <1>0, <1>2, <1>3, <2>1, <2>2
<1>4. CASE ~(filled = Slots /\ cBufferReady(nodes))
  <2>1. bufferReady' = filled
    BY <1>4, SMT DEF LeaveLocal
  <2> QED
    BY <1>0, <1>2, <2>1
<1> QED
  BY <1>3, <1>4

\* The numbers in the list were given out since the daemon started.
NumbersGiven == \A s \in Slot : clientNodes[s].seq < sn

\* What the gate says of the client daemon.
ClientGate ==
  /\ NumbersGiven
  /\ OneSlotEach
  /\ AckedIsBelow
  /\ OutstandingKept
  /\ FilledInOrder
  /\ clientPc # "crash"

(* A step that leaves the numbers, the marks and the existence of all nodes as
   they are leaves the gate as it is. *)
LEMMA GateUntouched ==
  ASSUME TypeOK, ClientGate, UNCHANGED <<sn, sb, bufferReady, clientRing>>,
         clientPc' # "crash",
         \A s \in Slot : /\ clientNodes'[s].seq = clientNodes[s].seq
                         /\ clientNodes'[s].ack = clientNodes[s].ack
                         /\ clientNodes[s].seq = -1 => clientNodes'[s] = clientNodes[s]
  PROVE  ClientGate'
<1>1. NumbersGiven' /\ OneSlotEach' /\ AckedIsBelow' /\ OutstandingKept'
  BY DEF ClientGate, NumbersGiven, OneSlotEach, AckedIsBelow, OutstandingKept
<1>2. \A s \in Slot : clientNodes[s] = NoNode <=> clientNodes'[s] = NoNode
  <2>1. NoNode.seq = -1
    BY DEF NoNode
  <2> QED
    BY <2>1
<1>3. FilledInOrder'
  BY <1>2 DEF ClientGate, FilledInOrder, SlotReady
<1> QED
  BY <1>1, <1>3 DEF ClientGate

(* The client daemon fills the slots from the first on, each with the next
   number; marks the oldest number and moves sb past it; and finds a node for
   every number it transmits. *)
LEMMA ClientGateStep ==
  ASSUME TypeOK, ClientGate, ClientNext
  PROVE  ClientGate'
<1>0. /\ sn \in Nat /\ sb \in Nat /\ bufferReady \in Nat /\ armed \subseteq Nat
      /\ clientNodes \in [Slot -> Node] /\ clientRing \in Ring
      /\ Slots \in Nat /\ Slots # 0 /\ Slot = 0 .. Slots - 1
  BY SlotsAssumption DEF TypeOK, ClientTypeOK, Slot
<1>1. \A s \in Slot : clientNodes[s].seq \in Nat \cup {-1} /\ clientNodes[s].seq < sn
  BY <1>0, SMT DEF ClientGate, NumbersGiven, Node
<1>2. CASE RecvLocal
  <2> DEFINE end == clientRing.end
             filled == bufferReady + 1
  <2>1. bufferReady < Slots /\ end = bufferReady /\ end \in Slot
    BY <1>0, <1>2, SMT DEF RecvLocal, ClientGate, FilledInOrder
  <2>2. SlotReady(clientNodes, end)
    BY <1>0, <2>1 DEF ClientGate, FilledInOrder
  <2>3. /\ clientRing'.end = (end + 1) % Slots
        /\ clientNodes'[end].seq = sn
        /\ clientNodes'[end].ack = 0
        /\ \A s \in Slot \ {end} : clientNodes'[s] = clientNodes[s]
    BY <1>2, <2>2, FillsEnd
  <2>4. sn' = sn + 1 /\ sb' = sb
    BY <1>2 DEF RecvLocal
  <2>5. NumbersGiven' /\ OneSlotEach'
    <3>1. \A s \in Slot : clientNodes'[s].seq < sn + 1
      BY <1>0, <1>1, <2>3, SMT
    <3>2. OneSlotEach'
      BY <1>0, <1>1, <2>3, SMT DEF ClientGate, OneSlotEach
    <3> QED
      BY <2>4, <3>1, <3>2 DEF NumbersGiven
  <2>6. AckedIsBelow'
    BY <1>0, <2>3, <2>4, SMT DEF ClientGate, AckedIsBelow
  <2>7. OutstandingKept'
    <3>1. ASSUME NEW seq \in sb .. sn
          PROVE  \E s \in Slot : clientNodes'[s].seq = seq /\ clientNodes'[s].ack = 0
      <4>1. CASE seq = sn
        BY <2>1, <2>3, <4>1
      <4>2. CASE seq # sn
        <5>1. seq \in sb .. sn - 1
          BY <1>0, <4>2
        <5>2. PICK s \in Slot : clientNodes[s].seq = seq /\ clientNodes[s].ack = 0
          BY <5>1 DEF ClientGate, OutstandingKept
        <5>3. s # end
          BY <1>0, <2>2, <5>1, <5>2, SMT DEF SlotReady, NoNode
        <5> QED
          BY <2>3, <5>2, <5>3
      <4> QED
        BY <4>1, <4>2
    <3>2. sn' - 1 = sn
      BY <1>0, <2>4
    <3> QED
      BY <2>4, <3>1, <3>2 DEF OutstandingKept
  <2>8. \A s \in Slot : IF s < filled THEN clientNodes'[s] # NoNode
                        ELSE SlotReady(clientNodes', s)
    <3>1. clientNodes'[end] # NoNode
      BY <1>0, <2>3, SMT DEF NoNode
    <3>2. ASSUME NEW s \in Slot, s # end
          PROVE  /\ s < filled <=> s < bufferReady
                 /\ clientNodes'[s] = clientNodes[s]
      BY <1>0, <2>1, <2>3, <3>2
    <3>3. end < filled
      BY <1>0, <2>1
    <3> QED
      BY <3>1, <3>2, <3>3 DEF ClientGate, FilledInOrder, SlotReady
  <2>9. /\ clientPc' # "crash"
        /\ bufferReady' \in 0 .. Slots
        /\ (IF bufferReady' = Slots THEN 0 ELSE bufferReady')
             = (IF filled = Slots THEN 0 ELSE filled)
        /\ \A s \in Slot : IF s < bufferReady' THEN clientNodes'[s] # NoNode
                           ELSE SlotReady(clientNodes', s)
    <3>1. filled \in 0 .. Slots /\ LeaveLocal(filled, clientNodes')
      BY <1>0, <1>2, <2>1 DEF RecvLocal
    <3> QED
      BY <2>8, <3>1, GateOpens
  <2>10. (end + 1) % Slots = IF filled = Slots THEN 0 ELSE filled
    BY <2>1, WrapSlot
  <2>11. FilledInOrder'
    <3>1. clientRing'.end = IF bufferReady' = Slots THEN 0 ELSE bufferReady'
      BY <2>3, <2>9, <2>10, Zenon
    <3>2. bufferReady' <= Slots
      BY <1>0, <2>9
    <3> QED
      BY <2>9, <3>1, <3>2, Zenon DEF FilledInOrder
  <2> QED
    BY <2>5, <2>6, <2>7, <2>9, <2>11 DEF ClientGate
<1>3. CASE LocalTimeout \/ GateClosed
  <2>1. bufferReady \in 0 .. Slots /\ LeaveLocal(bufferReady, clientNodes)
    BY <1>0, <1>3 DEF LocalTimeout, GateClosed, ClientGate, FilledInOrder
  <2>2. /\ clientPc' # "crash"
        /\ bufferReady' \in 0 .. Slots
        /\ (IF bufferReady' = Slots THEN 0 ELSE bufferReady')
             = (IF bufferReady = Slots THEN 0 ELSE bufferReady)
        /\ \A s \in Slot : IF s < bufferReady' THEN clientNodes[s] # NoNode
                           ELSE SlotReady(clientNodes, s)
    BY <2>1, GateOpens DEF ClientGate, FilledInOrder
  <2>3. UNCHANGED <<sn, sb, clientRing, clientNodes>>
    BY <1>3 DEF LocalTimeout, GateClosed
  <2>4. NumbersGiven' /\ OneSlotEach' /\ AckedIsBelow' /\ OutstandingKept'
    BY <2>3 DEF ClientGate, NumbersGiven, OneSlotEach, AckedIsBelow, OutstandingKept
  <2>5. FilledInOrder'
    BY <1>0, <2>2, <2>3 DEF ClientGate, FilledInOrder, SlotReady
  <2> QED
    BY <2>2, <2>4, <2>5 DEF ClientGate
<1>4. ASSUME NEW ack \in ackNet, RecvAck(ack)
      PROVE  ClientGate'
  <2>1. /\ sb' = sb + 1 /\ ack - 1 = sb /\ clientPc' # "crash"
        /\ UNCHANGED <<sn, bufferReady, clientRing>>
    BY <1>0, <1>4, SMT DEF RecvAck, TypeOK, NetTypeOK
  <2>2. \A s \in Slot : /\ clientNodes'[s].seq = clientNodes[s].seq
                        /\ clientNodes'[s].ack = IF clientNodes[s].seq = sb THEN 1
                                                 ELSE clientNodes[s].ack
                        /\ clientNodes[s].seq # sb => clientNodes'[s] = clientNodes[s]
    <3>1. \A n \in Node : [n EXCEPT !.ack = 1].seq = n.seq /\ [n EXCEPT !.ack = 1].ack = 1
      BY Zenon DEF Node
    <3>2. clientNodes' = Acknowledged(sb)
      BY <1>4, <2>1 DEF RecvAck
    <3>3. ASSUME NEW s \in Slot
          PROVE  clientNodes'[s] = IF clientNodes[s].seq = sb
                                   THEN [clientNodes[s] EXCEPT !.ack = 1]
                                   ELSE clientNodes[s]
      BY <3>2 DEF Acknowledged, findNodeBySeq
    <3>4. \A s \in Slot : clientNodes[s] \in Node
      BY <1>0
    <3> QED
      BY <3>1, <3>3, <3>4
  <2>3. NumbersGiven' /\ OneSlotEach'
    BY <2>1, <2>2 DEF ClientGate, NumbersGiven, OneSlotEach
  <2>4. AckedIsBelow'
    BY <1>0, <1>1, <2>1, <2>2, SMT DEF ClientGate, AckedIsBelow
  <2>5. OutstandingKept'
    <3>1. ASSUME NEW seq \in sb + 1 .. sn - 1
          PROVE  \E s \in Slot : clientNodes'[s].seq = seq /\ clientNodes'[s].ack = 0
      <4>1. seq \in sb .. sn - 1 /\ seq # sb
        BY <1>0
      <4> QED
        BY <2>2, <4>1 DEF ClientGate, OutstandingKept
    <3> QED
      BY <2>1, <3>1 DEF OutstandingKept
  <2>6. ASSUME NEW s \in Slot
        PROVE  /\ clientNodes[s] # NoNode => clientNodes'[s] # NoNode
               /\ SlotReady(clientNodes, s) => SlotReady(clientNodes', s)
    <3>1. CASE clientNodes[s].seq = sb
      <4>1. clientNodes'[s].ack = 1 /\ NoNode.ack = 0
        BY <2>2, <3>1 DEF NoNode
      <4> QED
        BY <4>1 DEF SlotReady
    <3>2. CASE clientNodes[s].seq # sb
      BY <2>2, <3>2 DEF SlotReady
    <3> QED
      BY <3>1, <3>2
  <2>7. FilledInOrder'
    BY <2>1, <2>6 DEF ClientGate, FilledInOrder
  <2> QED
    BY <2>1, <2>3, <2>4, <2>5, <2>7 DEF ClientGate
<1>5. CASE \/ \E ack \in ackNet : RecvNak(ack)
           \/ \E seq \in Timeouts : RecvStaleTimeout(seq)
           \/ AckTimeout \/ NoTimeout \/ NothingToTransmit
  <2>1. /\ UNCHANGED <<sn, sb, bufferReady, clientRing, clientNodes>>
        /\ clientPc' # "crash"
    BY <1>5 DEF RecvNak, RecvStaleTimeout, AckTimeout, NoTimeout, NothingToTransmit
  <2> QED
    BY <2>1, GateUntouched
<1>6. ASSUME NEW seq \in sb .. sn - 1, NEW next, next # "crash", sendPacket(seq, next),
             UNCHANGED <<sn, sb, bufferReady, clientRing>>
      PROVE  ClientGate'
  <2>1. findNodeBySeq(clientNodes, seq) # {}
    BY DEF ClientGate, OutstandingKept, findNodeBySeq
  <2>2. clientPc' # "crash"
    BY <1>6, <2>1 DEF sendPacket
  <2>3. seq \in Nat /\ seq # -1
    BY <1>0
  <2>4. \A s \in Slot : /\ clientNodes'[s].seq = clientNodes[s].seq
                        /\ clientNodes'[s].ack = clientNodes[s].ack
                        /\ clientNodes[s].seq = -1 => clientNodes'[s] = clientNodes[s]
    BY <1>0, <1>6, <2>3, SendPacketNodes
  <2> QED
    BY <1>6, <2>2, <2>4, GateUntouched
<1>7. ASSUME NEW seq \in Timeouts, RecvTimeout(seq)
      PROVE  ClientGate'
  <2>1. seq \in sb .. sn - 1
    BY <1>0, <1>7, SMT DEF RecvTimeout, Outstanding, Timeouts
  <2>2. /\ sendPacket(seq, "transmit") /\ "transmit" # "crash"
        /\ UNCHANGED <<sn, sb, bufferReady, clientRing>>
    BY <1>7 DEF RecvTimeout
  <2> QED
    BY <1>6, <2>1, <2>2
<1>8. CASE Transmit
  <2>1. sb \in sb .. sn - 1
    BY <1>0, <1>8, SMT DEF Transmit
  <2>2. /\ sendPacket(sb, "recvLocal") /\ "recvLocal" # "crash"
        /\ UNCHANGED <<sn, sb, bufferReady, clientRing>>
    BY <1>8 DEF Transmit
  <2> QED
    BY <1>6, <2>1, <2>2
<1> QED
  BY <1>2, <1>3, <1>4, <1>5, <1>7, <1>8 DEF ClientNext

-------------------------------------------------------------------------------
(***************************************************************************)
(* The end of the file.                                                    *)
(***************************************************************************)

(* A block ends where the next one starts, or where the file does. *)
LEMMA BlockEnds ==
  ASSUME NEW n \in Nat, NEW k \in Nat, k * MSS < n
  PROVE  /\ k * MSS + DataMsg(n, k).bytes <= n
         /\ k * MSS + DataMsg(n, k).bytes < n
              => k * MSS + DataMsg(n, k).bytes = (k + 1) * MSS
         /\ k * MSS + DataMsg(n, k).bytes = n => ~HasBlock(n, k + 1)
<1>1. k * MSS \in Nat /\ (k + 1) * MSS = k * MSS + MSS
  BY MSSAssumption, SMT
<1>2. DataMsg(n, k).bytes = IF MSS < n - k * MSS THEN MSS ELSE n - k * MSS
  BY DEF DataMsg, MinOf
<1>3. ASSUME NEW a \in Nat, NEW b \in Nat, a < n,
             b = IF MSS < n - a THEN MSS ELSE n - a
      PROVE  /\ a + b <= n
             /\ a + b < n => a + b = a + MSS
             /\ a + b = n => ~(a + MSS < n)
  BY <1>3, MSSAssumption, SMT
<1>4. DataMsg(n, k).bytes \in Nat
  BY <1>1, <1>2, MSSAssumption, SMT
<1> QED
  BY <1>1, <1>2, <1>3, <1>4 DEF HasBlock

(* ftps closes the file after the last block, and not before. *)
LEMMA FtpsTotalsStep ==
  ASSUME NEW first \in Nat, TypeOK, ServerHop(first), FtpsHolds, FtpsTotals, FtpsNext,
         UNCHANGED file
  PROVE  FtpsTotals'
<1>0. /\ file \in Nat /\ rn \in Nat /\ amtReadTotal \in Nat
      /\ output \in Seq(Datagram) /\ Len(output) \in Nat
  BY FileSizesAssumption DEF TypeOK, FtpcTypeOK, ServerTypeOK, FtpsTypeOK
<1>7. /\ num_bytes \in Int /\ num_bytes <= file /\ num_bytes' = num_bytes
      /\ INT_MAX \in Nat /\ (file <= INT_MAX => num_bytes = file)
  BY <1>0, IntOfBounds, IntAssumption DEF num_bytes
<1>1. CASE StartFtps
  BY <1>1 DEF StartFtps, FtpsTotals
<1>2. CASE RecvSize
  BY <1>2 DEF RecvSize, FtpsTotals
<1>3. CASE RecvNameOpenFails
  BY <1>3 DEF RecvNameOpenFails, FtpsTotals
<1>4. CASE RecvName
  <2>1. fileSize = num_bytes /\ output = <<>> /\ amtReadTotal = 0
    BY <1>4 DEF RecvName, FtpsHolds, FtpsTotals
  <2>2. output' = <<>> /\ amtReadTotal' = 0 /\ file' = file
    BY <1>4, <2>1 DEF RecvName
  <2>3. ftpsPc' = IF 0 < num_bytes THEN "data" ELSE "done"
    BY <1>4, <2>1 DEF RecvName, ReadOn
  <2>4. Len(output') = 0 /\ 0 * MSS = 0
    BY <2>2, MSSAssumption, SMT
  <2> QED
    BY <1>0, <1>7, <2>2, <2>3, <2>4, SMT DEF FtpsTotals, HasBlock
<1>5. CASE RecvData
  <2> DEFINE k == Len(output)
             m == DataMsg(file, k)
  <2>1. ftpsPc = "data" /\ amtReadTotal = k * MSS /\ k * MSS < file
    <3>1. ftpsPc = "data" /\ amtReadTotal = k * MSS /\ amtReadTotal < num_bytes
      BY <1>5 DEF RecvData, FtpsTotals
    <3> QED
      BY <1>0, <1>7, <3>1
  <2>2. toFtps = <<Nth(Taken + 1)>>
    BY <1>5 DEF RecvData, ServerHop
  <2>3. Taken + 1 = k + 3
    BY <1>0, <2>1, <2>2, SMT DEF Taken
  <2>4. Head(toFtps) = m
    <3>1. Head(toFtps) = StreamMsg(file, k + 3)
      BY <2>2, <2>3 DEF Nth
    <3> QED
      BY <1>0, <3>1, StreamMsgParts
  <2>5. /\ amtReadTotal' = k * MSS + m.bytes
        /\ Len(output') = k + 1
        /\ file' = file
        /\ ftpsPc' = IF amtReadTotal' < fileSize THEN "data" ELSE "done"
    BY <1>0, <1>5, <2>1, <2>4 DEF RecvData, ReadOn
  <2>6. fileSize = num_bytes
    BY <2>1 DEF FtpsHolds
  <2>7. /\ amtReadTotal' <= file
        /\ amtReadTotal' < file => amtReadTotal' = (k + 1) * MSS
        /\ amtReadTotal' = file => ~HasBlock(file, k + 1)
    BY <1>0, <2>1, <2>5, BlockEnds
  <2>8. ~(amtReadTotal' < file) => amtReadTotal' = file
    <3>1. amtReadTotal' \in Nat
      BY <1>5, TypeStep, FtpsTypeStep DEF TypeOK, FtpsTypeOK
    <3> QED
      BY <1>0, <2>7, <3>1
  <2>9. amtReadTotal' \in Nat
    BY <1>5, TypeStep, FtpsTypeStep DEF TypeOK, FtpsTypeOK
  <2>10. ASSUME amtReadTotal' < num_bytes
         PROVE  ftpsPc' = "data" /\ amtReadTotal' = Len(output') * MSS
    BY <1>0, <1>7, <2>5, <2>6, <2>7, <2>9, <2>10
  <2>11. ASSUME ~(amtReadTotal' < num_bytes)
         PROVE  /\ ftpsPc' = "done" /\ amtReadTotal' >= num_bytes
                /\ file <= INT_MAX => amtReadTotal' = file /\ ~HasBlock(file, k + 1)
    BY <1>0, <1>7, <2>5, <2>6, <2>7, <2>8, <2>9, <2>11
  <2> QED
    BY <1>7, <2>5, <2>10, <2>11 DEF FtpsTotals
<1> QED
  BY <1>1, <1>2, <1>3, <1>4, <1>5, NoneTooShort DEF FtpsNext

-------------------------------------------------------------------------------
(***************************************************************************)
(* The two together, for any network.                                      *)
(***************************************************************************)

(* The buffer is empty and ftps has written nothing. *)
LEMMA GateInit == Init => GateInv
<1> SUFFICES ASSUME Init PROVE GateInv
  OBVIOUS
<1>1. /\ clientNodes = EmptyList /\ clientRing = EmptyRing /\ sn = 0 /\ sb = 0
      /\ bufferReady = 0 /\ clientPc = "recvLocal"
  BY DEF Init, ClientInit
<1>2. Slots # 0 /\ Slots \in Nat /\ Slot = 0 .. Slots - 1
  BY SlotsAssumption DEF Slot
<1>3. \A s \in Slot : clientNodes[s] = NoNode
  BY <1>1 DEF EmptyList
<1>4. OneSlotEach /\ AckedIsBelow
  BY <1>3 DEF OneSlotEach, AckedIsBelow, NoNode
<1>5. OutstandingKept
  BY <1>1 DEF OutstandingKept
<1>6. FilledInOrder
  BY <1>1, <1>2, <1>3 DEF FilledInOrder, SlotReady, EmptyRing
<1>7. FtpsTotals
  BY DEF Init, FtpsInit, FtpsTotals
<1> QED
  BY <1>1, <1>4, <1>5, <1>6, <1>7 DEF GateInv

(* No step of any process disturbs the gate or ftps' count. *)
LEMMA GateStep == TypeOK /\ IInv /\ GateInv /\ [Next]_vars => GateInv'
<1> SUFFICES ASSUME TypeOK, IInv, GateInv, [Next]_vars PROVE GateInv'
  OBVIOUS
<1>0. ClientGate
  <2>1. sn \in Nat /\ clientNodes \in [Slot -> Node]
    BY DEF TypeOK, ClientTypeOK
  <2>2. NumbersGiven
    BY <2>1, SMT DEF NumbersGiven, IInv, PathInv, SlotsHold, Carries
  <2> QED
    BY <2>2 DEF GateInv, ClientGate
<1>1. ASSUME UNCHANGED clientVars PROVE ClientGate'
  BY <1>0, <1>1 DEF ClientGate, NumbersGiven, OneSlotEach, AckedIsBelow, OutstandingKept,
              FilledInOrder, SlotReady, clientVars
<1>2. ASSUME UNCHANGED <<file, ftpsVars>> PROVE FtpsTotals'
  BY <1>2 DEF GateInv, FtpsTotals, num_bytes, ftpsVars
<1>3. CASE FtpcStep
  <2>1. file' = file
    BY <1>3, HandsOver DEF FtpcStep, IInv, PathInv
  <2> QED
    BY <1>1, <1>2, <1>3, <2>1 DEF FtpcStep, GateInv, ClientGate
<1>4. CASE ClientStep
  <2>1. ClientGate'
    BY <1>0, <1>4, ClientGateStep DEF ClientStep
  <2> QED
    BY <1>2, <1>4, <2>1 DEF ClientStep, GateInv, ClientGate, ftpcVars
<1>5. CASE ServerStep \/ UNCHANGED vars
  <2>1. UNCHANGED <<clientVars, file, ftpsVars>>
    BY <1>5 DEF ServerStep, vars, ftpcVars
  <2> QED
    BY <1>1, <1>2, <2>1 DEF GateInv, ClientGate
<1>6. CASE FtpsStep
  <2>1. FtpsTotals'
    BY <1>6, FtpsTotalsStep DEF FtpsStep, GateInv, IInv, PathInv, ftpcVars
  <2> QED
    BY <1>1, <1>6, <2>1 DEF FtpsStep, GateInv, ClientGate
<1> QED
  BY <1>3, <1>4, <1>5, <1>6 DEF Next

(* The invariant of the gate holds for every buffer size, file and network: since
   the gate was last opened the slots were filled from the first on, and a number
   keeps its slot until it is acknowledged. *)
THEOREM Gate == Spec => [](TypeOK /\ IInv /\ GateInv)
<1>1. TypeOK /\ IInv /\ GateInv /\ [Next]_vars => GateInv'
  BY GateStep
<1> QED
  BY <1>1, GateInit, Invariance, PTL DEF Spec

(* At the read from ftpc there is a ready slot, the one at end. *)
LEMMA LookupsSucceed ==
  ASSUME TypeOK, FilledInOrder, clientPc # "crash"
  PROVE  ListLookupsSucceed
<1>1. ASSUME bufferReady < Slots
      PROVE  SearchEnds(clientRing.end, clientNodes)
  <2>1. bufferReady \in Nat /\ Slots \in Nat /\ clientRing.end \in Slot
    BY SlotsAssumption DEF TypeOK, ClientTypeOK, Ring
  <2>2. clientRing.end = bufferReady
    BY <1>1, <2>1, SMT DEF FilledInOrder
  <2>3. SlotReady(clientNodes, clientRing.end)
    BY <2>1, <2>2 DEF FilledInOrder
  <2> QED
    BY <2>1, <2>3, EndIsReadySlot
<1> QED
  BY <1>1 DEF ListLookupsSucceed

(* The client daemon never dereferences the null pointer of a failed lookup, and
   the search for a ready slot ends: even if the network damages
   acknowledgements. *)
THEOREM Lookups == Spec => []ListLookupsSucceed
<1>1. TypeOK /\ GateInv => ListLookupsSucceed
  BY LookupsSucceed DEF GateInv
<1> QED
  BY <1>1, Gate, PTL

(* When ftps has closed the file it holds the whole of it, for every block size and
   every length that is an int, the empty file and a last block that is full among
   them.  A longer file is closed once as many bytes are there as the int says
   that its length became in ftpc. *)
THEOREM WholeFile == Spec => []FileComplete
<1>1. TypeOK /\ IInv /\ GateInv => FileComplete
  BY DEF GateInv, FtpsTotals, IInv, PathInv, FtpsHolds, FileComplete
<1> QED
  BY <1>1, Gate, PTL

-------------------------------------------------------------------------------
(***************************************************************************)
(* The window, when acknowledgements arrive undamaged.                     *)
(***************************************************************************)

(* A step that takes from the network at most, and leaves the counters and the
   nodes alone, leaves the window as it is. *)
LEMMA WindowUntouched ==
  ASSUME WindowInv, UNCHANGED <<sb, rn, serverPc, clientNodes>>,
         dataNet' \subseteq dataNet, armed' \subseteq armed,
         \A ack \in ackNet' : ack \in ackNet \/ ack = rn,
         rn \in Nat
  PROVE  WindowInv'
<1>1. Level' /\ NothingAhead'
  BY DEF WindowInv, Level, NothingAhead
<1>2. BaseWasSent' => BaseWasSent
  BY DEF BaseWasSent
<1>3. BaseIsTimed' /\ AckedWasTimed'
  BY <1>2 DEF WindowInv, BaseIsTimed, AckedWasTimed
<1> QED
  BY <1>1, <1>3 DEF WindowInv

\* No number is about that the client daemon has not given out.
NothingUnnumbered ==
  /\ rn <= sn
  /\ serverPc = "wait" => rn < sn
  /\ \A p \in dataNet : p.ok => p.seq < sn

(* The client daemon's steps: it takes an acknowledgement only for the number it
   transmitted, marks its node, and transmits no other. *)
LEMMA WindowClientStep ==
  ASSUME TypeOK, NothingUnnumbered, FilledInOrder, WindowInv, ClientNext,
         UNCHANGED <<rn, serverPc>>
  PROVE  WindowInv'
<1>0. /\ sn \in Nat /\ sb \in Nat /\ rn \in Nat /\ armed \subseteq Nat
      /\ dataNet \subseteq Packet /\ ackNet \subseteq Nat
      /\ clientNodes \in [Slot -> Node]
  BY DEF TypeOK, ClientTypeOK, ServerTypeOK, NetTypeOK
<1>1. CASE RecvLocal
  <2> DEFINE end == clientRing.end
  <2>1. SlotReady(clientNodes, end)
    <3>1. bufferReady < Slots /\ bufferReady \in Nat /\ Slots \in Nat /\ end \in Slot
      BY <1>1, SlotsAssumption DEF RecvLocal, TypeOK, ClientTypeOK, Ring
    <3>2. end = bufferReady
      BY <3>1, SMT DEF FilledInOrder
    <3> QED
      BY <3>1, <3>2 DEF FilledInOrder
  <2>2. /\ clientNodes'[end].seq = sn
        /\ clientNodes'[end].ack = 0
        /\ \A s \in Slot \ {end} : clientNodes'[s] = clientNodes[s]
    BY <1>1, <2>1, FillsEnd
  <2>3. UNCHANGED <<sb, dataNet, ackNet, armed>>
    BY <1>1 DEF RecvLocal, trollVars
  <2>4. Level' /\ NothingAhead'
    BY <2>3 DEF WindowInv, Level, NothingAhead
  <2>5. BaseWasSent' => BaseWasSent
    BY <2>3 DEF BaseWasSent
  <2>6. BaseWasSent => sn # sb
    BY <1>0, SMT DEF BaseWasSent, NothingUnnumbered
  <2>7. BaseIsTimed'
    BY <2>2, <2>3, <2>5, <2>6 DEF WindowInv, BaseIsTimed
  <2>8. AckedWasTimed'
    BY <2>2 DEF WindowInv, AckedWasTimed
  <2> QED
    BY <2>4, <2>7, <2>8 DEF WindowInv
<1>2. ASSUME NEW ack \in ackNet, RecvAck(ack)
      PROVE  WindowInv'
  <2>1. /\ sb' = sb + 1 /\ ack = sb + 1 /\ ack - 1 = sb
        /\ ackNet' \subseteq ackNet /\ armed' \subseteq armed /\ dataNet' = dataNet
    BY <1>0, <1>2 DEF RecvAck, canceltimer, Remainders
  <2>2. rn = sb + 1
    BY <1>0, <2>1, SMT DEF WindowInv, Level, NothingAhead
  <2>3. Level'
    BY <1>0, <2>1, <2>2, SMT DEF Level
  <2>4. NothingAhead'
    <3>1. \A p \in dataNet : p.ok => p.seq <= sb + 1
      BY <1>0, SMT DEF WindowInv, NothingAhead, Packet
    <3>2. \A seq \in armed : seq <= sb + 1
      BY <1>0, SMT DEF WindowInv, NothingAhead
    <3>3. serverPc = "wait" => rn <= sb + 1
      BY <1>0, <2>2
    <3>4. \A a \in ackNet : a <= rn
      BY DEF WindowInv, NothingAhead
    <3> QED
      BY <2>1, <3>1, <3>2, <3>3, <3>4 DEF NothingAhead
  <2>5. ~BaseWasSent'
    <3>1. ~(sb + 1 < rn)
      BY <1>0, <2>2
    <3>2. ~(serverPc = "wait" /\ rn = sb + 1)
      BY <1>0, SMT DEF WindowInv, NothingAhead
    <3>3. \A p \in dataNet : ~(p.ok /\ p.seq = sb + 1)
      BY <1>0, SMT DEF WindowInv, NothingAhead
    <3> QED
      BY <2>1, <3>1, <3>2, <3>3 DEF BaseWasSent
  <2>6. BaseWasSent
    BY <1>0, <2>2, SMT DEF BaseWasSent
  <2>7. \A s \in Slot : /\ clientNodes'[s].timed = clientNodes[s].timed
                        /\ clientNodes[s].seq # sb => clientNodes'[s] = clientNodes[s]
    <3>1. \A n \in Node : [n EXCEPT !.ack = 1].timed = n.timed
      BY Zenon DEF Node
    <3>2. clientNodes' = Acknowledged(sb)
      BY <1>2, <2>1 DEF RecvAck
    <3>3. \A s \in Slot : clientNodes'[s] = IF clientNodes[s].seq = sb
                                            THEN [clientNodes[s] EXCEPT !.ack = 1]
                                            ELSE clientNodes[s]
      BY <3>2 DEF Acknowledged, findNodeBySeq
    <3>4. \A s \in Slot : clientNodes[s] \in Node
      BY <1>0
    <3> QED
      BY <3>1, <3>3, <3>4
  <2>8. AckedWasTimed'
    BY <2>6, <2>7 DEF WindowInv, BaseIsTimed, AckedWasTimed
  <2> QED
    BY <2>3, <2>4, <2>5, <2>8 DEF WindowInv, BaseIsTimed
<1>3. CASE \/ \E ack \in ackNet : RecvNak(ack)
           \/ \E seq \in Timeouts : RecvStaleTimeout(seq)
           \/ LocalTimeout \/ GateClosed \/ AckTimeout \/ NoTimeout
           \/ NothingToTransmit
  <2>1. UNCHANGED <<sb, clientNodes, dataNet>>
    BY <1>3 DEF RecvNak, RecvStaleTimeout, LocalTimeout, GateClosed, AckTimeout,
                NoTimeout, NothingToTransmit, trollVars
  <2>2. ackNet' \subseteq ackNet /\ armed' \subseteq armed
    BY <1>3 DEF RecvNak, RecvStaleTimeout, LocalTimeout, GateClosed, AckTimeout,
                NoTimeout, NothingToTransmit, trollVars, Remainders, TimeoutRead
  <2> QED
    BY <1>0, <2>1, <2>2, WindowUntouched
<1>4. ASSUME NEW next, sendPacket(sb, next), starttimer(sb), UNCHANGED <<sb, ackNet>>
      PROVE  WindowInv'
  <2>1. /\ \A s \in Slot : /\ clientNodes'[s].seq = clientNodes[s].seq
                           /\ clientNodes'[s].ack = clientNodes[s].ack
                           /\ clientNodes[s].timed => clientNodes'[s].timed
                           /\ clientNodes[s].seq = sb => clientNodes'[s].timed
        /\ \A p \in dataNet' : p \in dataNet \/ ~p.ok \/ (p.ok /\ p.seq = sb)
    BY <1>0, <1>4, SendPacketNodes
  <2>2. Level'
    BY <1>4 DEF WindowInv, Level
  <2>3. NothingAhead'
    <3>1. \A p \in dataNet' : p.ok => p.seq <= sb
      BY <1>0, <2>1 DEF WindowInv, NothingAhead
    <3>2. \A seq \in armed' : seq <= sb
      BY <1>0, <1>4 DEF WindowInv, NothingAhead, starttimer
    <3> QED
      BY <1>4, <3>1, <3>2 DEF WindowInv, NothingAhead
  <2>4. BaseIsTimed' /\ AckedWasTimed'
    BY <1>4, <2>1 DEF WindowInv, BaseIsTimed, AckedWasTimed
  <2> QED
    BY <2>2, <2>3, <2>4 DEF WindowInv
<1>5. ASSUME NEW seq \in Timeouts, RecvTimeout(seq)
      PROVE  WindowInv'
  <2>1. seq = sb
    BY <1>0, <1>5, SMT DEF RecvTimeout, Outstanding, Timeouts, WindowInv, NothingAhead
  <2> QED
    BY <1>4, <1>5, <2>1 DEF RecvTimeout
<1>6. CASE Transmit
  BY <1>4, <1>6 DEF Transmit
<1> QED
  BY <1>1, <1>2, <1>3, <1>5, <1>6 DEF ClientNext

(* The server daemon's steps: it counts and acknowledges a datagram only while the
   client daemon still holds it. *)
LEMMA WindowServerStep ==
  ASSUME ~GarbleAcks, TypeOK, WindowInv, ServerNext,
         UNCHANGED <<sb, clientNodes, armed>>
  PROVE  WindowInv'
<1>0. sb \in Nat /\ rn \in Nat /\ ackNet \subseteq Nat /\ dataNet \subseteq Packet
  BY DEF TypeOK, ClientTypeOK, ServerTypeOK, NetTypeOK
<1>1. ASSUME NEW p \in dataNet, RecvCorrupt(p) \/ RecvUnexpected(p)
      PROVE  WindowInv'
  <2>1. /\ dataNet' \subseteq dataNet
        /\ \A ack \in ackNet' : ack \in ackNet \/ ack = rn
        /\ UNCHANGED <<rn, serverPc>>
    BY <1>1 DEF RecvCorrupt, RecvUnexpected, Remainders, AckFates, serverVars
  <2> QED
    BY <1>0, <2>1, WindowUntouched
<1>2. ASSUME NEW p \in dataNet, RecvExpected(p)
      PROVE  WindowInv'
  <2>1. /\ p.ok /\ p.seq = rn /\ serverPc' = "wait"
        /\ dataNet' \subseteq dataNet /\ UNCHANGED <<rn, ackNet>>
    BY <1>2 DEF RecvExpected, PassOn, Remainders
  <2>2. rn <= sb
    BY <2>1 DEF WindowInv, NothingAhead
  <2>3. Level' /\ NothingAhead'
    BY <2>1, <2>2 DEF WindowInv, Level, NothingAhead
  <2>4. BaseWasSent' => BaseWasSent
    BY <1>0, <2>1 DEF BaseWasSent
  <2>5. BaseIsTimed' /\ AckedWasTimed'
    BY <2>4 DEF WindowInv, BaseIsTimed, AckedWasTimed
  <2> QED
    BY <2>3, <2>5 DEF WindowInv
<1>3. CASE RecvFtpsAck
  <2>1. /\ serverPc = "wait" /\ rn' = rn + 1 /\ serverPc' = "recv" /\ dataNet' = dataNet
        /\ \A ack \in ackNet' : ack \in ackNet \/ ack = rn + 1
    BY <1>3 DEF RecvFtpsAck, AckFates
  <2>2. rn = sb
    BY <1>0, <2>1, SMT DEF WindowInv, Level, NothingAhead
  <2>3. Level'
    BY <1>0, <2>1, <2>2, SMT DEF Level
  <2>4. NothingAhead'
    <3>1. \A ack \in ackNet : ack <= rn + 1
      BY <1>0, SMT DEF WindowInv, NothingAhead
    <3>2. rn + 1 <= rn + 1
      BY <1>0
    <3>3. \A ack \in ackNet' : ack <= rn + 1
      BY <2>1, <3>1, <3>2
    <3> QED
      BY <2>1, <3>3 DEF WindowInv, NothingAhead
  <2>5. BaseWasSent
    BY <2>1, <2>2 DEF BaseWasSent
  <2>6. BaseIsTimed' /\ AckedWasTimed'
    BY <2>5 DEF WindowInv, BaseIsTimed, AckedWasTimed
  <2> QED
    BY <2>3, <2>4, <2>6 DEF WindowInv
<1> QED
  BY <1>1, <1>2, <1>3 DEF ServerNext

(* Nothing was sent. *)
LEMMA WindowInit == Init => WindowInv
<1> SUFFICES ASSUME Init PROVE WindowInv
  OBVIOUS
<1>1. /\ sb = 0 /\ rn = 0 /\ dataNet = {} /\ ackNet = {} /\ armed = {}
      /\ serverPc = "recv" /\ clientNodes = EmptyList
  BY DEF Init, ClientInit, ServerInit
<1>2. Level /\ NothingAhead /\ ~BaseWasSent
  BY <1>1, SMT DEF Level, NothingAhead, BaseWasSent
<1>3. AckedWasTimed
  BY <1>1 DEF AckedWasTimed, EmptyList, NoNode
<1> QED
  BY <1>2, <1>3 DEF WindowInv, BaseIsTimed

(* No step of any process disturbs the window. *)
LEMMA WindowStep ==
  ASSUME ~GarbleAcks, TypeOK, NothingUnnumbered, FilledInOrder, WindowInv, [Next]_vars
  PROVE  WindowInv'
<1>1. CASE FtpcStep \/ FtpsStep \/ UNCHANGED vars
  <2>1. UNCHANGED <<sb, rn, serverPc, clientNodes, dataNet, ackNet, armed>>
    BY <1>1 DEF FtpcStep, FtpsStep, vars, clientVars, serverVars, trollVars
  <2>2. rn \in Nat
    BY DEF TypeOK, ServerTypeOK
  <2> QED
    BY <2>1, <2>2, WindowUntouched
<1>2. CASE ClientStep
  BY <1>2, WindowClientStep DEF ClientStep, serverVars
<1>3. CASE ServerStep
  BY <1>3, WindowServerStep DEF ServerStep, clientVars
<1> QED
  BY <1>1, <1>2, <1>3 DEF Next

(* The path of a datagram leads over no number that was not given out. *)
LEMMA PathNumbered ==
  ASSUME NEW first \in Nat, TypeOK, PathInv(first)
  PROVE  NothingUnnumbered
<1>1. sn \in Nat
  BY DEF TypeOK, ClientTypeOK
<1> QED
  BY <1>1, SMT DEF PathInv, ServerHop, NetHolds, Carries, NothingUnnumbered

(* If acknowledgements arrive undamaged, the server daemon's count is the client
   daemon's or one ahead, nothing that travels is ahead of them, and what may be
   answered has its time noted. *)
THEOREM Window ==
  ASSUME ~GarbleAcks
  PROVE  Spec => [](TypeOK /\ IInv /\ GateInv /\ WindowInv)
<1>1. TypeOK /\ IInv /\ GateInv /\ WindowInv /\ [Next]_vars => WindowInv'
  <2>1. TypeOK /\ IInv => NothingUnnumbered
    <3>1. 0 \in Nat
      OBVIOUS
    <3> QED
      BY <3>1, PathNumbered DEF IInv
  <2> QED
    BY <2>1, WindowStep DEF GateInv
<1> QED
  BY <1>1, WindowInit, Gate, PTL DEF Spec

(* What ftps has read, counted along the path. *)
LEMMA PathCounts ==
  ASSUME NEW first \in Nat, TypeOK, PathInv(first)
  PROVE  /\ Len(Received) \in Nat /\ Handed \in Nat
         /\ rn <= first + Len(Received) /\ first + Len(Received) <= rn + 1
         /\ first + Len(Received) <= sn /\ sn <= first + Handed
<1>1. Taken \in Nat /\ Len(Received) = Taken
  BY ReceivedParts DEF PathInv
<1>2. rn \in Nat
  BY DEF TypeOK, ServerTypeOK
<1>3. rn <= first + Taken /\ first + Taken <= rn + 1
  BY <1>1, <1>2, SMT DEF PathInv, ServerHop
<1> QED
  BY <1>1, <1>3, TakenBounds

(* The same of the only transfer of FtpSystem. *)
LEMMA Counts ==
  ASSUME TypeOK, IInv
  PROVE  /\ Len(Received) \in Nat /\ Handed \in Nat
         /\ rn <= Len(Received) /\ Len(Received) <= rn + 1
         /\ Len(Received) <= sn /\ sn <= Handed
BY PathCounts, SMT DEF IInv

(* If acknowledgements arrive undamaged, the four counters along the path never
   contradict each other. *)
THEOREM Counters == ASSUME ~GarbleAcks PROVE Spec => []CountersAgree
<1>1. TypeOK /\ IInv /\ WindowInv => CountersAgree
  BY Counts DEF CountersAgree, WindowInv, Level
<1> QED
  BY <1>1, Window, PTL

(* The window invariant contains StopAndWait. *)
LEMMA InvStopAndWait == TypeOK /\ WindowInv => StopAndWait
<1> SUFFICES ASSUME TypeOK, WindowInv PROVE StopAndWait
  OBVIOUS
<1>1. sb \in Nat /\ rn \in Nat /\ ackNet \subseteq Nat
  BY DEF TypeOK, ClientTypeOK, ServerTypeOK, NetTypeOK
<1>2. \A ack \in ackNet : ack <= sb + 1
  BY <1>1, SMT DEF WindowInv, Level, NothingAhead
<1> QED
  BY <1>2 DEF StopAndWait, WindowInv, Level, NothingAhead

(* If acknowledgements arrive undamaged, the daemons work one datagram at a time,
   whatever window the client daemon declares. *)
THEOREM OneAtATime == ASSUME ~GarbleAcks PROVE Spec => []StopAndWait
BY InvStopAndWait, Window, PTL

(* The gate keeps a slot for each datagram that is not acknowledged, and what is
   acknowledged was read. *)
LEMMA InvUnread == TypeOK /\ IInv /\ GateInv /\ WindowInv => UnreadIsBuffered
<1> SUFFICES ASSUME TypeOK, IInv, GateInv, WindowInv,
                    NEW seq \in Len(Received) .. sn - 1
             PROVE  \E s \in Slot :
                      /\ findNodeBySeq(clientNodes, seq) = {s}
                      /\ clientNodes[s].ack = 0
                      /\ clientRing.cBuffer[s] = StreamMsg(file, seq + 1).body
                      /\ clientNodes[s].bytes = StreamMsg(file, seq + 1).bytes
  BY DEF UnreadIsBuffered
<1>1. sb \in Nat /\ rn \in Nat /\ sn \in Nat
  BY DEF TypeOK, ClientTypeOK, ServerTypeOK
<1>2. seq \in sb .. sn - 1 /\ seq # -1
  BY <1>1, Counts DEF WindowInv, Level
<1>3. PICK s \in Slot : clientNodes[s].seq = seq /\ clientNodes[s].ack = 0
  BY <1>2 DEF GateInv, OutstandingKept
<1>4. findNodeBySeq(clientNodes, seq) = {s}
  BY <1>2, <1>3 DEF GateInv, OneSlotEach, findNodeBySeq
<1>5. /\ clientRing.cBuffer[s] = Nth(seq + 1).body
      /\ clientNodes[s].bytes = Nth(seq + 1).bytes
  <2>1. seq >= 0 /\ seq - 0 + 1 = seq + 1
    BY <1>1, <1>2
  <2> QED
    BY <1>2, <1>3, <2>1 DEF IInv, PathInv, SlotsHold, Carries
<1> QED
  BY <1>3, <1>4, <1>5 DEF Nth

(* If acknowledgements arrive undamaged, a datagram that ftps has not read can
   still be retransmitted: one slot holds it, unacknowledged and unaltered. *)
THEOREM Unread == ASSUME ~GarbleAcks PROVE Spec => []UnreadIsBuffered
BY InvUnread, Window, PTL

(* If acknowledgements arrive undamaged, a round-trip time is only computed from a
   time that sendPacket has stored since the slot was filled. *)
THEOREM Timed == ASSUME ~GarbleAcks PROVE Spec => []AckedWasTimed
<1>1. WindowInv => AckedWasTimed
  BY DEF WindowInv
<1> QED
  BY <1>1, Window, PTL

(* Only the read from ftpc gives a slot another number, and it takes a slot that is
   acknowledged. *)
LEMMA ReuseStep ==
  ASSUME TypeOK, IInv, GateInv, WindowInv, Next,
         NEW s \in Slot, clientNodes[s].seq >= 0, clientNodes'[s].seq # clientNodes[s].seq
  PROVE  clientNodes[s].seq < Len(Received)
<1>0. /\ sb \in Nat /\ rn \in Nat /\ sn \in Nat /\ armed \subseteq Nat
      /\ clientNodes \in [Slot -> Node] /\ clientNodes[s].seq \in Int
  BY SMT DEF TypeOK, ClientTypeOK, ServerTypeOK, Node
<1>1. ClientNext
  BY DEF Next, FtpcStep, ClientStep, ServerStep, FtpsStep, clientVars
<1>2. CASE RecvLocal
  <2> DEFINE end == clientRing.end
  <2>1. SlotReady(clientNodes, end)
    <3>1. bufferReady < Slots /\ bufferReady \in Nat /\ Slots \in Nat /\ end \in Slot
      BY <1>2, SlotsAssumption DEF RecvLocal, TypeOK, ClientTypeOK, Ring
    <3>2. end = bufferReady
      BY <3>1, SMT DEF GateInv, FilledInOrder
    <3> QED
      BY <3>1, <3>2 DEF GateInv, FilledInOrder
  <2>2. s = end
    BY <1>2, <2>1, FillsEnd
  <2>3. clientNodes[s].ack = 1
    BY <1>0, <2>1, <2>2, SMT DEF SlotReady, NoNode
  <2>4. clientNodes[s].seq < sb
    BY <2>3 DEF GateInv, AckedIsBelow
  <2> QED
    BY <1>0, <2>4, Counts DEF WindowInv, Level
<1>3. ASSUME \A t \in Slot : clientNodes'[t].seq = clientNodes[t].seq
      PROVE  FALSE
  BY <1>3
<1>4. ASSUME NEW ack \in ackNet, RecvAck(ack)
      PROVE  FALSE
  <2>1. \A n \in Node : [n EXCEPT !.ack = 1].seq = n.seq
    BY Zenon DEF Node
  <2>2. \A t \in Slot : clientNodes[t] \in Node
    BY <1>0
  <2> QED
    BY <1>3, <1>4, <2>1, <2>2 DEF RecvAck, Acknowledged
<1>5. ASSUME NEW seq \in Nat, NEW next, sendPacket(seq, next)
      PROVE  FALSE
  BY <1>0, <1>3, <1>5, SendPacketNodes
<1>6. ASSUME NEW seq \in Timeouts, RecvTimeout(seq)
      PROVE  FALSE
  BY <1>0, <1>5, <1>6 DEF RecvTimeout, Timeouts
<1>7. CASE Transmit
  BY <1>0, <1>5, <1>7 DEF Transmit
<1>8. CASE \/ \E ack \in ackNet : RecvNak(ack)
           \/ \E seq \in Timeouts : RecvStaleTimeout(seq)
           \/ LocalTimeout \/ GateClosed \/ AckTimeout \/ NoTimeout
           \/ NothingToTransmit
  BY <1>8 DEF RecvNak, RecvStaleTimeout, LocalTimeout, GateClosed, AckTimeout,
              NoTimeout, NothingToTransmit
<1> QED
  BY <1>1, <1>2, <1>4, <1>6, <1>7, <1>8 DEF ClientNext

(* If acknowledgements arrive undamaged, a slot of the client's buffer is filled
   anew only after ftps has read the datagram it held. *)
THEOREM Reuse == ASSUME ~GarbleAcks PROVE Spec => ReuseAfterRead
<1>1. TypeOK /\ IInv /\ GateInv /\ WindowInv /\ [Next]_vars
        => [\A s \in Slot :
              clientNodes[s].seq >= 0 /\ clientNodes'[s].seq # clientNodes[s].seq
                => clientNodes[s].seq < Len(Received)]_vars
  BY ReuseStep
<1> QED
  BY <1>1, Window, PTL DEF Spec, ReuseAfterRead
===============================================================================
