--------------------------- MODULE FtpSystemProofs ---------------------------
(***************************************************************************)
(* Theorems about FtpSystem for every file, block size, buffer size,       *)
(* network and start order of ftps.                                        *)
(***************************************************************************)
EXTENDS FtpSystemInv, TLAPS

-------------------------------------------------------------------------------
(***************************************************************************)
(* Lemmas about the operators.                                             *)
(***************************************************************************)

(* Positions wrap around to slots. *)
LEMMA ModSlot ==
  ASSUME NEW a \in Nat
  PROVE  a % Slots \in Slot
BY SlotsAssumption, SMT DEF Slot

(* A block of the file has a length: n - k * MSS is a number of bytes. *)
LEMMA DataMsgType ==
  ASSUME NEW n \in Nat, NEW k \in Nat, HasBlock(n, k)
  PROVE  DataMsg(n, k) \in Message
<1>1. k * MSS \in Nat
  BY MSSAssumption, SMT
<1>2. n - k * MSS \in Nat
  BY <1>1, SMT DEF HasBlock
<1> QED
  BY <1>1, <1>2, MSSAssumption, SMT DEF DataMsg, Message, Body, MinOf

(* The conversion to int keeps what fits, and never makes a length larger. *)
LEMMA IntOfBounds ==
  ASSUME NEW n \in Nat
  PROVE  /\ IntOf(n) \in Int /\ IntOf(n) <= n
         /\ n <= INT_MAX => IntOf(n) = n
<1>1. IntOf(n) \in Int /\ IntOf(n) <= n
  BY IntAssumption, SMT DEF IntOf
<1>2. n <= INT_MAX => IntOf(n) = n
  BY IntAssumption, SMT DEF IntOf
<1> QED
  BY <1>1, <1>2

(* The size is a full datagram, whatever the size. *)
LEMMA SizeMsgType == ASSUME NEW n \in Nat PROVE SizeMsg(n) \in Message
BY MSSAssumption, IntOfBounds DEF SizeMsg, Message, Body

(* So is the name. *)
LEMMA NameMsgType == ASSUME NEW n \in Nat PROVE NameMsg(n) \in Message
BY MSSAssumption DEF NameMsg, Message, Body

(* The search of AddToBuffer returns a slot. *)
LEMMA ReadySlotType ==
  ASSUME NEW end \in Slot, NEW nodes, SearchEnds(end, nodes)
  PROVE  ReadySlot(end, nodes) \in Slot
<1>1. (CHOOSE k \in Slot : SearchStops(end, nodes, k)) \in Slot
  BY DEF SearchEnds
<1>2. end + (CHOOSE k \in Slot : SearchStops(end, nodes, k)) \in Nat
  BY <1>1, SlotsAssumption, SMT DEF Slot
<1> QED
  BY <1>2, ModSlot DEF ReadySlot

(* The copy that both AddToBuffer functions end in leaves a circular buffer with
   its three counters in range. *)
LEMMA CopyInType ==
  ASSUME NEW ring \in Ring, NEW slot \in Slot, NEW p \in Body \cup {NoBody}
  PROVE  CopyIn(ring, slot, p) \in Ring
<1>1. slot + 1 \in Nat /\ ring.start + 1 \in Nat
  BY SlotsAssumption, SMT DEF Slot, Ring
<1>2. (slot + 1) % Slots \in Slot /\ (ring.start + 1) % Slots \in Slot
  BY <1>1, ModSlot
<1> QED
  BY <1>2, SMT DEF CopyIn, Ring

(* GetFromBuffer leaves a circular buffer, whose active does not go below zero,
   and returns a body or the null pointer. *)
LEMMA GetFromBufferType ==
  ASSUME NEW ring \in Ring
  PROVE  /\ GetFromBuffer(ring) \in Ring
         /\ FrontOf(ring) \in Body \cup {NoBody}
<1>1. ring.start + 1 \in Nat
  BY SlotsAssumption, SMT DEF Slot, Ring
<1>2. (ring.start + 1) % Slots \in Slot
  BY <1>1, ModSlot
<1>3. ring.active # 0 => ring.active - 1 \in Nat
  BY SMT DEF Ring
<1>4. ring.active # 0
        => [ring EXCEPT !.start = (ring.start + 1) % Slots, !.active = @ - 1] \in Ring
  BY <1>2, <1>3, Zenon DEF Ring
<1>5. FrontOf(ring) \in Body \cup {NoBody}
  BY SMT DEF FrontOf, Ring
<1> QED
  BY <1>4, <1>5 DEF GetFromBuffer

(* insertNode leaves a list of nodes. *)
LEMMA insertNodeType ==
  ASSUME NEW nodes \in [Slot -> Node], NEW slot \in Slot, NEW bytes \in Nat,
         NEW seq \in Nat
  PROVE  insertNode(nodes, slot, bytes, seq) \in [Slot -> Node]
BY SMT DEF insertNode, Node

(* What the network makes of a packet or an acknowledgement. *)
LEMMA DataFatesType ==
  ASSUME dataNet \subseteq Packet, NEW p \in Packet, NEW net \in DataFates(p)
  PROVE  net \subseteq Packet
<1>1. Garbled \in Packet
  BY DEF Garbled, Packet, NoBody
<1> QED
  BY <1>1 DEF DataFates

(* What the network makes of an acknowledgement, a damaged one included, is
   numbers. *)
LEMMA AckFatesType ==
  ASSUME ackNet \subseteq Nat, NEW a \in Nat, NEW net \in AckFates(a)
  PROVE  net \subseteq Nat
BY AckNosAssumption, SMT DEF AckFates

-------------------------------------------------------------------------------
(***************************************************************************)
(* Type correctness.  One lemma per process; each action has a step.       *)
(***************************************************************************)

(* The processes start with variables of their types. *)
LEMMA TypeInit == Init => TypeOK
<1> SUFFICES ASSUME Init PROVE TypeOK
  OBVIOUS
<1>1. FtpcTypeOK /\ ClientHopTypeOK
  BY DEF Init, FtpcInit, FtpcTypeOK, ClientHopTypeOK, FtpcPcs
<1>2. EmptyRing \in Ring /\ EmptyList \in [Slot -> Node]
  BY SlotsAssumption, SMT DEF EmptyRing, EmptyList, Ring, Node, NoNode, NoBody, Slot
<1>3. ClientTypeOK /\ NetTypeOK
  BY <1>2 DEF Init, ClientInit, ClientTypeOK, NetTypeOK, ClientPcs
<1>4. ServerTypeOK /\ ServerHopTypeOK
  BY <1>2, ServerFirstAssumption
  DEF Init, ServerInit, FtpsInit, ServerTypeOK, ServerHopTypeOK, ServerPcs
<1>5. FtpsTypeOK
  BY DEF Init, FtpsInit, FtpsTypeOK, FtpsPcs, NoName
<1> QED
  BY <1>1, <1>3, <1>4, <1>5 DEF TypeOK

(* ftpc keeps the types of its state and of its hop to the client daemon. *)
LEMMA FtpcTypeStep ==
  ASSUME FtpcTypeOK, ClientHopTypeOK, FtpcNext
  PROVE  FtpcTypeOK' /\ ClientHopTypeOK'
<1> USE DEF FtpcTypeOK, ClientHopTypeOK, FtpcPcs
<1>0. file \in Nat
  BY FileSizesAssumption
<1>1. CASE SendSize
  BY <1>0, <1>1, SizeMsgType DEF SendSize, Send
<1>2. CASE SendName
  BY <1>0, <1>2, NameMsgType DEF SendName, Send
<1>3. CASE SendBlock
  BY <1>0, <1>3, DataMsgType DEF SendBlock, Send
<1>4. CASE Finish
  BY <1>4 DEF Finish, clientHop
<1>5. ASSUME NEW at \in FtpcPcs, NEW next \in FtpcPcs, RecvTcpdAck(at, next)
      PROVE  FtpcTypeOK' /\ ClientHopTypeOK'
  BY <1>5, SMT DEF RecvTcpdAck
<1> QED
  BY <1>1, <1>2, <1>3, <1>4, <1>5 DEF FtpcNext

(* What a transmission by the client daemon leaves typed. *)
LEMMA SendPacketType ==
  ASSUME ClientTypeOK, NetTypeOK, NEW seq \in Nat, NEW next \in ClientPcs,
         sendPacket(seq, next)
  PROVE  /\ dataNet' \subseteq Packet
         /\ clientNodes' \in [Slot -> Node]
         /\ clientPc' \in ClientPcs
<1> DEFINE found == findNodeBySeq(clientNodes, seq)
<1>1. \A s \in Slot : clientNodes[s].seq # -1 => PacketOf(s) \in Packet
  BY SMT DEF PacketOf, Packet, ClientTypeOK, Ring, Node
<1>2. \A s \in found : s \in Slot /\ PacketOf(s) \in Packet
  BY <1>1, SMT DEF findNodeBySeq
<1>3. dataNet' \subseteq Packet
  <2>1. CASE found = {}
    BY <2>1 DEF sendPacket, NetTypeOK
  <2>2. CASE found # {}
    <3>1. PICK s \in found : dataNet' \in DataFates(PacketOf(s))
      BY <2>2 DEF sendPacket
    <3> QED
      BY <3>1, <1>2, DataFatesType DEF NetTypeOK
  <2> QED
    BY <2>1, <2>2
<1>4. clientNodes' \in [Slot -> Node]
  <2>1. \A s \in Slot : [clientNodes[s] EXCEPT !.timed = TRUE] \in Node
    BY Zenon DEF ClientTypeOK, Node
  <2>2. \A s \in Slot : clientNodes[s] \in Node
    BY DEF ClientTypeOK
  <2> QED
    BY <2>1, <2>2 DEF sendPacket
<1>5. clientPc' \in ClientPcs
  BY DEF sendPacket, ClientPcs
<1> QED
  BY <1>3, <1>4, <1>5

(* The work after the read from ftpc leaves the loop's variables typed. *)
LEMMA LeaveLocalType ==
  ASSUME ClientTypeOK, NEW filled \in Nat, NEW nodes, LeaveLocal(filled, nodes)
  PROVE  /\ clientPc' \in ClientPcs
         /\ bufferReady' \in Nat
         /\ firstRun' \in BOOLEAN
         /\ localTimeo' \in BOOLEAN
BY DEF LeaveLocal, ClientPcs, ClientTypeOK

(* The client daemon keeps the types of its state, the network and its hop. *)
LEMMA ClientTypeStep ==
  ASSUME ClientTypeOK, NetTypeOK, ClientHopTypeOK, ClientNext
  PROVE  ClientTypeOK' /\ NetTypeOK' /\ ClientHopTypeOK'
<1>1. CASE RecvLocal
  <2>1. toTcpd # <<>> /\ Head(toTcpd) \in Message /\ Tail(toTcpd) \in Seq(Message)
    BY <1>1 DEF RecvLocal, ClientHopTypeOK
  <2> DEFINE m    == Head(toTcpd)
             slot == ReadySlot(clientRing.end, clientNodes)
  <2>2. slot \in Slot
    BY <1>1, ReadySlotType DEF RecvLocal, ClientTypeOK, Ring
  <2>3. m.body \in Body \cup {NoBody} /\ m.bytes \in Nat
    BY <2>1 DEF Message
  <2>4. clientRing' \in Ring
    BY <1>1, <2>2, <2>3, CopyInType DEF RecvLocal, AddToBuffer, ClientTypeOK
  <2>5. clientNodes' \in [Slot -> Node]
    BY <1>1, <2>2, <2>3, insertNodeType DEF RecvLocal, ClientTypeOK
  <2>6. bufferReady + 1 \in Nat /\ LeaveLocal(bufferReady + 1, clientNodes')
    BY <1>1 DEF RecvLocal, ClientTypeOK
  <2>7. /\ clientPc' \in ClientPcs /\ bufferReady' \in Nat
        /\ firstRun' \in BOOLEAN /\ localTimeo' \in BOOLEAN
    BY <2>6, LeaveLocalType
  <2>8. sn' \in Nat /\ ftpcAcks' \in Nat /\ toTcpd' \in Seq(Message)
    BY <1>1, <2>1 DEF RecvLocal, ClientTypeOK, ClientHopTypeOK
  <2> QED
    BY <1>1, <2>4, <2>5, <2>7, <2>8
    DEF RecvLocal, ClientTypeOK, ClientHopTypeOK, NetTypeOK, trollVars
<1>2. CASE LocalTimeout \/ GateClosed
  <2>1. LeaveLocal(bufferReady, clientNodes) /\ bufferReady \in Nat
    BY <1>2 DEF LocalTimeout, GateClosed, ClientTypeOK
  <2>2. /\ clientPc' \in ClientPcs /\ bufferReady' \in Nat
        /\ firstRun' \in BOOLEAN /\ localTimeo' \in BOOLEAN
    BY <2>1, LeaveLocalType
  <2> QED
    BY <1>2, <2>2 DEF LocalTimeout, GateClosed, ClientTypeOK, ClientHopTypeOK,
                      NetTypeOK, trollVars, clientHop
<1>3. ASSUME NEW ack \in ackNet, RecvAck(ack)
      PROVE  ClientTypeOK' /\ NetTypeOK' /\ ClientHopTypeOK'
  <2>1. \A s \in Slot : /\ clientNodes[s] \in Node
                        /\ [clientNodes[s] EXCEPT !.ack = 1] \in Node
    BY Zenon DEF ClientTypeOK, Node
  <2>2. clientNodes' \in [Slot -> Node]
    BY <1>3, <2>1 DEF RecvAck, Acknowledged, Acknowledged
  <2>3. armed' \subseteq Nat
    BY <1>3 DEF RecvAck, Acknowledged, canceltimer, ClientTypeOK
  <2>4. ackNet' \subseteq Nat /\ sb' \in Nat
    BY <1>3 DEF RecvAck, Acknowledged, Remainders, NetTypeOK
  <2> QED
    BY <1>3, <2>2, <2>3, <2>4
    DEF RecvAck, Acknowledged, ClientTypeOK, ClientHopTypeOK, NetTypeOK, clientHop, ClientPcs
<1>4. ASSUME NEW ack \in ackNet, RecvNak(ack)
      PROVE  ClientTypeOK' /\ NetTypeOK' /\ ClientHopTypeOK'
  BY <1>4 DEF RecvNak, Remainders, ClientTypeOK, ClientHopTypeOK, NetTypeOK, clientHop,
              ClientPcs
<1>5. CASE AckTimeout \/ NoTimeout \/ NothingToTransmit
  BY <1>5 DEF AckTimeout, NoTimeout, NothingToTransmit, ClientTypeOK, ClientHopTypeOK,
              NetTypeOK, clientHop, trollVars, ClientPcs
<1>6. ASSUME NEW seq \in Timeouts, RecvTimeout(seq)
      PROVE  ClientTypeOK' /\ NetTypeOK' /\ ClientHopTypeOK'
  <2>1. seq \in Nat /\ "transmit" \in ClientPcs /\ sendPacket(seq, "transmit")
    BY <1>6 DEF RecvTimeout, Timeouts, ClientTypeOK, ClientPcs
  <2> QED
    BY <1>6, <2>1, SendPacketType
    DEF RecvTimeout, starttimer, ClientTypeOK, ClientHopTypeOK, NetTypeOK, clientHop
<1>7. ASSUME NEW seq \in Timeouts, RecvStaleTimeout(seq)
      PROVE  ClientTypeOK' /\ NetTypeOK' /\ ClientHopTypeOK'
  BY <1>7 DEF RecvStaleTimeout, TimeoutRead, ClientTypeOK, ClientHopTypeOK, NetTypeOK,
              clientHop, trollVars, ClientPcs
<1>8. CASE Transmit
  <2>1. sb \in Nat /\ "recvLocal" \in ClientPcs /\ sendPacket(sb, "recvLocal")
    BY <1>8 DEF Transmit, ClientTypeOK, ClientPcs
  <2> QED
    BY <1>8, <2>1, SendPacketType
    DEF Transmit, starttimer, ClientTypeOK, ClientHopTypeOK, NetTypeOK, clientHop
<1> QED
  BY <1>1, <1>2, <1>3, <1>4, <1>5, <1>6, <1>7, <1>8 DEF ClientNext

(* So does the server daemon. *)
LEMMA ServerTypeStep ==
  ASSUME ServerTypeOK, NetTypeOK, ServerHopTypeOK, ServerNext
  PROVE  ServerTypeOK' /\ NetTypeOK' /\ ServerHopTypeOK'
<1>1. ASSUME NEW p \in dataNet, RecvCorrupt(p) \/ RecvUnexpected(p)
      PROVE  ServerTypeOK' /\ NetTypeOK' /\ ServerHopTypeOK'
  <2>1. ackNet' \subseteq Nat
    BY <1>1, AckFatesType DEF RecvCorrupt, RecvUnexpected, ServerTypeOK, NetTypeOK
  <2>2. dataNet' \subseteq Packet
    BY <1>1 DEF RecvCorrupt, RecvUnexpected, Remainders, NetTypeOK
  <2> QED
    BY <1>1, <2>1, <2>2 DEF RecvCorrupt, RecvUnexpected, serverVars, serverHop,
                            ServerTypeOK, ServerHopTypeOK, NetTypeOK
<1>2. ASSUME NEW p \in dataNet, RecvExpected(p)
      PROVE  ServerTypeOK' /\ NetTypeOK' /\ ServerHopTypeOK'
  <2>1. p.body \in Body \cup {NoBody} /\ p.bytes \in Nat
    BY DEF NetTypeOK, Packet
  <2>2. current \in Slot /\ 0 \in Nat
    BY SlotsAssumption, SMT DEF current, Slot
  <2>3. serverNodes' \in [Slot -> Node]
    BY <1>2, <2>1, <2>2, insertNodeType DEF RecvExpected, PassOn, ServerTypeOK
  <2> DEFINE filled == AddToBufferForServer(serverRing, p.body)
             forwarded == [body  |-> FrontOf(filled),
                           bytes |-> serverNodes'[current].bytes]
  <2>4. filled \in Ring
    BY <2>1, CopyInType DEF AddToBufferForServer, ServerTypeOK, Ring
  <2>5. serverRing' \in Ring /\ forwarded \in Datagram
    BY <1>2, <2>2, <2>3, <2>4, GetFromBufferType DEF RecvExpected, PassOn, Datagram, Node
  <2>6. toFtps' \in Seq(Datagram)
    BY <1>2, <2>5 DEF RecvExpected, PassOn, Forward, ServerHopTypeOK
  <2>7. dataNet' \subseteq Packet
    BY <1>2 DEF RecvExpected, PassOn, Remainders, NetTypeOK
  <2> QED
    BY <1>2, <2>3, <2>5, <2>6, <2>7
    DEF RecvExpected, PassOn, ServerTypeOK, ServerHopTypeOK, NetTypeOK, ServerPcs
<1>3. CASE RecvFtpsAck
  <2>1. ackNet' \subseteq Nat
    BY <1>3, AckFatesType DEF RecvFtpsAck, ServerTypeOK, NetTypeOK
  <2> QED
    BY <1>3, <2>1
    DEF RecvFtpsAck, ServerTypeOK, ServerHopTypeOK, NetTypeOK, ServerPcs
<1> QED
  BY <1>1, <1>2, <1>3 DEF ServerNext

(* ftps keeps the types of its state and of its hop to the server daemon. *)
LEMMA FtpsTypeStep ==
  ASSUME FtpsTypeOK, ServerHopTypeOK, FtpsNext
  PROVE  FtpsTypeOK' /\ ServerHopTypeOK'
<1>1. ASSUME toFtps # <<>>
      PROVE  /\ Head(toFtps) \in Datagram
             /\ Tail(toFtps) \in Seq(Datagram)
             /\ SizesIn(Head(toFtps).body) \subseteq Int
             /\ Head(toFtps).bytes \in Nat
             /\ Head(toFtps).body \in Body \cup {NoName}
  <2>1. Head(toFtps) \in Datagram /\ Tail(toFtps) \in Seq(Datagram)
    BY <1>1 DEF ServerHopTypeOK
  <2>2. \A m \in Datagram : /\ m.body.val \in Int /\ m.bytes \in Nat
                            /\ m.body \in Body \cup {NoName}
    BY DEF Datagram, Body, NoBody, NoName
  <2> QED
    BY <2>1, <2>2, OddSizesAssumption DEF SizesIn
<1>2. CASE StartFtps
  BY <1>2 DEF StartFtps, FtpsTypeOK, ServerHopTypeOK, FtpsPcs
<1>3. CASE RecvSize
  BY <1>1, <1>3 DEF RecvSize, FtpsTypeOK, ServerHopTypeOK, FtpsPcs
<1>4. ASSUME toFtps # <<>>, NEW total \in Nat, ReadOn(total)
      PROVE  ftpsPc' \in FtpsPcs /\ ftpsBound' \in BOOLEAN /\ toFtps' \in Seq(Datagram)
  BY <1>1, <1>4 DEF ReadOn, FtpsPcs
<1>5. CASE RecvName
  BY <1>1, <1>4, <1>5 DEF RecvName, FtpsTypeOK, ServerHopTypeOK
<1>6. CASE RecvNameOpenFails
  <2>1. toFtps' \in Seq(Datagram)
    BY <1>6 DEF RecvNameOpenFails
  <2>2. ftpsPc' \in FtpsPcs /\ ftpsBound' \in BOOLEAN
    BY <1>6 DEF RecvNameOpenFails, FtpsPcs
  <2> QED
    BY <1>1, <1>6, <2>1, <2>2 DEF RecvNameOpenFails, FtpsTypeOK, ServerHopTypeOK
<1>8. CASE RecvShort
  <2>1. /\ toFtps' = <<>> /\ ftpsPc' = "failed" /\ ftpsBound' = FALSE
        /\ UNCHANGED <<fileSize, fileName, amtReadTotal, output, ftpsAcks>>
    BY <1>8, Zenon DEF RecvShort
  <2>2. toFtps' \in Seq(Datagram)
    BY <2>1
  <2>3. ftpsPc' \in FtpsPcs /\ ftpsBound' \in BOOLEAN
    BY <2>1 DEF FtpsPcs
  <2> QED
    BY <2>1, <2>2, <2>3 DEF FtpsTypeOK, ServerHopTypeOK
<1>7. CASE RecvData
  <2>1. amtReadTotal' \in Nat /\ output' \in Seq(Datagram)
    BY <1>1, <1>7 DEF RecvData, FtpsTypeOK
  <2>2. /\ ftpsPc' \in FtpsPcs /\ ftpsBound' \in BOOLEAN
        /\ toFtps' \in Seq(Datagram)
    BY <1>4, <1>7, <2>1 DEF RecvData
  <2> QED
    BY <1>7, <2>1, <2>2 DEF RecvData, FtpsTypeOK, ServerHopTypeOK
<1> QED
  BY <1>2, <1>3, <1>5, <1>6, <1>7, <1>8 DEF FtpsNext

(* No step of any process breaks a type. *)
LEMMA TypeStep == TypeOK /\ [Next]_vars => TypeOK'
<1> SUFFICES ASSUME TypeOK, [Next]_vars PROVE TypeOK'
  OBVIOUS
<1>1. CASE FtpcStep
  BY <1>1, FtpcTypeStep
  DEF FtpcStep, TypeOK, ClientTypeOK, NetTypeOK, ServerTypeOK, ServerHopTypeOK,
      FtpsTypeOK, clientVars, serverVars, ftpsVars, serverHop, trollVars
<1>2. CASE ClientStep
  BY <1>2, ClientTypeStep
  DEF ClientStep, TypeOK, FtpcTypeOK, ServerTypeOK, ServerHopTypeOK, FtpsTypeOK,
      ftpcVars, serverVars, ftpsVars, serverHop
<1>3. CASE ServerStep
  BY <1>3, ServerTypeStep
  DEF ServerStep, TypeOK, FtpcTypeOK, ClientTypeOK, ClientHopTypeOK, FtpsTypeOK,
      ftpcVars, clientVars, ftpsVars, clientHop
<1>4. CASE FtpsStep
  BY <1>4, FtpsTypeStep
  DEF FtpsStep, TypeOK, FtpcTypeOK, ClientTypeOK, ClientHopTypeOK, NetTypeOK,
      ServerTypeOK, ftpcVars, clientVars, serverVars, clientHop, trollVars
<1>5. CASE UNCHANGED vars
  BY <1>5
  DEF vars, TypeOK, FtpcTypeOK, ClientTypeOK, ClientHopTypeOK, NetTypeOK, ServerTypeOK,
      ServerHopTypeOK, FtpsTypeOK, ftpcVars, clientVars, serverVars, ftpsVars,
      clientHop, serverHop, trollVars
<1> QED
  BY <1>1, <1>2, <1>3, <1>4, <1>5 DEF Next

(* Every variable of every process keeps its type, for every file, block size,
   buffer size, network and start order of ftps. *)
THEOREM TypeCorrect == Spec => []TypeOK
BY TypeInit, TypeStep, PTL DEF Spec

-------------------------------------------------------------------------------
(***************************************************************************)
(* The inductive invariant.  One lemma per process again; a process can    *)
(* only disturb the conjuncts that name its state or its channels.         *)
(***************************************************************************)

(* The datagrams of the stream by their place in it. *)
LEMMA StreamMsgParts ==
  ASSUME NEW n
  PROVE  /\ StreamMsg(n, 1) = SizeMsg(n)
         /\ StreamMsg(n, 2) = NameMsg(n)
         /\ \A k \in Nat : StreamMsg(n, k + 3) = DataMsg(n, k)
         /\ \A i : StreamMsg(n, i) = [body  |-> StreamMsg(n, i).body,
                                      bytes |-> StreamMsg(n, i).bytes]
<1>1. StreamMsg(n, 1) = SizeMsg(n) /\ StreamMsg(n, 2) = NameMsg(n)
  BY DEF StreamMsg
<1>2. ASSUME NEW k \in Nat PROVE StreamMsg(n, k + 3) = DataMsg(n, k)
  BY SMT DEF StreamMsg
<1>3. ASSUME NEW i
      PROVE  StreamMsg(n, i) = [body  |-> StreamMsg(n, i).body,
                                bytes |-> StreamMsg(n, i).bytes]
  BY Zenon DEF StreamMsg, SizeMsg, NameMsg, DataMsg
<1> QED
  BY <1>1, <1>2, <1>3

(* How many datagrams ftps has read and ftpc has sent. *)
LEMMA CountsType == TypeOK => Taken \in Nat /\ Handed \in Nat
<1> SUFFICES ASSUME TypeOK PROVE Taken \in Nat /\ Handed \in Nat
  OBVIOUS
<1>1. blocks \in Nat /\ Len(output) \in Nat
  BY DEF TypeOK, FtpcTypeOK, FtpsTypeOK
<1> QED
  BY <1>1, SMT DEF Taken, Handed

(* The invariant holds before anything is sent. *)
LEMMA IInvInit == Init => IInv
<1> SUFFICES ASSUME Init PROVE IInv
  OBVIOUS
<1>1. BlocksInFile /\ LocalHop(0)
  BY DEF Init, FtpcInit, ClientInit, BlocksInFile, LocalHop, FtpcWaits, Handed
<1>2. SlotsHold(0) /\ NetHolds(0)
  BY DEF Init, ClientInit, SlotsHold, NetHolds, EmptyList, NoNode
<1>3. ServerRingEmpty /\ ServerHop(0)
  BY DEF Init, ClientInit, ServerInit, FtpsInit, ServerRingEmpty, ServerHop, EmptyRing,
         Taken
<1>4. FtpsHolds
  BY DEF Init, FtpsInit, FtpsHolds
<1> QED
  BY <1>1, <1>2, <1>3, <1>4 DEF IInv, PathInv

(* ftpc sends blocks of the file only, and nothing before the last was
   acknowledged. *)
LEMMA FtpcKeeps ==
  ASSUME NEW first \in Nat, TypeOK, BlocksInFile, LocalHop(first), FtpcNext,
         UNCHANGED sn
  PROVE  BlocksInFile' /\ LocalHop(first)'
<1>0. blocks \in Nat /\ sn \in Nat /\ ftpcPc \in FtpcPcs /\ ftpcAcks \in Nat
  BY DEF TypeOK, FtpcTypeOK, ClientTypeOK, ClientHopTypeOK
<1>1. CASE SendSize
  BY <1>0, <1>1, StreamMsgParts, SMT
  DEF SendSize, Send, BlocksInFile, LocalHop, FtpcWaits, Handed, Nth
<1>2. CASE SendName
  BY <1>0, <1>2, StreamMsgParts, SMT
  DEF SendName, Send, BlocksInFile, LocalHop, FtpcWaits, Handed, Nth
<1>3. CASE SendBlock
  <2>1. BlocksInFile'
    BY <1>0, <1>3, SMT DEF SendBlock, BlocksInFile
  <2>2. /\ toTcpd = <<>> /\ ftpcAcks = 0 /\ sn = first + (blocks + 2)
        /\ Handed' = blocks + 3
        /\ toTcpd' = <<DataMsg(file, blocks)>>
    BY <1>0, <1>3, SMT DEF SendBlock, Send, LocalHop, FtpcWaits, Handed
  <2>3. Nth(blocks + 3) = DataMsg(file, blocks)
    BY <1>0, StreamMsgParts DEF Nth
  <2>4. LocalHop(first)'
    BY <1>0, <1>3, <2>2, <2>3, SMT DEF SendBlock, LocalHop, FtpcWaits, Nth
  <2> QED
    BY <2>1, <2>4
<1>4. CASE Finish
  BY <1>0, <1>4, SMT
  DEF Finish, clientHop, BlocksInFile, LocalHop, FtpcWaits, Handed
<1>5. ASSUME NEW at, NEW next, RecvTcpdAck(at, next),
             \/ at = "sizeAck" /\ next = "sendName"
             \/ at = "nameAck" /\ next = "sendBlock"
             \/ at = "blockAck" /\ next = "sendBlock"
      PROVE  BlocksInFile' /\ LocalHop(first)'
  BY <1>0, <1>5, SMT DEF RecvTcpdAck, BlocksInFile, LocalHop, FtpcWaits, Handed
<1> QED
  BY <1>1, <1>2, <1>3, <1>4, <1>5 DEF FtpcNext

(* A transmission puts nothing into the network but what a slot holds, and
   changes no node's datagram. *)
LEMMA SendPacketKeeps ==
  ASSUME NEW first \in Nat, TypeOK, SlotsHold(first), NetHolds(first),
         NEW seq \in Nat, NEW next, sendPacket(seq, next),
         UNCHANGED <<file, sn, clientRing>>
  PROVE  SlotsHold(first)' /\ NetHolds(first)'
<1> DEFINE found == findNodeBySeq(clientNodes, seq)
<1>1. \A s \in found : s \in Slot /\ clientNodes[s].seq = seq
  BY DEF findNodeBySeq
<1>2. \A s \in Slot : clientNodes[s] \in Node
  BY DEF TypeOK, ClientTypeOK
<1>3. \A s \in Slot : /\ clientNodes'[s].seq = clientNodes[s].seq
                      /\ clientNodes'[s].bytes = clientNodes[s].bytes
  BY <1>2, SMT DEF sendPacket, Node
<1>4. SlotsHold(first)'
  BY <1>3 DEF SlotsHold, Carries, Nth
<1>5. \A p \in dataNet' : p \in dataNet \/ ~p.ok \/ \E s \in found : p = PacketOf(s)
  BY DEF sendPacket, DataFates, Garbled
<1>6. ASSUME NEW s \in found
      PROVE  LET p == PacketOf(s) IN Carries(first, p.seq, p.body, p.bytes)
  BY <1>1, SMT DEF PacketOf, SlotsHold
<1>7. NetHolds(first)'
  BY <1>5, <1>6 DEF NetHolds, Carries, Nth
<1> QED
  BY <1>4, <1>7

(* What RecvLocal does to the buffer and its list: one slot, and the node of that
   slot, take the datagram. *)
LEMMA TakesUp ==
  ASSUME TypeOK, RecvLocal
  PROVE  \E slot \in Slot :
           /\ clientNodes'[slot].seq = sn
           /\ clientNodes'[slot].bytes = Head(toTcpd).bytes
           /\ clientRing'.cBuffer[slot] = Head(toTcpd).body
           /\ \A s \in Slot \ {slot} :
                /\ clientNodes'[s] = clientNodes[s]
                /\ clientRing'.cBuffer[s] = clientRing.cBuffer[s]
<1> DEFINE slot == ReadySlot(clientRing.end, clientNodes)
<1>1. clientRing \in Ring /\ clientNodes \in [Slot -> Node]
  BY DEF TypeOK, ClientTypeOK
<1>2. slot \in Slot
  BY <1>1, ReadySlotType DEF RecvLocal, Ring
<1>3. /\ clientNodes'[slot].seq = sn
      /\ clientNodes'[slot].bytes = Head(toTcpd).bytes
      /\ clientRing'.cBuffer[slot] = Head(toTcpd).body
  BY <1>1, <1>2, SMT DEF RecvLocal, AddToBuffer, CopyIn, insertNode, Ring
<1>4. \A s \in Slot \ {slot} : /\ clientNodes'[s] = clientNodes[s]
                               /\ clientRing'.cBuffer[s] = clientRing.cBuffer[s]
  BY <1>1, <1>2, SMT DEF RecvLocal, AddToBuffer, CopyIn, insertNode, Ring
<1> QED
  BY <1>2, <1>3, <1>4

(* The client daemon takes a datagram into the slot and the node that AddToBuffer
   gives it, transmits what its slots hold, and never takes sn back. *)
LEMMA ClientKeeps ==
  ASSUME NEW first \in Nat, TypeOK, LocalHop(first), SlotsHold(first), NetHolds(first),
         ClientNext, UNCHANGED ftpcVars
  PROVE  LocalHop(first)' /\ SlotsHold(first)' /\ NetHolds(first)' /\ sn <= sn'
<1>0. /\ sn \in Nat /\ sb \in Nat /\ armed \subseteq Nat /\ ackNet \subseteq Nat
      /\ \A s \in Slot : clientNodes[s] \in Node
      /\ clientRing \in Ring /\ clientNodes \in [Slot -> Node]
  BY DEF TypeOK, ClientTypeOK, NetTypeOK
<1>1. ASSUME UNCHANGED <<sn, clientHop>> PROVE LocalHop(first)' /\ sn <= sn'
  <2>1. Handed' = Handed /\ FtpcWaits' = FtpcWaits /\ file' = file
    BY DEF Handed, FtpcWaits, ftpcVars
  <2>2. toTcpd' = toTcpd /\ ftpcAcks' = ftpcAcks /\ sn' = sn
    BY <1>1 DEF clientHop
  <2>3. sn <= sn'
    BY <1>0, <2>2
  <2> QED
    BY <2>1, <2>2, <2>3 DEF LocalHop, Nth
<1>2. ASSUME UNCHANGED <<sn, clientRing, clientNodes>> PROVE SlotsHold(first)'
  BY <1>2 DEF SlotsHold, Carries, Nth, ftpcVars
<1>3. ASSUME UNCHANGED <<sn, dataNet>> PROVE NetHolds(first)'
  BY <1>3 DEF NetHolds, Carries, Nth, ftpcVars
<1>4. CASE RecvLocal
  <2>1. /\ toTcpd = <<Nth(Handed)>> /\ ftpcAcks = 0 /\ FtpcWaits
        /\ sn + 1 = first + Handed
        /\ toTcpd' = <<>> /\ ftpcAcks' = 1 /\ sn' = first + Handed
    BY <1>4, SMT DEF RecvLocal, LocalHop
  <2>2. LocalHop(first)' /\ sn <= sn'
    BY <1>0, <2>1, SMT DEF LocalHop, FtpcWaits, Handed, ftpcVars
  <2>3. Handed \in Nat /\ Handed = sn - first + 1
    BY <1>0, <2>1, CountsType
  <2>4. PICK slot \in Slot :
          /\ clientNodes'[slot].seq = sn
          /\ clientNodes'[slot].bytes = Head(toTcpd).bytes
          /\ clientRing'.cBuffer[slot] = Head(toTcpd).body
          /\ \A s \in Slot \ {slot} :
               /\ clientNodes'[s] = clientNodes[s]
               /\ clientRing'.cBuffer[s] = clientRing.cBuffer[s]
    BY <1>4, TakesUp
  <2>5. Head(toTcpd) = Nth(sn - first + 1)
    BY <2>1, <2>3
  <2>6. sn' = sn + 1 /\ file' = file
    BY <1>4 DEF RecvLocal, ftpcVars
  <2>7. SlotsHold(first)'
    <3>1. ASSUME NEW s \in Slot, clientNodes'[s].seq # -1
          PROVE  /\ clientNodes'[s].seq \in 0 .. sn
                 /\ clientNodes'[s].seq >= first =>
                      /\ clientRing'.cBuffer[s] = Nth(clientNodes'[s].seq - first + 1).body
                      /\ clientNodes'[s].bytes = Nth(clientNodes'[s].seq - first + 1).bytes
      <4>1. CASE s = slot
        BY <1>0, <2>4, <2>5, <4>1, SMT
      <4>2. CASE s # slot
        <5>1. clientNodes[s].seq \in 0 .. sn
          BY <1>0, <2>4, <3>1, <4>2, SMT DEF SlotsHold, Carries
        <5> QED
          BY <2>4, <3>1, <4>2, <5>1 DEF SlotsHold, Carries
      <4> QED
        BY <4>1, <4>2
    <3>2. sn' - 1 = sn
      BY <1>0, <2>6
    <3> QED
      BY <2>6, <3>1, <3>2 DEF SlotsHold, Carries, Nth
  <2>8. NetHolds(first)'
    BY <1>0, <1>4, <2>6, SMT DEF RecvLocal, NetHolds, Carries, Nth, trollVars
  <2> QED
    BY <2>2, <2>7, <2>8
<1>5. CASE LocalTimeout \/ GateClosed
  BY <1>1, <1>2, <1>3, <1>5 DEF LocalTimeout, GateClosed, trollVars
<1>6. ASSUME NEW ack \in ackNet, RecvAck(ack)
      PROVE  LocalHop(first)' /\ SlotsHold(first)' /\ NetHolds(first)' /\ sn <= sn'
  <2>1. \A s \in Slot : /\ clientNodes'[s].seq = clientNodes[s].seq
                        /\ clientNodes'[s].bytes = clientNodes[s].bytes
    BY <1>0, <1>6, SMT DEF RecvAck, Acknowledged, Node
  <2>2. SlotsHold(first)'
    BY <1>6, <2>1 DEF RecvAck, SlotsHold, Carries, Nth, ftpcVars
  <2> QED
    BY <1>1, <1>3, <1>6, <2>2 DEF RecvAck
<1>7. ASSUME NEW ack \in ackNet, RecvNak(ack)
      PROVE  LocalHop(first)' /\ SlotsHold(first)' /\ NetHolds(first)' /\ sn <= sn'
  BY <1>1, <1>2, <1>3, <1>7 DEF RecvNak
<1>8. CASE AckTimeout \/ NoTimeout \/ NothingToTransmit
  BY <1>1, <1>2, <1>3, <1>8 DEF AckTimeout, NoTimeout, NothingToTransmit, trollVars
<1>9. ASSUME NEW seq \in Timeouts, RecvTimeout(seq) \/ RecvStaleTimeout(seq)
      PROVE  LocalHop(first)' /\ SlotsHold(first)' /\ NetHolds(first)' /\ sn <= sn'
  <2>1. CASE RecvTimeout(seq)
    BY <1>0, <1>1, <2>1, SendPacketKeeps DEF RecvTimeout, Timeouts, ftpcVars
  <2>2. CASE RecvStaleTimeout(seq)
    BY <1>1, <1>2, <1>3, <2>2 DEF RecvStaleTimeout, trollVars
  <2> QED
    BY <1>9, <2>1, <2>2
<1>10. CASE Transmit
  BY <1>0, <1>1, <1>10, SendPacketKeeps DEF Transmit, ftpcVars
<1> QED
  BY <1>4, <1>5, <1>6, <1>7, <1>8, <1>9, <1>10 DEF ClientNext

(* What the server daemon passes on, through its buffer and the node of slot 0, is
   the body and the length of the packet; nothing stays in the buffer. *)
LEMMA PassesOn ==
  ASSUME TypeOK, ServerRingEmpty, NEW p \in dataNet, PassOn(p)
  PROVE  /\ ServerRingEmpty'
         /\ toFtps' = IF ftpsBound
                      THEN Append(toFtps, [body |-> p.body, bytes |-> p.bytes])
                      ELSE toFtps
<1> DEFINE filled == AddToBufferForServer(serverRing, p.body)
<1>0. serverRing \in Ring /\ serverNodes \in [Slot -> Node]
  BY DEF TypeOK, ServerTypeOK
<1>1. /\ filled.active = 1
      /\ filled.start = serverRing.start
      /\ filled.end = (serverRing.start + 1) % Slots
      /\ filled.cBuffer[filled.start] = p.body
  BY <1>0, SlotsAssumption, SMT DEF AddToBufferForServer, CopyIn, ServerRingEmpty, Ring
<1>2. FrontOf(filled) = p.body
  BY <1>1, SMT DEF FrontOf
<1>3. ServerRingEmpty'
  <2>1. serverRing' = GetFromBuffer(filled)
    BY DEF PassOn
  <2>2. filled = [cBuffer |-> filled.cBuffer, start |-> filled.start,
                  end |-> filled.end, active |-> filled.active]
    BY DEF AddToBufferForServer, CopyIn
  <2>3. /\ GetFromBuffer(filled).start = (serverRing.start + 1) % Slots
        /\ GetFromBuffer(filled).active = 0
        /\ GetFromBuffer(filled).end = (serverRing.start + 1) % Slots
    BY <1>1, <2>2, SMT DEF GetFromBuffer
  <2> QED
    BY <2>1, <2>3 DEF ServerRingEmpty
<1>4. serverNodes'[current].bytes = p.bytes
  <2>1. current \in Slot
    BY SlotsAssumption, SMT DEF current, Slot
  <2>2. serverNodes' = insertNode(serverNodes, current, p.bytes, 0)
    BY DEF PassOn
  <2> QED
    BY <1>0, <2>1, <2>2 DEF insertNode
<1> QED
  BY <1>2, <1>3, <1>4 DEF PassOn, Forward

(* The server daemon forwards the datagram with number rn and nothing else, and
   counts it when ftps has acknowledged it. *)
LEMMA ServerKeeps ==
  ASSUME NEW first \in Nat, TypeOK, NetHolds(first), ServerRingEmpty, ServerHop(first),
         ServerNext, UNCHANGED <<ftpcVars, clientVars, ftpsVars>>
  PROVE  NetHolds(first)' /\ ServerRingEmpty' /\ ServerHop(first)'
<1>0. /\ rn \in Nat /\ sn \in Nat /\ ftpsAcks \in Nat
      /\ serverRing \in Ring /\ serverNodes \in [Slot -> Node] /\ Taken \in Nat
  BY CountsType DEF TypeOK, ServerTypeOK, ServerHopTypeOK, ClientTypeOK
<1>1. file' = file /\ sn' = sn /\ Taken' = Taken
  BY DEF Taken, ftpcVars, clientVars, ftpsVars
<1>2. ASSUME dataNet' \subseteq dataNet PROVE NetHolds(first)'
  BY <1>1, <1>2 DEF NetHolds, Carries, Nth
<1>3. ASSUME NEW p \in dataNet, RecvCorrupt(p) \/ RecvUnexpected(p)
      PROVE  NetHolds(first)' /\ ServerRingEmpty' /\ ServerHop(first)'
  <2>1. dataNet' \subseteq dataNet
    BY <1>3 DEF RecvCorrupt, RecvUnexpected, Remainders
  <2> QED
    BY <1>1, <1>2, <1>3, <2>1 DEF RecvCorrupt, RecvUnexpected, ServerRingEmpty,
                                  ServerHop, Nth, serverVars, serverHop
<1>4. ASSUME NEW p \in dataNet, RecvExpected(p)
      PROVE  NetHolds(first)' /\ ServerRingEmpty' /\ ServerHop(first)'
  <2>1. dataNet' \subseteq dataNet
    BY <1>4 DEF RecvExpected, PassOn, Remainders
  <2>2. /\ p.seq = rn /\ rn < sn
        /\ p.body = Nth(Taken + 1).body /\ p.bytes = Nth(Taken + 1).bytes
    <3>1. p.ok /\ p.seq = rn /\ first + Taken = rn
      BY <1>4, Zenon DEF RecvExpected, ServerHop
    <3>2. rn >= first /\ rn - first + 1 = Taken + 1
      BY <1>0, <3>1
    <3>3. Carries(first, rn, p.body, p.bytes)
      BY <3>1 DEF NetHolds
    <3> QED
      BY <1>0, <3>1, <3>2, <3>3 DEF Carries
  <2>3. PassOn(p)
    BY <1>4 DEF RecvExpected
  <2>5. ServerRingEmpty'
    BY <2>3, PassesOn
  <2>7. [body |-> p.body, bytes |-> p.bytes] = Nth(Taken + 1)
    BY <2>2, StreamMsgParts DEF Nth
  <2>8. serverPc = "recv" /\ toFtps = <<>> /\ ftpsAcks = 0 /\ first + Taken = rn
    BY <1>4, Zenon DEF RecvExpected, ServerHop
  <2>9. toFtps' = <<Nth(Taken + 1)>> \/ toFtps' = <<>>
    BY <2>3, <2>7, <2>8, PassesOn
  <2>10. rn' = rn /\ ftpsAcks' = ftpsAcks /\ serverPc' = "wait"
    BY <1>4 DEF RecvExpected, PassOn
  <2>11. ServerHop(first)'
    BY <1>0, <1>1, <2>2, <2>8, <2>9, <2>10 DEF ServerHop, Nth
  <2> QED
    BY <1>2, <2>1, <2>5, <2>11
<1>5. CASE RecvFtpsAck
  <2>1. toFtps = <<>> /\ ftpsAcks = 1 /\ first + Taken = rn + 1 /\ rn < sn
    BY <1>0, <1>5, SMT DEF RecvFtpsAck, ServerHop
  <2>2. ServerHop(first)'
    BY <1>0, <1>1, <1>5, <2>1, SMT DEF RecvFtpsAck, ServerHop
  <2> QED
    BY <1>2, <1>5, <2>2 DEF RecvFtpsAck, ServerRingEmpty
<1> QED
  BY <1>3, <1>4, <1>5 DEF ServerNext

(* What the server daemon forwards is as long as ftps wants it. *)
LEMMA NoneTooShort ==
  ASSUME NEW first \in Nat, TypeOK, ServerHop(first)
  PROVE  ~RecvShort
<1> SUFFICES ASSUME RecvShort PROVE FALSE
  OBVIOUS
<1>1. toFtps = <<Nth(Taken + 1)>>
  BY SMT DEF RecvShort, ServerHop
<1>2. Head(toFtps) = Nth(Taken + 1)
  BY <1>1
<1>3. SizeMsg(file).bytes = MSS /\ NameMsg(file).bytes = MSS
  BY DEF SizeMsg, NameMsg
<1>4. CASE ftpsPc = "size"
  <2>1. Head(toFtps).bytes = MSS
    BY <1>2, <1>3, <1>4, StreamMsgParts DEF Taken, Nth
  <2> QED
    BY <1>4, <2>1, HeadersAssumption, MSSAssumption DEF RecvShort
<1>5. CASE ftpsPc = "name"
  <2>1. Head(toFtps).bytes = MSS
    BY <1>2, <1>3, <1>5, StreamMsgParts DEF Taken, Nth
  <2> QED
    BY <1>5, <2>1, HeadersAssumption, MSSAssumption DEF RecvShort
<1> QED
  BY <1>4, <1>5 DEF RecvShort

(* ftps reads the datagram that was forwarded, takes it for what it is, and
   acknowledges it once. *)
LEMMA FtpsKeeps ==
  ASSUME NEW first \in Nat, TypeOK, ServerHop(first), FtpsHolds, FtpsNext,
         UNCHANGED <<file, sn, serverPc, rn>>
  PROVE  ServerHop(first)' /\ FtpsHolds'
<1>0. /\ rn \in Nat /\ sn \in Nat /\ ftpsAcks \in Nat /\ ftpsPc \in FtpsPcs
      /\ output \in Seq(Datagram) /\ Taken \in Nat
  BY CountsType DEF TypeOK, ServerTypeOK, ServerHopTypeOK, ClientTypeOK, FtpsTypeOK
<1>1. CASE StartFtps
  BY <1>1, SMT DEF StartFtps, ServerHop, FtpsHolds, Taken, Nth, num_bytes
<1>2. ASSUME toFtps # <<>>
      PROVE  /\ serverPc = "wait" /\ rn < sn /\ rn <= sn /\ ftpsAcks = 0
             /\ toFtps = <<Nth(Taken + 1)>> /\ first + Taken = rn
             /\ Head(toFtps) = Nth(Taken + 1) /\ Tail(toFtps) = <<>>
  <2>1. /\ serverPc = "wait" /\ rn < sn /\ rn <= sn /\ ftpsAcks = 0
        /\ toFtps = <<Nth(Taken + 1)>> /\ first + Taken = rn
    BY <1>2, Zenon DEF ServerHop
  <2>2. \A m : Head(<<m>>) = m /\ Tail(<<m>>) = <<>>
    BY SMT
  <2> QED
    BY <2>1, <2>2, Zenon
<1>3. ASSUME toFtps # <<>>, toFtps' = <<>>, ftpsAcks' = ftpsAcks + 1,
             Taken' = Taken + 1
      PROVE  ServerHop(first)'
  BY <1>0, <1>2, <1>3, SMT DEF ServerHop
<1>4. CASE RecvSize
  <2>1. Taken = 0 /\ Head(toFtps) = SizeMsg(file)
    BY <1>2, <1>4, StreamMsgParts, SMT DEF RecvSize, Taken, Nth
  <2>2. fileSize' = num_bytes
    BY <1>4, <2>1 DEF RecvSize, SizesIn, SizeMsg, num_bytes
  <2>3. Taken' = 1 /\ toFtps' = <<>>
    BY <1>2, <1>4, SMT DEF RecvSize, Taken
  <2>4. FtpsHolds'
    BY <1>4, <2>2, SMT DEF RecvSize, FtpsHolds, num_bytes
  <2> QED
    BY <1>3, <1>4, <2>1, <2>3, <2>4 DEF RecvSize
<1>5. ASSUME NEW total, ReadOn(total), toFtps # <<>>
      PROVE  toFtps' = <<>> /\ ftpsPc' \in {"data", "done"}
  BY <1>2, <1>5 DEF ReadOn
<1>6. CASE RecvName
  <2>1. Taken = 1 /\ Head(toFtps) = NameMsg(file) /\ output = <<>>
    BY <1>2, <1>6, StreamMsgParts, SMT DEF RecvName, Taken, Nth, FtpsHolds
  <2>2. toFtps' = <<>> /\ ftpsPc' \in {"data", "done"}
    BY <1>5, <1>6 DEF RecvName
  <2>3. Taken' = 2
    BY <1>6, <2>1, <2>2, SMT DEF RecvName, Taken
  <2>4. FtpsHolds'
    BY <1>6, <2>1, <2>2, SMT DEF RecvName, FtpsHolds, num_bytes
  <2> QED
    BY <1>3, <1>6, <2>1, <2>2, <2>3, <2>4 DEF RecvName
<1>7. CASE RecvNameOpenFails
  <2>1. Taken = 1 /\ Head(toFtps) = NameMsg(file) /\ output = <<>>
    BY <1>2, <1>7, StreamMsgParts, SMT DEF RecvNameOpenFails, Taken, Nth, FtpsHolds
  <2>2. toFtps' = <<>> /\ ftpsPc' = "failed" /\ output' = <<>>
    BY <1>7, <2>1 DEF RecvNameOpenFails
  <2>3. Taken' = 2
    BY <2>2, SMT DEF Taken
  <2>4. FtpsHolds'
    BY <1>7, <2>1, <2>2, SMT DEF RecvNameOpenFails, FtpsHolds, num_bytes
  <2> QED
    BY <1>3, <1>7, <2>1, <2>2, <2>3, <2>4 DEF RecvNameOpenFails
<1>8. CASE RecvData
  <2>1. Taken = 2 + Len(output)
    BY <1>8, SMT DEF RecvData, Taken
  <2>2. Head(toFtps) = DataMsg(file, Len(output))
    <3>1. Taken + 1 = Len(output) + 3 /\ Len(output) \in Nat
      BY <1>0, <2>1
    <3> QED
      BY <1>2, <1>8, <3>1, StreamMsgParts DEF RecvData, Nth
  <2>3. toFtps' = <<>> /\ ftpsPc' \in {"data", "done"}
    BY <1>5, <1>8 DEF RecvData
  <2>4. /\ output' = Append(output, DataMsg(file, Len(output)))
        /\ Len(output') = Len(output) + 1
    BY <1>0, <1>8, <2>2 DEF RecvData
  <2>5. Taken' = Taken + 1
    <3>1. Taken' = 2 + Len(output') /\ Len(output) \in Nat
      BY <1>0, <2>3 DEF Taken
    <3> QED
      BY <2>1, <2>4, <3>1
  <2>6. \A i \in 1 .. Len(output') : output'[i] = DataMsg(file, i - 1)
    BY <1>0, <2>4, SMT DEF FtpsHolds
  <2>7. FtpsHolds'
    BY <1>8, <2>3, <2>6, SMT DEF RecvData, FtpsHolds, num_bytes
  <2> QED
    BY <1>3, <1>8, <2>3, <2>5, <2>7 DEF RecvData
<1> QED
  BY <1>1, <1>4, <1>6, <1>7, <1>8, NoneTooShort DEF FtpsNext

(* No step of any process breaks the invariant of a path. *)
LEMMA PathStep ==
  ASSUME NEW first \in Nat, TypeOK, PathInv(first), [Next]_vars
  PROVE  PathInv(first)'
<1> USE DEF PathInv
<1>0. sn \in Nat /\ rn \in Nat
  BY DEF TypeOK, ClientTypeOK, ServerTypeOK
<1>1. CASE FtpcStep
  <2>1. BlocksInFile' /\ LocalHop(first)'
    BY <1>1, FtpcKeeps DEF FtpcStep, clientVars
  <2>2. file' = file
    BY <1>1 DEF FtpcStep, FtpcNext, SendSize, SendName, SendBlock, Finish, RecvTcpdAck
  <2>3. Taken' = Taken
    BY <1>1 DEF FtpcStep, Taken, ftpsVars
  <2> QED
    BY <1>1, <2>1, <2>2, <2>3
    DEF FtpcStep, SlotsHold, NetHolds, Carries, ServerRingEmpty, ServerHop, FtpsHolds, Nth, num_bytes,
        clientVars, serverVars, ftpsVars, serverHop, trollVars
<1>2. CASE ClientStep
  <2>1. LocalHop(first)' /\ SlotsHold(first)' /\ NetHolds(first)' /\ sn <= sn'
    BY <1>2, ClientKeeps DEF ClientStep
  <2>2. /\ BlocksInFile'
        /\ ServerRingEmpty'
        /\ FtpsHolds'
    BY <1>2 DEF ClientStep, BlocksInFile, ServerRingEmpty, FtpsHolds, num_bytes, ftpcVars,
                serverVars, ftpsVars
  <2>3. Taken' = Taken /\ file' = file
    BY <1>2 DEF ClientStep, Taken, ftpcVars, ftpsVars
  <2>4. sn' \in Nat
    BY <1>2, TypeStep DEF TypeOK, ClientTypeOK, Next
  <2>5. (rn <= sn => rn <= sn') /\ (rn < sn => rn < sn')
    BY <1>0, <2>1, <2>4
  <2>6. ServerHop(first)'
    BY <1>2, <2>3, <2>5 DEF ClientStep, ServerHop, Nth, serverVars, serverHop
  <2> QED
    BY <2>1, <2>2, <2>6
<1>3. CASE ServerStep
  <2>1. NetHolds(first)' /\ ServerRingEmpty' /\ ServerHop(first)'
    BY <1>3, ServerKeeps DEF ServerStep
  <2>2. BlocksInFile' /\ SlotsHold(first)' /\ FtpsHolds'
    BY <1>3 DEF ServerStep, BlocksInFile, SlotsHold, Carries, FtpsHolds, Nth, num_bytes, ftpcVars,
                clientVars, ftpsVars
  <2>3. Handed' = Handed
    BY <1>3 DEF ServerStep, Handed, ftpcVars
  <2>4. LocalHop(first)'
    BY <1>3, <2>3 DEF ServerStep, LocalHop, FtpcWaits, Nth, ftpcVars, clientVars,
                      clientHop
  <2> QED
    BY <2>1, <2>2, <2>4
<1>4. CASE FtpsStep
  <2>1. ServerHop(first)' /\ FtpsHolds'
    BY <1>4, FtpsKeeps DEF FtpsStep, ftpcVars, clientVars, serverVars
  <2>2. BlocksInFile' /\ SlotsHold(first)' /\ NetHolds(first)' /\ ServerRingEmpty'
    BY <1>4 DEF FtpsStep, BlocksInFile, SlotsHold, NetHolds, Carries, ServerRingEmpty, Nth,
                ftpcVars, clientVars, serverVars, trollVars
  <2>3. Handed' = Handed
    BY <1>4 DEF FtpsStep, Handed, ftpcVars
  <2>4. LocalHop(first)'
    BY <1>4, <2>3 DEF FtpsStep, LocalHop, FtpcWaits, Nth, ftpcVars, clientVars,
                      clientHop
  <2> QED
    BY <2>1, <2>2, <2>4
<1>5. CASE UNCHANGED vars
  <2>1. Handed' = Handed /\ Taken' = Taken
    BY <1>5 DEF vars, Handed, Taken, ftpcVars, ftpsVars
  <2> QED
    BY <1>5, <2>1
    DEF vars, BlocksInFile, LocalHop, FtpcWaits, SlotsHold, NetHolds, Carries, ServerRingEmpty,
        ServerHop, FtpsHolds, Nth, num_bytes, ftpcVars, clientVars, serverVars, ftpsVars,
        clientHop, serverHop, trollVars
<1> QED
  BY <1>1, <1>2, <1>3, <1>4, <1>5 DEF Next

(* Nor, therefore, the inductive invariant. *)
LEMMA IInvStep == TypeOK /\ IInv /\ [Next]_vars => IInv'
<1>1. 0 \in Nat
  OBVIOUS
<1> QED
  BY <1>1, PathStep DEF IInv

(* At every place on its way, in every reachable state, the datagram with sequence
   number s is the (s+1)-th that ftpc sends, and the two local hops are in
   lockstep. *)
THEOREM Invariance == Spec => [](TypeOK /\ IInv)
<1>1. Init => TypeOK /\ IInv
  BY TypeInit, IInvInit
<1>2. TypeOK /\ IInv /\ [Next]_vars => (TypeOK /\ IInv)'
  BY TypeStep, IInvStep
<1> QED
  BY <1>1, <1>2, PTL DEF Spec

-------------------------------------------------------------------------------
(***************************************************************************)
(* What the invariant gives: order, and the refinement of the stream.      *)
(***************************************************************************)

(* Received and Sent, member by member. *)
LEMMA ReceivedParts ==
  ASSUME TypeOK, FtpsHolds
  PROVE  /\ Taken \in Nat /\ Len(Received) = Taken
         /\ \A i \in 1 .. Taken : Received[i] = Nth(i)
<1>0. ftpsPc \in FtpsPcs /\ output \in Seq(Datagram)
  BY DEF TypeOK, FtpsTypeOK
<1>1. CASE ftpsPc \in {"down", "size"}
  BY <1>1, SMT DEF Received, Taken
<1>2. CASE ftpsPc = "name"
  <2>1. SizeTaken = Nth(1)
    BY <1>2, StreamMsgParts DEF FtpsHolds, SizeTaken, SizeMsg, Nth, num_bytes
  <2>2. Received = <<Nth(1)>> /\ Taken = 1
    BY <1>2, <2>1 DEF Received, Taken
  <2> QED
    BY <2>2, SMT
<1>3. CASE ftpsPc \in {"data", "done", "failed"}
  <2>1. SizeTaken = Nth(1) /\ NameTaken = Nth(2)
    BY <1>3, StreamMsgParts
    DEF FtpsHolds, SizeTaken, SizeMsg, NameTaken, NameMsg, Nth, num_bytes
  <2>2. Received = <<Nth(1), Nth(2)>> \o output /\ Taken = 2 + Len(output)
    BY <1>3, <2>1, Zenon DEF Received, Taken
  <2>3. /\ Len(output) \in Nat
        /\ Len(<<Nth(1), Nth(2)>> \o output) = 2 + Len(output)
        /\ (<<Nth(1), Nth(2)>> \o output)[1] = Nth(1)
        /\ (<<Nth(1), Nth(2)>> \o output)[2] = Nth(2)
        /\ \A i \in 3 .. 2 + Len(output) :
             (<<Nth(1), Nth(2)>> \o output)[i] = output[i - 2]
    BY <1>0, SMT
  <2>4. ASSUME NEW i \in 3 .. 2 + Len(output) PROVE output[i - 2] = Nth(i)
    <3>1. output[i - 2] = DataMsg(file, i - 3)
      BY <2>3, SMT DEF FtpsHolds
    <3>2. i - 3 \in Nat /\ (i - 3) + 3 = i
      BY <2>3
    <3> QED
      BY <3>1, <3>2, StreamMsgParts DEF Nth
  <2>5. \A i \in 1 .. Taken : i = 1 \/ i = 2 \/ i \in 3 .. 2 + Len(output)
    BY <2>2, <2>3
  <2> QED
    BY <2>2, <2>3, <2>4, <2>5
<1> QED
  BY <1>0, <1>1, <1>2, <1>3 DEF FtpsPcs

(* ftps has read no more than the client daemon took over, and the daemon no more
   than ftpc sent. *)
LEMMA TakenBounds ==
  ASSUME NEW first \in Nat, TypeOK, PathInv(first)
  PROVE  /\ Handed \in Nat /\ Taken \in Nat /\ Taken <= Handed
         /\ first + Taken <= sn /\ sn <= first + Handed
<1>1. sn \in Nat /\ rn \in Nat
  BY DEF TypeOK, ClientTypeOK, ServerTypeOK
<1>2. Handed \in Nat /\ Taken \in Nat
  BY CountsType
<1>3. sn <= first + Handed
  BY <1>1, <1>2, SMT DEF PathInv, LocalHop
<1>4. first + Taken <= sn
  BY <1>1, <1>2, SMT DEF PathInv, ServerHop
<1> QED
  BY <1>1, <1>2, <1>3, <1>4

(* The invariant of a path contains InOrderDelivery. *)
LEMMA PathInOrder ==
  ASSUME NEW first \in Nat, TypeOK, PathInv(first)
  PROVE  InOrderDelivery
<1>1. /\ Taken \in Nat /\ Len(Received) = Taken
      /\ \A i \in 1 .. Taken : Received[i] = Nth(i)
  BY ReceivedParts DEF PathInv
<1>2. Taken <= Handed
  BY TakenBounds
<1> QED
  BY <1>1, <1>2 DEF InOrderDelivery, Nth

(* What ftps has read is a prefix of what ftpc has sent, for every network,
   even one that damages acknowledgements, and whenever ftps is started. *)
THEOREM InOrder == Spec => []InOrderDelivery
<1>1. 0 \in Nat
  OBVIOUS
<1>2. TypeOK /\ IInv => InOrderDelivery
  BY <1>1, PathInOrder DEF IInv
<1> QED
  BY <1>2, Invariance, PTL

(* Both ends of the stream are its first datagrams. *)
LEMMA ReceivedIsPrefix ==
  TypeOK /\ FtpsHolds => Received = [i \in 1 .. Taken |-> StreamMsg(file, i)]
<1> SUFFICES ASSUME TypeOK, FtpsHolds
             PROVE  Received = [i \in 1 .. Taken |-> Nth(i)]
  BY DEF Nth
<1>1. /\ Taken \in Nat /\ Len(Received) = Taken
      /\ \A i \in 1 .. Taken : Received[i] = Nth(i)
  BY ReceivedParts
<1>2. ftpsPc \in FtpsPcs /\ output \in Seq(Datagram)
  BY DEF TypeOK, FtpsTypeOK
<1>3. \E S : Received \in Seq(S)
  <2> DEFINE S == Datagram \cup {SizeTaken, NameTaken}
  <2>1. <<>> \in Seq(S) /\ <<SizeTaken>> \in Seq(S) /\ <<SizeTaken, NameTaken>> \in Seq(S)
    BY SMT
  <2>2. output \in Seq(S)
    BY <1>2, SMT
  <2>3. <<SizeTaken, NameTaken>> \o output \in Seq(S)
    BY <2>1, <2>2, SMT
  <2> QED
    BY <1>2, <2>1, <2>3 DEF Received, FtpsPcs
<1>4. DOMAIN Received = 1 .. Taken /\ Received = [i \in DOMAIN Received |-> Received[i]]
  BY <1>1, <1>3, SMT
<1> QED
  BY <1>1, <1>4, Zenon

(* The first h + 1 datagrams are the first h and one more. *)
LEMMA PrefixGrows ==
  ASSUME NEW n, NEW h \in Nat
  PROVE  [i \in 1 .. h + 1 |-> StreamMsg(n, i)]
           = Append([i \in 1 .. h |-> StreamMsg(n, i)], StreamMsg(n, h + 1))
OBVIOUS

(* Nothing was handed over or delivered initially. *)
LEMMA StreamInit == Init => Stream!Init
<1> SUFFICES ASSUME Init PROVE Sent = <<>> /\ Received = <<>>
  BY DEF Stream!Init
<1>1. Handed = 0
  BY DEF Init, FtpcInit, Handed
<1> QED
  BY <1>1, SMT DEF Init, FtpsInit, Sent, Received

(* ftpc hands over the next datagram of a transfer or nothing. *)
LEMMA HandsOver ==
  ASSUME TypeOK, BlocksInFile, FtpcNext
  PROVE  /\ file' = file
         /\ \/ Handed' = Handed
            \/ Handed' = Handed + 1 /\ StreamMsg(file, Handed + 1) \in StreamMessages
<1>0. blocks \in Nat /\ file \in FileSizes /\ file \in Nat
  BY FileSizesAssumption DEF TypeOK, FtpcTypeOK
<1>1. CASE SendSize
  <2>1. Handed = 0 /\ Handed' = 1 /\ file' = file
    BY <1>1 DEF SendSize, Handed
  <2>2. SizeMsg(file) \in StreamMessages
    BY <1>0 DEF StreamMessages
  <2> QED
    BY <2>1, <2>2, StreamMsgParts
<1>2. CASE SendName
  <2>1. Handed = 1 /\ Handed' = 2 /\ file' = file
    BY <1>2 DEF SendName, Handed, BlocksInFile
  <2>2. NameMsg(file) \in StreamMessages
    BY <1>0 DEF StreamMessages
  <2> QED
    BY <2>1, <2>2, StreamMsgParts
<1>3. CASE SendBlock
  <2>1. /\ Handed = 2 + blocks /\ Handed' = 2 + (blocks + 1) /\ file' = file
        /\ HasBlock(file, blocks)
    BY <1>3 DEF SendBlock, Handed
  <2>2. blocks <= blocks * MSS
    BY <1>0, MSSAssumption, SMT
  <2>3. blocks \in 0 .. file
    BY <1>0, <2>1, <2>2, MSSAssumption, SMT DEF HasBlock
  <2>4. DataMsg(file, blocks) \in StreamMessages
    <3>1. blocks \in {j \in 0 .. file : HasBlock(file, j)}
      BY <2>1, <2>3
    <3>2. DataMsg(file, blocks)
            \in {DataMsg(file, k) : k \in {j \in 0 .. file : HasBlock(file, j)}}
      BY <3>1
    <3>3. DataMsg(file, blocks)
            \in UNION {{DataMsg(n, k) : k \in {j \in 0 .. n : HasBlock(n, j)}} : n \in FileSizes}
      BY <1>0, <3>2, Zenon
    <3> QED
      BY <3>3 DEF StreamMessages
  <2>5. StreamMsg(file, blocks + 3) = DataMsg(file, blocks)
    BY <1>0, StreamMsgParts
  <2>6. Handed + 1 = blocks + 3 /\ Handed' = Handed + 1
    BY <1>0, <2>1
  <2> QED
    BY <2>1, <2>4, <2>5, <2>6
<1>4. CASE Finish
  BY <1>4 DEF Finish, Handed
<1>5. ASSUME NEW at, NEW next, RecvTcpdAck(at, next),
             \/ at = "sizeAck" /\ next = "sendName"
             \/ at = "nameAck" /\ next = "sendBlock"
             \/ at = "blockAck" /\ next = "sendBlock"
      PROVE  Handed' = Handed /\ file' = file
  BY <1>5 DEF RecvTcpdAck, Handed
<1> QED
  BY <1>1, <1>2, <1>3, <1>4, <1>5 DEF FtpcNext

(* ftps takes one datagram, or none when it starts. *)
LEMMA TakesOne ==
  ASSUME NEW first \in Nat, TypeOK, FtpsHolds, ServerHop(first), FtpsNext
  PROVE  Taken' = Taken \/ (Taken' = Taken + 1 /\ first + Taken < sn)
<1>0. /\ output \in Seq(Datagram) /\ rn \in Nat /\ sn \in Nat
  BY DEF TypeOK, FtpsTypeOK, ServerTypeOK, ClientTypeOK
<1>1. CASE StartFtps
  BY <1>1 DEF StartFtps, Taken
<1>2. toFtps # <<>> => first + Taken < sn
  BY <1>0, SMT DEF ServerHop
<1>3. CASE RecvSize
  BY <1>2, <1>3 DEF RecvSize, Taken
<1>4. CASE RecvName
  BY <1>2, <1>4 DEF RecvName, ReadOn, Taken, FtpsHolds
<1>5. CASE RecvNameOpenFails
  BY <1>2, <1>5 DEF RecvNameOpenFails, Taken, FtpsHolds
<1>6. CASE RecvData
  <2>1. Len(output') = Len(output) + 1 /\ Len(output) \in Nat
    BY <1>0, <1>6 DEF RecvData
  <2>2. Taken = 2 + Len(output) /\ Taken' = 2 + Len(output')
    BY <1>6 DEF RecvData, ReadOn, Taken
  <2>3. Taken' = Taken + 1
    BY <2>1, <2>2
  <2> QED
    BY <1>2, <1>6, <2>3 DEF RecvData
<1> QED
  BY <1>1, <1>3, <1>4, <1>5, <1>6, NoneTooShort DEF FtpsNext

(* Every step of the system is a step of the stream or leaves both its ends
   alone. *)
LEMMA StreamStep ==
  ASSUME NEW first \in Nat, TypeOK, PathInv(first), [Next]_vars,
         (TypeOK /\ PathInv(first))'
  PROVE  [Stream!Next]_<<Sent, Received>>
<1>1. Received = [i \in 1 .. Taken |-> StreamMsg(file, i)]
  BY ReceivedIsPrefix DEF PathInv
<1>2. Received' = [i \in 1 .. Taken' |-> StreamMsg(file', i)]
  <2>1. (TypeOK /\ FtpsHolds
           => Received = [i \in 1 .. Taken |-> StreamMsg(file, i)])'
    BY ReceivedIsPrefix, PTL
  <2> QED
    BY <2>1 DEF PathInv
<1>3. /\ Handed \in Nat /\ Taken \in Nat /\ Taken <= Handed
      /\ Len(Received) = Taken
  BY ReceivedParts, TakenBounds DEF PathInv
<1>4. Len(Sent) = Handed
  BY <1>3 DEF Sent
<1>5. ASSUME file' = file, Handed' = Handed PROVE Sent' = Sent
  BY <1>5 DEF Sent
<1>6. ASSUME file' = file, Taken' = Taken PROVE Received' = Received
  BY <1>1, <1>2, <1>6
<1>7. CASE FtpcStep
  <2>1. file' = file /\ Received' = Received
    <3>1. file' = file
      BY <1>7, HandsOver DEF FtpcStep, PathInv
    <3>2. Taken' = Taken
      BY <1>7 DEF FtpcStep, Taken, ftpsVars
    <3> QED
      BY <1>6, <3>1, <3>2
  <2>2. CASE Handed' = Handed
    BY <1>5, <2>1, <2>2
  <2>3. CASE /\ Handed' = Handed + 1
             /\ StreamMsg(file, Handed + 1) \in StreamMessages
    <3>1. Sent' = Append(Sent, StreamMsg(file, Handed + 1))
      BY <1>3, <2>1, <2>3, PrefixGrows DEF Sent
    <3>2. Stream!HandOver
      BY <2>1, <2>3, <3>1 DEF Stream!HandOver
    <3> QED
      BY <3>2 DEF Stream!Next
  <2> QED
    BY <1>7, <2>2, <2>3, HandsOver DEF FtpcStep, PathInv
<1>8. CASE ClientStep \/ ServerStep \/ UNCHANGED vars
  <2>1. file' = file /\ Handed' = Handed /\ Taken' = Taken
    BY <1>8 DEF ClientStep, ServerStep, vars, Handed, Taken, ftpcVars, ftpsVars
  <2> QED
    BY <1>5, <1>6, <2>1
<1>9. CASE FtpsStep
  <2>1. file' = file /\ Sent' = Sent
    <3>1. file' = file /\ Handed' = Handed
      BY <1>9 DEF FtpsStep, Handed, ftpcVars
    <3> QED
      BY <1>5, <3>1
  <2>2. CASE Taken' = Taken
    BY <1>6, <2>1, <2>2
  <2>3. CASE Taken' = Taken + 1 /\ first + Taken < sn
    <3>1. Received' = Append(Received, StreamMsg(file, Taken + 1))
      BY <1>1, <1>2, <1>3, <2>1, <2>3, PrefixGrows
    <3>2. Taken < Handed
      <4>1. sn \in Nat /\ sn <= first + Handed
        BY TakenBounds DEF TypeOK, ClientTypeOK
      <4> QED
        BY <1>3, <2>3, <4>1
    <3>3. Sent[Taken + 1] = StreamMsg(file, Taken + 1)
      BY <1>3, <3>2 DEF Sent
    <3>4. Stream!Deliver
      BY <1>3, <1>4, <2>1, <3>1, <3>2, <3>3 DEF Stream!Deliver
    <3> QED
      BY <3>4 DEF Stream!Next
  <2> QED
    BY <1>9, <2>2, <2>3, TakesOne DEF FtpsStep, PathInv
<1> QED
  BY <1>7, <1>8, <1>9 DEF Next

(* The daemons, their clients and any network between them implement the
   reliable stream. *)
THEOREM Refinement == Spec => StreamSafe
<1>1. TypeOK /\ IInv /\ (TypeOK /\ IInv)' /\ [Next]_vars
        => [Stream!Next]_<<Sent, Received>>
  <2>1. 0 \in Nat
    OBVIOUS
  <2> QED
    BY <2>1, StreamStep DEF IInv
<1> QED
  BY <1>1, StreamInit, Invariance, PTL
  DEF Spec, StreamSafe, Stream!Spec, Stream!streamVars
===============================================================================
