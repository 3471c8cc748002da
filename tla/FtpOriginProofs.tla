--------------------------- MODULE FtpOriginProofs ---------------------------
(***************************************************************************)
(* Theorems that hold even when the client-side tcpd is restarted between  *)
(* transfers, acknowledgements are damaged, ftps is started late or cannot *)
(* open its file.  The order of delivery is lost then; but nothing that    *)
(* reaches ftps was made up on the way.                                    *)
(***************************************************************************)
EXTENDS FtpSessionsProofs

(* A datagram is its body and its length. *)
LEMMA MessageParts ==
  ASSUME NEW m \in Message
  PROVE  [body |-> m.body, bytes |-> m.bytes] = m
BY DEF Message

(* A datagram was sent in an earlier transfer or in this one. *)
LEMMA SentWhen ==
  /\ \A m : m \in EverSent <=> \/ \E r \in 1 .. ftpcRuns - 1 : m \in Datagrams[Files[r]]
                              \/ \E i \in 1 .. Handed : m = Sent[i]
  /\ \A m : m \in EverSent' <=> \/ \E r \in 1 .. ftpcRuns' - 1 : m \in Datagrams[Files[r]]
                               \/ \E i \in 1 .. Handed' : m = Sent'[i]
BY DEF EverSent, Sent

(* What ftpc has handed over of a file are datagrams of that file. *)
LEMMA SentIsOfFile ==
  ASSUME TypeOK, BlocksInFile, NEW i \in 1 .. Handed
  PROVE  Sent[i] \in Datagrams[file]
<1>0. file \in Nat /\ blocks \in Nat /\ Handed \in Nat
  BY CountsType, FileSizesAssumption DEF TypeOK, FtpcTypeOK
<1>1. Sent[i] = StreamMsg(file, i)
  BY DEF Sent
<1>2. Datagrams[file] =
        {SizeMsg(file), NameMsg(file)} \cup
          {DataMsg(file, k) : k \in {j \in 0 .. file : HasBlock(file, j)}}
  BY DEF Datagrams, TypeOK, FtpcTypeOK
<1>3. CASE i = 1 \/ i = 2
  BY <1>1, <1>2, <1>3, StreamMsgParts
<1>4. CASE i # 1 /\ i # 2
  <2>1. PICK k \in Nat : i = k + 3
    <3>1. i - 3 \in Nat /\ i = (i - 3) + 3
      BY <1>0, <1>4
    <3> QED
      BY <3>1
  <2>2. k \in 0 .. blocks - 1
    <3>1. Handed = 2 + blocks
      BY <1>0, <2>1 DEF Handed
    <3> QED
      BY <1>0, <2>1, <3>1
  <2>3. k * MSS < file
    BY <2>2 DEF BlocksInFile, HasBlock
  <2>4. k <= k * MSS /\ k * MSS \in Nat
    BY <2>1, MSSAssumption, SMT
  <2>5. k \in 0 .. file
    BY <1>0, <2>1, <2>3, <2>4
  <2>6. k \in {j \in 0 .. file : HasBlock(file, j)}
    BY <2>3, <2>5 DEF HasBlock
  <2> QED
    BY <1>1, <1>2, <2>1, <2>6, StreamMsgParts
<1> QED
  BY <1>3, <1>4

(* The blocks ftpc sends are blocks of its file, whatever its tcpd does. *)
LEMMA BlocksStep ==
  ASSUME TypeOK, BlocksInFile, FtpcNext
  PROVE  BlocksInFile'
<1>0. blocks \in Nat
  BY DEF TypeOK, FtpcTypeOK
<1>1. CASE SendBlock
  BY <1>0, <1>1, SMT DEF SendBlock, BlocksInFile
<1>2. CASE SendSize \/ SendName \/ Finish
  BY <1>0, <1>2, SMT DEF SendSize, SendName, Finish, BlocksInFile
<1>3. ASSUME NEW at, NEW next, RecvTcpdAck(at, next),
             \/ at = "sizeAck" /\ next = "sendName"
             \/ at = "nameAck" /\ next = "sendBlock"
             \/ at = "blockAck" /\ next = "sendBlock"
      PROVE  BlocksInFile'
  BY <1>0, <1>3, SMT DEF RecvTcpdAck, BlocksInFile
<1> QED
  BY <1>1, <1>2, <1>3 DEF FtpcNext

(* What was sent stays sent, through the end of a transfer and the next start. *)
LEMMA SentStays ==
  ASSUME TypeOK, RunsOK, file = Files[ftpcRuns], BlocksInFile,
         [SessionsNext]_allVars
  PROVE  EverSent \subseteq EverSent'
<1>0. ftpcRuns \in Nat \ {0} /\ Handed \in Nat
  BY CountsType DEF RunsOK
<1>1. ASSUME ftpcRuns' = ftpcRuns, file' = file,
             Handed' = Handed \/ Handed' = Handed + 1
      PROVE  EverSent \subseteq EverSent'
  <2>1. \A i \in 1 .. Handed : i \in 1 .. Handed' /\ Sent'[i] = Sent[i]
    BY <1>0, <1>1 DEF Sent
  <2> QED
    BY <1>1, <2>1, SentWhen
<1>2. ASSUME UNCHANGED <<sessionVars, ftpcVars>> PROVE EverSent \subseteq EverSent'
  BY <1>1, <1>2 DEF sessionVars, ftpcVars, Handed
<1>3. CASE FtpcStep /\ UNCHANGED sessionVars
  BY <1>1, <1>3, HandsOver DEF FtpcStep, sessionVars
<1>4. CASE RunFtps
  BY <1>1, <1>4 DEF RunFtps, ftpcVars, Handed
<1>5. CASE RunFtpc
  <2>1. ftpcRuns' = ftpcRuns + 1
    BY <1>5 DEF RunFtpc
  <2>2. \A r \in 1 .. ftpcRuns - 1 : r \in 1 .. ftpcRuns' - 1
    BY <1>0, <2>1
  <2>3. ftpcRuns \in 1 .. ftpcRuns' - 1
    BY <1>0, <2>1
  <2>4. \A i \in 1 .. Handed : Sent[i] \in Datagrams[Files[ftpcRuns]]
    BY SentIsOfFile
  <2>5. ASSUME NEW m \in EverSent PROVE \E r \in 1 .. ftpcRuns' - 1 : m \in Datagrams[Files[r]]
    <3>1. CASE \E r \in 1 .. ftpcRuns - 1 : m \in Datagrams[Files[r]]
      BY <2>2, <3>1
    <3>2. CASE \E i \in 1 .. Handed : m = Sent[i]
      BY <2>3, <2>4, <3>2
    <3> QED
      BY <2>5, <3>1, <3>2, SentWhen
  <2> QED
    BY <2>5, SentWhen
<1>6. CASE RestartClientTcpd \/ UNCHANGED allVars
  BY <1>2, <1>6 DEF RestartClientTcpd, allVars, vars
<1>7. CASE (ClientStep \/ ServerStep \/ FtpsStep \/ UNCHANGED vars) /\ UNCHANGED sessionVars
  BY <1>2, <1>7 DEF ClientStep, ServerStep, FtpsStep, vars
<1> QED
  BY <1>3, <1>4, <1>5, <1>6, <1>7 DEF SessionsNext, Next

-------------------------------------------------------------------------------
(***************************************************************************)
(* The invariant of the contents.  One lemma per process, which can only   *)
(* disturb the conjuncts that name its state or its channels.              *)
(***************************************************************************)

(* A step that leaves a place alone leaves what it holds sent. *)
LEMMA PlaceUntouched ==
  ASSUME OriginInv, EverSent \subseteq EverSent'
  PROVE  /\ toTcpd' = toTcpd => HopGenuine'
         /\ clientNodes' = clientNodes /\ clientRing' = clientRing => SlotsGenuine'
         /\ dataNet' \subseteq dataNet => NetGenuine'
         /\ serverRing' = serverRing => ServerRingEmpty'
         /\ UNCHANGED <<toFtps, output, fileName>> => NothingInvented'
<1>1. toTcpd' = toTcpd => HopGenuine'
  BY DEF OriginInv, HopGenuine
<1>2. clientNodes' = clientNodes /\ clientRing' = clientRing => SlotsGenuine'
  BY DEF OriginInv, SlotsGenuine, Genuine
<1>3. dataNet' \subseteq dataNet => NetGenuine'
  BY DEF OriginInv, NetGenuine, Genuine
<1>4. serverRing' = serverRing => ServerRingEmpty'
  BY DEF OriginInv, ServerRingEmpty
<1>5. UNCHANGED <<toFtps, output, fileName>> => NothingInvented'
  BY DEF OriginInv, NothingInvented
<1> QED
  BY <1>1, <1>2, <1>3, <1>4, <1>5

(* What ftpc gives its tcpd counts as sent. *)
LEMMA FtpcOrigin ==
  ASSUME TypeOK, OriginInv, EverSent \subseteq EverSent', FtpcNext
  PROVE  HopGenuine'
<1>0. toTcpd \in Seq(Message) /\ blocks \in Nat
  BY DEF TypeOK, ClientHopTypeOK, FtpcTypeOK
<1>1. ASSUME NEW m, Send(m), m \in EverSent'
      PROVE  HopGenuine'
  <2>1. /\ Len(toTcpd') = Len(toTcpd) + 1 /\ Len(toTcpd) \in Nat
        /\ toTcpd'[Len(toTcpd) + 1] = m
        /\ \A i \in 1 .. Len(toTcpd) : toTcpd'[i] = toTcpd[i]
    BY <1>0, <1>1 DEF Send
  <2>2. ASSUME NEW i \in 1 .. Len(toTcpd') PROVE toTcpd'[i] \in EverSent'
    <3>1. i = Len(toTcpd) + 1 \/ i \in 1 .. Len(toTcpd)
      BY <2>1
    <3> QED
      BY <1>1, <2>1, <3>1 DEF OriginInv, HopGenuine
  <2> QED
    BY <2>2 DEF HopGenuine
<1>2. ASSUME NEW m, NEW i \in Nat \ {0}, Handed' = i, m = StreamMsg(file, i),
             file' = file
      PROVE  m \in EverSent'
  <2>1. i \in 1 .. Handed' /\ Sent'[i] = m
    BY <1>2 DEF Sent
  <2> QED
    BY <2>1, SentWhen
<1>3. CASE SendSize
  <2>1. Handed' = 1 /\ file' = file
    BY <1>3 DEF SendSize, Handed
  <2> QED
    BY <1>1, <1>2, <1>3, <2>1, StreamMsgParts DEF SendSize
<1>4. CASE SendName
  <2>1. Handed' = 2 /\ file' = file
    BY <1>4 DEF SendName, Handed, OriginInv, BlocksInFile
  <2> QED
    BY <1>1, <1>2, <1>4, <2>1, StreamMsgParts DEF SendName
<1>5. CASE SendBlock
  <2>1. Handed' = blocks + 3 /\ file' = file /\ blocks + 3 \in Nat \ {0}
    BY <1>0, <1>5 DEF SendBlock, Handed
  <2>2. DataMsg(file, blocks) = StreamMsg(file, blocks + 3)
    BY <1>0, StreamMsgParts
  <2>3. DataMsg(file, blocks) \in EverSent'
    BY <1>2, <2>1, <2>2
  <2> QED
    BY <1>1, <1>5, <2>3 DEF SendBlock
<1>6. CASE toTcpd' = toTcpd
  BY <1>6, PlaceUntouched
<1> QED
  BY <1>3, <1>4, <1>5, <1>6 DEF FtpcNext, Finish, RecvTcpdAck, clientHop

(* A transmission puts nothing into the network but what a slot holds. *)
LEMMA SendPacketOrigin ==
  ASSUME TypeOK, OriginInv, EverSent \subseteq EverSent',
         NEW seq \in Nat, NEW next, sendPacket(seq, next), UNCHANGED clientRing
  PROVE  SlotsGenuine' /\ NetGenuine'
<1> DEFINE found == findNodeBySeq(clientNodes, seq)
<1>1. \A s \in Slot : clientNodes[s] \in Node
  BY DEF TypeOK, ClientTypeOK
<1>2. \A s \in Slot : /\ clientNodes'[s].seq = clientNodes[s].seq
                      /\ clientNodes'[s].bytes = clientNodes[s].bytes
  BY <1>1, SMT DEF sendPacket, Node
<1>3. SlotsGenuine'
  BY <1>2 DEF OriginInv, SlotsGenuine, Genuine
<1>4. \A p \in dataNet' : p \in dataNet \/ ~p.ok \/ \E s \in found : p = PacketOf(s)
  BY DEF sendPacket, DataFates, Garbled
<1>5. ASSUME NEW s \in found
      PROVE  Genuine(PacketOf(s).body, PacketOf(s).bytes)
  <2>1. s \in Slot /\ clientNodes[s].seq # -1
    BY DEF findNodeBySeq
  <2> QED
    BY <2>1 DEF PacketOf, OriginInv, SlotsGenuine
<1>6. NetGenuine'
  BY <1>4, <1>5 DEF OriginInv, NetGenuine, Genuine
<1> QED
  BY <1>3, <1>6

(* The client daemon keeps body and length together: in the slot it takes a
   datagram into, in a slot whose node it marks, and in what it transmits. *)
LEMMA ClientOrigin ==
  ASSUME TypeOK, OriginInv, EverSent \subseteq EverSent', ClientNext
  PROVE  HopGenuine' /\ SlotsGenuine' /\ NetGenuine'
<1>0. /\ armed \subseteq Nat /\ sb \in Nat /\ toTcpd \in Seq(Message)
      /\ \A s \in Slot : clientNodes[s] \in Node
  BY DEF TypeOK, ClientTypeOK, ClientHopTypeOK
<1>1. CASE RecvLocal
  <2>1. PICK slot \in Slot :
          /\ clientNodes'[slot].seq = sn
          /\ clientNodes'[slot].bytes = Head(toTcpd).bytes
          /\ clientRing'.cBuffer[slot] = Head(toTcpd).body
          /\ \A s \in Slot \ {slot} :
               /\ clientNodes'[s] = clientNodes[s]
               /\ clientRing'.cBuffer[s] = clientRing.cBuffer[s]
    BY <1>1, TakesUp
  <2>2. /\ Head(toTcpd) = toTcpd[1] /\ 1 \in 1 .. Len(toTcpd) /\ Head(toTcpd) \in Message
        /\ \A i \in 1 .. Len(toTcpd') : toTcpd'[i] = toTcpd[i + 1] /\ i + 1 \in 1 .. Len(toTcpd)
    BY <1>0, <1>1 DEF RecvLocal
  <2>3. HopGenuine'
    BY <2>2 DEF OriginInv, HopGenuine
  <2>4. Genuine(Head(toTcpd).body, Head(toTcpd).bytes)
    BY <2>2, MessageParts DEF OriginInv, HopGenuine, Genuine
  <2>5. SlotsGenuine'
    BY <2>1, <2>4 DEF OriginInv, SlotsGenuine, Genuine
  <2>6. dataNet' = dataNet
    BY <1>1 DEF RecvLocal, trollVars
  <2> QED
    BY <2>3, <2>5, <2>6, PlaceUntouched
<1>2. ASSUME NEW ack \in ackNet, RecvAck(ack)
      PROVE  HopGenuine' /\ SlotsGenuine' /\ NetGenuine'
  <2>1. \A s \in Slot : /\ clientNodes'[s].seq = clientNodes[s].seq
                        /\ clientNodes'[s].bytes = clientNodes[s].bytes
    BY <1>0, <1>2, SMT DEF RecvAck, Acknowledged, Node
  <2>2. clientRing' = clientRing /\ toTcpd' = toTcpd /\ dataNet' = dataNet
    BY <1>2 DEF RecvAck, clientHop
  <2>3. SlotsGenuine'
    BY <2>1, <2>2 DEF OriginInv, SlotsGenuine, Genuine
  <2> QED
    BY <2>2, <2>3, PlaceUntouched
<1>3. ASSUME NEW seq \in Nat, NEW next, sendPacket(seq, next), UNCHANGED <<clientRing, toTcpd>>
      PROVE  HopGenuine' /\ SlotsGenuine' /\ NetGenuine'
  BY <1>3, SendPacketOrigin, PlaceUntouched
<1>4. ASSUME NEW seq \in Timeouts, RecvTimeout(seq)
      PROVE  HopGenuine' /\ SlotsGenuine' /\ NetGenuine'
  BY <1>0, <1>3, <1>4 DEF RecvTimeout, Timeouts, clientHop
<1>5. CASE Transmit
  BY <1>0, <1>3, <1>5 DEF Transmit, clientHop
<1>6. CASE UNCHANGED <<clientNodes, clientRing, toTcpd, dataNet>>
  BY <1>6, PlaceUntouched
<1> QED
  BY <1>1, <1>2, <1>4, <1>5, <1>6
  DEF ClientNext, LocalTimeout, GateClosed, RecvNak, AckTimeout, RecvStaleTimeout,
      NoTimeout, NothingToTransmit, clientHop, trollVars

(* The server daemon passes on what passed the check. *)
LEMMA ServerOrigin ==
  ASSUME TypeOK, OriginInv, EverSent \subseteq EverSent', ServerNext,
         UNCHANGED <<output, fileName>>
  PROVE  NetGenuine' /\ ServerRingEmpty' /\ NothingInvented'
<1>1. ASSUME NEW p \in dataNet, RecvCorrupt(p) \/ RecvUnexpected(p)
      PROVE  NetGenuine' /\ ServerRingEmpty' /\ NothingInvented'
  <2>1. dataNet' \subseteq dataNet /\ serverRing' = serverRing /\ toFtps' = toFtps
    BY <1>1 DEF RecvCorrupt, RecvUnexpected, Remainders, serverVars, serverHop
  <2> QED
    BY <2>1, PlaceUntouched
<1>2. ASSUME NEW p \in dataNet, RecvExpected(p)
      PROVE  NetGenuine' /\ ServerRingEmpty' /\ NothingInvented'
  <2> DEFINE m == [body |-> p.body, bytes |-> p.bytes]
  <2>1. p.ok /\ PassOn(p) /\ dataNet' \subseteq dataNet
    BY <1>2 DEF RecvExpected, PassOn, Remainders
  <2>2. m \in EverSent
    BY <2>1 DEF OriginInv, NetGenuine, Genuine
  <2>3. ServerRingEmpty' /\ (toFtps' = Append(toFtps, m) \/ toFtps' = toFtps)
    BY <2>1, PassesOn DEF OriginInv
  <2>4. toFtps \in Seq(Datagram)
    BY DEF TypeOK, ServerHopTypeOK
  <2>5. NothingInvented'
    <3>1. CASE toFtps' = toFtps
      BY <3>1, PlaceUntouched
    <3>2. CASE toFtps' = Append(toFtps, m)
      <4> HIDE DEF m
      <4>1. /\ Len(toFtps') = Len(toFtps) + 1 /\ Len(toFtps) \in Nat
            /\ toFtps'[Len(toFtps) + 1] = m
            /\ \A i \in 1 .. Len(toFtps) : toFtps'[i] = toFtps[i]
        BY <2>4, <3>2
      <4>2. ASSUME NEW i \in 1 .. Len(toFtps') PROVE toFtps'[i] \in EverSent
        <5>1. i = Len(toFtps) + 1 \/ i \in 1 .. Len(toFtps)
          BY <4>1
        <5> QED
          BY <2>2, <4>1, <5>1 DEF OriginInv, NothingInvented
      <4> QED
        BY <4>2 DEF OriginInv, NothingInvented
    <3> QED
      BY <2>3, <3>1, <3>2
  <2> QED
    BY <2>1, <2>3, <2>5, PlaceUntouched
<1>3. CASE RecvFtpsAck
  <2>1. dataNet' \subseteq dataNet /\ serverRing' = serverRing /\ toFtps' = toFtps
    BY <1>3 DEF RecvFtpsAck
  <2> QED
    BY <2>1, PlaceUntouched
<1> QED
  BY <1>1, <1>2, <1>3 DEF ServerNext

(* ftps keeps what it reads. *)
LEMMA FtpsOrigin ==
  ASSUME TypeOK, OriginInv, EverSent \subseteq EverSent', FtpsNext
  PROVE  NothingInvented'
<1>0. toFtps \in Seq(Datagram) /\ output \in Seq(Datagram)
  BY DEF TypeOK, ServerHopTypeOK, FtpsTypeOK
<1>1. ASSUME toFtps # <<>>, toFtps' = Tail(toFtps) \/ toFtps' = <<>>
      PROVE  \A i \in 1 .. Len(toFtps') : toFtps'[i] \in EverSent
  <2>1. \A i \in 1 .. Len(toFtps') : i + 1 \in 1 .. Len(toFtps) /\ toFtps'[i] = toFtps[i + 1]
    BY <1>0, <1>1
  <2> QED
    BY <2>1 DEF OriginInv, NothingInvented
<1>2. ASSUME toFtps # <<>> PROVE Head(toFtps) \in EverSent
  <2>1. Head(toFtps) = toFtps[1] /\ 1 \in 1 .. Len(toFtps)
    BY <1>0, <1>2
  <2> QED
    BY <2>1 DEF OriginInv, NothingInvented
<1>3. CASE RecvSize
  BY <1>1, <1>3 DEF RecvSize, OriginInv, NothingInvented
<1>4. CASE RecvName \/ RecvNameOpenFails
  <2>1. /\ toFtps # <<>> /\ (toFtps' = Tail(toFtps) \/ toFtps' = <<>>)
        /\ output' = output /\ fileName' = Head(toFtps).body
    BY <1>4 DEF RecvName, RecvNameOpenFails, ReadOn
  <2> QED
    BY <1>1, <1>2, <2>1 DEF OriginInv, NothingInvented
<1>5. CASE RecvData
  <2>1. /\ toFtps # <<>> /\ (toFtps' = Tail(toFtps) \/ toFtps' = <<>>)
        /\ output' = Append(output, Head(toFtps)) /\ fileName' = fileName
    BY <1>5 DEF RecvData, ReadOn
  <2>2. /\ Len(output') = Len(output) + 1 /\ Len(output) \in Nat
        /\ output'[Len(output) + 1] = Head(toFtps)
        /\ \A i \in 1 .. Len(output) : output'[i] = output[i]
    BY <1>0, <2>1
  <2>3. ASSUME NEW i \in 1 .. Len(output') PROVE output'[i] \in EverSent
    <3>1. i = Len(output) + 1 \/ i \in 1 .. Len(output)
      BY <2>2
    <3> QED
      BY <1>2, <2>1, <2>2, <3>1 DEF OriginInv, NothingInvented
  <2> QED
    BY <1>1, <2>1, <2>3 DEF OriginInv, NothingInvented
<1>6. CASE StartFtps
  BY <1>6, PlaceUntouched DEF StartFtps
<1>7. CASE RecvShort
  BY <1>1, <1>7 DEF RecvShort, OriginInv, NothingInvented
<1> QED
  BY <1>3, <1>4, <1>5, <1>6, <1>7 DEF FtpsNext

(* Nothing was sent yet, and nothing is kept. *)
LEMMA OriginInit == SessionsInit => OriginInv
<1> SUFFICES ASSUME SessionsInit PROVE OriginInv
  OBVIOUS
<1>1. file = Files[ftpcRuns]
  BY DEF SessionsInit
<1>2. BlocksInFile /\ ServerRingEmpty
  BY IInvInit DEF SessionsInit, IInv, PathInv
<1>3. /\ toTcpd = <<>> /\ clientNodes = EmptyList /\ dataNet = {} /\ toFtps = <<>>
      /\ output = <<>> /\ fileName = NoName
  BY DEF SessionsInit, Init, ClientInit, FtpsInit
<1>4. HopGenuine /\ SlotsGenuine /\ NetGenuine
  BY <1>3 DEF HopGenuine, SlotsGenuine, NetGenuine, EmptyList, NoNode
<1>5. NothingInvented
  BY <1>3 DEF NothingInvented
<1> QED
  BY <1>1, <1>2, <1>4, <1>5 DEF OriginInv

(* No step of a process, no start of one and no restart of the client daemon
   makes up a datagram. *)
LEMMA OriginStep ==
  ASSUME TypeOK, RunsOK, OriginInv, [SessionsNext]_allVars
  PROVE  OriginInv'
<1>0. EverSent \subseteq EverSent' /\ BlocksInFile
  BY SentStays DEF OriginInv
<1>1. ASSUME UNCHANGED <<ftpcVars, ftpcRuns>>
      PROVE  file' = Files[ftpcRuns'] /\ BlocksInFile'
  BY <1>1 DEF OriginInv, BlocksInFile, ftpcVars
<1>2. CASE FtpcStep /\ UNCHANGED sessionVars
  <2>1. file' = Files[ftpcRuns'] /\ BlocksInFile'
    BY <1>0, <1>2, HandsOver, BlocksStep DEF FtpcStep, OriginInv, sessionVars
  <2>2. UNCHANGED <<clientNodes, clientRing, dataNet, serverRing, toFtps, output, fileName>>
    BY <1>2 DEF FtpcStep, clientVars, serverVars, ftpsVars, serverHop, trollVars
  <2> QED
    BY <1>0, <1>2, <2>1, <2>2, FtpcOrigin, PlaceUntouched DEF FtpcStep, OriginInv
<1>3. CASE ClientStep /\ UNCHANGED sessionVars
  <2>1. UNCHANGED <<ftpcVars, ftpcRuns, serverRing, toFtps, output, fileName>>
    BY <1>3 DEF ClientStep, sessionVars, serverVars, ftpsVars, serverHop
  <2> QED
    BY <1>0, <1>1, <1>3, <2>1, ClientOrigin, PlaceUntouched DEF ClientStep, OriginInv
<1>4. CASE ServerStep /\ UNCHANGED sessionVars
  <2>1. UNCHANGED <<ftpcVars, ftpcRuns, toTcpd, clientNodes, clientRing, output, fileName>>
    BY <1>4 DEF ServerStep, sessionVars, clientVars, clientHop, ftpsVars
  <2> QED
    BY <1>0, <1>1, <1>4, <2>1, ServerOrigin, PlaceUntouched DEF ServerStep, OriginInv
<1>5. CASE FtpsStep /\ UNCHANGED sessionVars
  <2>1. UNCHANGED <<ftpcVars, ftpcRuns, toTcpd, clientNodes, clientRing, dataNet, serverRing>>
    BY <1>5 DEF FtpsStep, sessionVars, clientVars, clientHop, serverVars, trollVars
  <2> QED
    BY <1>0, <1>1, <1>5, <2>1, FtpsOrigin, PlaceUntouched DEF FtpsStep, OriginInv
<1>6. CASE UNCHANGED allVars
  <2>1. /\ UNCHANGED <<ftpcVars, ftpcRuns, toTcpd, clientNodes, clientRing, dataNet>>
        /\ UNCHANGED <<serverRing, toFtps, output, fileName>>
    BY <1>6 DEF allVars, vars, sessionVars, clientVars, clientHop, serverVars, trollVars,
                ftpsVars, serverHop
  <2> QED
    BY <1>0, <1>1, <2>1, PlaceUntouched DEF OriginInv
<1>7. CASE RunFtps
  <2>1. /\ UNCHANGED <<ftpcVars, ftpcRuns, toTcpd, clientNodes, clientRing, dataNet,
                       serverRing, toFtps>>
        /\ output' = <<>> /\ fileName' = NoName
    BY <1>7 DEF RunFtps, clientVars, clientHop, serverVars, trollVars
  <2>2. NothingInvented'
    BY <1>0, <2>1 DEF OriginInv, NothingInvented
  <2> QED
    BY <1>0, <1>1, <2>1, <2>2, PlaceUntouched DEF OriginInv
<1>8. CASE RunFtpc
  <2>1. /\ UNCHANGED <<toTcpd, clientNodes, clientRing, dataNet, serverRing, toFtps,
                       output, fileName>>
        /\ ftpcPc' = "sendSize" /\ blocks' = 0
        /\ ftpcRuns' = ftpcRuns + 1 /\ file' = Files[ftpcRuns + 1]
    BY <1>8 DEF RunFtpc, clientVars, serverVars, serverHop, trollVars, ftpsVars
  <2>2. BlocksInFile'
    BY <2>1, SMT DEF BlocksInFile
  <2> QED
    BY <1>0, <2>1, <2>2, PlaceUntouched DEF OriginInv
<1>9. CASE RestartClientTcpd
  <2>1. /\ UNCHANGED <<ftpcVars, ftpcRuns, dataNet, serverRing, toFtps, output, fileName>>
        /\ toTcpd' = <<>> /\ clientNodes' = EmptyList
    BY <1>9 DEF RestartClientTcpd, sessionVars, serverVars, serverHop, trollVars, ftpsVars
  <2>2. HopGenuine' /\ SlotsGenuine'
    BY <2>1 DEF HopGenuine, SlotsGenuine, EmptyList, NoNode
  <2> QED
    BY <1>0, <1>1, <2>1, <2>2, PlaceUntouched DEF OriginInv
<1> QED
  BY <1>2, <1>3, <1>4, <1>5, <1>6, <1>7, <1>8, <1>9 DEF SessionsNext, Next, allVars

(* Wherever a body and a length are kept together, one ftpc sent them together. *)
THEOREM OriginInvariance == SessionsSpec => [](TypeOK /\ RunsOK /\ OriginInv)
<1>1. SessionsInit => TypeOK /\ RunsOK /\ OriginInv
  BY SessionsStart, OriginInit
<1>2. TypeOK /\ RunsOK /\ OriginInv /\ [SessionsNext]_allVars
        => (TypeOK /\ RunsOK /\ OriginInv)'
  BY SessionsTypeStep, OriginStep
<1> QED
  BY <1>1, <1>2, PTL DEF SessionsSpec

(* Nothing that reaches ftps is made up: through restarts of the client daemon, on
   any network, damaged acknowledgements included, and whenever ftps is started,
   it reads and writes whole datagrams that some ftpc has sent. *)
THEOREM NothingMadeUp == SessionsSpec => []NothingInvented
<1>1. OriginInv => NothingInvented
  BY DEF OriginInv
<1> QED
  BY <1>1, OriginInvariance, PTL
===============================================================================
