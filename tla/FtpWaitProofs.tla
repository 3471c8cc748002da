---------------------------- MODULE FtpWaitProofs ----------------------------
(***************************************************************************)
(* Theorems about who waits, and for what: no process waits, without a     *)
(* timeout, for what no other will do.  They are for acknowledgements that *)
(* arrive undamaged, for files whose lengths are ints, and for an ftps     *)
(* that is there first and can open its file; FtpSystem's properties tell  *)
(* what happens otherwise.                                                 *)
(***************************************************************************)
EXTENDS FtpGateProofs

(* An ftps that has closed its file has read all that ftpc will ever send, and its
   daemon has counted all of it but perhaps the last. *)
LEMMA DoneHasAll ==
  ASSUME NEW first \in Nat, FilesFit, TypeOK, PathInv(first), FtpsTotals,
         ftpsPc = "done"
  PROVE  /\ Taken = Handed /\ Handed > 1 /\ ~HasBlock(file, blocks)
         /\ toTcpd = <<>> /\ toFtps = <<>>
         /\ \/ serverPc = "recv" /\ ftpsAcks = 0 /\ rn = sn
            \/ serverPc = "wait" /\ ftpsAcks = 1 /\ rn + 1 = sn
<1>1. /\ sn \in Nat /\ rn \in Nat /\ blocks \in Nat /\ Len(output) \in Nat
      /\ Taken = 2 + Len(output)
  BY DEF TypeOK, ClientTypeOK, ServerTypeOK, FtpcTypeOK, FtpsTypeOK, Taken
<1>2. /\ Handed \in Nat /\ Taken <= Handed
      /\ first + Taken <= sn /\ sn <= first + Handed
  BY TakenBounds
<1>3. Handed > 1 /\ Handed = 2 + blocks
  BY <1>1, <1>2, SMT DEF Handed
<1>4. Len(output) = blocks
  <2>1. ~HasBlock(file, Len(output)) /\ \A k \in 0 .. blocks - 1 : HasBlock(file, k)
    BY DEF FilesFit, TypeOK, FtpcTypeOK, FtpsTotals, PathInv, BlocksInFile
  <2>2. Len(output) \notin 0 .. blocks - 1
    BY <2>1
  <2> QED
    BY <1>1, <1>2, <1>3, <2>2
<1>5. Taken = Handed /\ sn = first + Handed /\ ~HasBlock(file, blocks)
  BY <1>1, <1>2, <1>3, <1>4 DEF FilesFit, TypeOK, FtpcTypeOK, FtpsTotals
<1>6. toTcpd = <<>>
  BY <1>1, <1>2, <1>5, SMT DEF PathInv, LocalHop
<1>7. /\ toFtps = <<>>
      /\ \/ serverPc = "recv" /\ ftpsAcks = 0 /\ rn = sn
         \/ serverPc = "wait" /\ ftpsAcks = 1 /\ rn + 1 = sn
  BY <1>1, <1>2, <1>5, SMT DEF PathInv, ServerHop
<1> QED
  BY <1>3, <1>5, <1>6, <1>7

(* The server daemon is never handed a datagram for an ftps that has exited. *)
LEMMA ExpectedIsAwaited ==
  ASSUME NEW first \in Nat, FilesFit, TypeOK, PathInv(first), FtpsTotals,
         NEW p \in dataNet, RecvExpected(p)
  PROVE  ftpsPc # "done"
<1> SUFFICES ASSUME ftpsPc = "done" PROVE FALSE
  OBVIOUS
<1>1. serverPc = "recv" /\ p.ok /\ p.seq = rn
  BY DEF RecvExpected
<1>2. rn \in 0 .. sn - 1
  BY <1>1 DEF PathInv, NetHolds, Carries
<1>3. rn = sn
  BY <1>1, DoneHasAll
<1>4. sn \in Nat
  BY DEF TypeOK, ClientTypeOK
<1> QED
  BY <1>2, <1>3, <1>4

(* A slot is filled with a number not below sb, and sb moves past a number only
   when its node is marked. *)
LEMMA UnackedStep ==
  ASSUME TypeOK, sb <= sn, FilledInOrder, UnackedIsOutstanding, [Next]_vars
  PROVE  UnackedIsOutstanding'
<1>0. /\ sn \in Nat /\ sb \in Nat /\ armed \subseteq Nat
      /\ clientNodes \in [Slot -> Node]
  BY DEF TypeOK, ClientTypeOK
<1>1. ASSUME sb' = sb,
             \A s \in Slot : /\ clientNodes'[s].seq = clientNodes[s].seq
                             /\ clientNodes'[s].ack = clientNodes[s].ack
                             /\ clientNodes[s] = NoNode => clientNodes'[s] = NoNode
      PROVE  UnackedIsOutstanding'
  BY <1>1 DEF UnackedIsOutstanding
<1>2. CASE UNCHANGED clientVars
  BY <1>1, <1>2 DEF clientVars
<1>3. CASE RecvLocal
  <2> DEFINE end == clientRing.end
  <2>1. SlotReady(clientNodes, end)
    <3>1. bufferReady < Slots /\ bufferReady \in Nat /\ Slots \in Nat /\ end \in Slot
      BY <1>3, SlotsAssumption DEF RecvLocal, TypeOK, ClientTypeOK, Ring
    <3>2. end = bufferReady
      BY <3>1, SMT DEF FilledInOrder
    <3> QED
      BY <3>1, <3>2 DEF FilledInOrder
  <2>2. /\ clientNodes'[end].seq = sn
        /\ \A s \in Slot \ {end} : clientNodes'[s] = clientNodes[s]
    BY <1>3, <2>1, FillsEnd
  <2>3. sb' = sb
    BY <1>3 DEF RecvLocal
  <2> QED
    BY <2>2, <2>3 DEF UnackedIsOutstanding
<1>4. ASSUME NEW ack \in ackNet, RecvAck(ack)
      PROVE  UnackedIsOutstanding'
  <2>1. sb' = sb + 1 /\ clientNodes' = Acknowledged(sb)
    <3>1. ack = sb + 1 /\ ack - 1 = sb
      BY <1>0, <1>4 DEF RecvAck
    <3> QED
      BY <1>4, <3>1 DEF RecvAck
  <2>2. ASSUME NEW s \in Slot, clientNodes'[s] # NoNode, clientNodes'[s].ack = 0
        PROVE  sb + 1 <= clientNodes'[s].seq
    <3>1. clientNodes[s] \in Node /\ clientNodes[s].seq \in Nat \cup {-1}
      BY <1>0 DEF Node
    <3>2. clientNodes[s].seq # sb
      BY <2>1, <2>2, <3>1 DEF Acknowledged, findNodeBySeq, Node
    <3>3. clientNodes'[s] = clientNodes[s]
      BY <2>1, <3>2 DEF Acknowledged, findNodeBySeq
    <3>4. sb <= clientNodes[s].seq
      BY <2>2, <3>3 DEF UnackedIsOutstanding
    <3> QED
      BY <1>0, <2>2, <3>1, <3>2, <3>3, <3>4
  <2> QED
    BY <2>1, <2>2 DEF UnackedIsOutstanding
<1>5. ASSUME NEW seq \in Nat, NEW next, sendPacket(seq, next), sb' = sb
      PROVE  UnackedIsOutstanding'
  <2>1. NoNode.seq # seq
    BY <1>5, SMT DEF NoNode
  <2> QED
    BY <1>0, <1>1, <1>5, <2>1, SendPacketNodes
<1>6. ASSUME NEW seq \in Timeouts, RecvTimeout(seq)
      PROVE  UnackedIsOutstanding'
  BY <1>0, <1>5, <1>6 DEF RecvTimeout, Timeouts
<1>7. CASE Transmit
  BY <1>0, <1>5, <1>7 DEF Transmit
<1>8. CASE ClientStep
  <2>1. ASSUME UNCHANGED <<sb, clientNodes>> PROVE UnackedIsOutstanding'
    BY <1>1, <2>1
  <2>2. CASE \/ LocalTimeout \/ GateClosed \/ AckTimeout \/ NoTimeout \/ NothingToTransmit
             \/ \E ack \in ackNet : RecvNak(ack)
             \/ \E seq \in Timeouts : RecvStaleTimeout(seq)
    BY <2>1, <2>2 DEF LocalTimeout, GateClosed, AckTimeout, NoTimeout, NothingToTransmit,
                      RecvNak, RecvStaleTimeout
  <2> QED
    BY <1>3, <1>4, <1>6, <1>7, <1>8, <2>2 DEF ClientStep, ClientNext
<1> QED
  BY <1>2, <1>8 DEF Next, FtpcStep, ServerStep, FtpsStep, vars

(* The daemon opens its gate whenever it finds all slots acknowledged. *)
LEMMA GateClosedStep ==
  ASSUME TypeOK, GateClosedForCause, [Next]_vars
  PROVE  GateClosedForCause'
<1>1. CASE UNCHANGED clientVars
  BY <1>1 DEF GateClosedForCause, clientVars
<1>2. ASSUME NEW filled, LeaveLocal(filled, clientNodes')
      PROVE  GateClosedForCause'
  <2>1. 0 # Slots
    BY SlotsAssumption
  <2>2. bufferReady' = Slots => ~cBufferReady(clientNodes')
    BY <1>2, <2>1 DEF LeaveLocal
  <2> QED
    BY <2>2 DEF GateClosedForCause, cBufferReady
<1>3. CASE RecvLocal \/ LocalTimeout \/ GateClosed
  <2>1. \E filled : LeaveLocal(filled, clientNodes')
    BY <1>3 DEF RecvLocal, LocalTimeout, GateClosed
  <2> QED
    BY <1>2, <2>1
<1>4. CASE ClientStep
  <2>1. ASSUME clientPc' # "recvAck" PROVE GateClosedForCause'
    BY <2>1 DEF GateClosedForCause
  <2>2. CASE \/ \E ack \in ackNet : RecvAck(ack) \/ RecvNak(ack)
             \/ \E seq \in Timeouts : RecvTimeout(seq) \/ RecvStaleTimeout(seq)
             \/ AckTimeout \/ NoTimeout \/ Transmit \/ NothingToTransmit
    BY <2>1, <2>2 DEF RecvAck, RecvNak, AckTimeout, RecvTimeout, RecvStaleTimeout,
                      NoTimeout, Transmit, NothingToTransmit, sendPacket
  <2> QED
    BY <1>3, <1>4, <2>2 DEF ClientStep, ClientNext
<1> QED
  BY <1>1, <1>4 DEF Next, FtpcStep, ServerStep, FtpsStep, vars

(* The first two turns of the daemon's loop read ftpc's first two datagrams. *)
LEMMA PatientStep ==
  ASSUME TypeOK, PatientReads, [Next]_vars
  PROVE  PatientReads'
<1>0. Slots \in Nat /\ Slots # 0 /\ sn \in Nat
  BY SlotsAssumption DEF TypeOK, ClientTypeOK
<1>1. CASE UNCHANGED clientVars
  BY <1>1 DEF PatientReads, clientVars
<1>2. CASE RecvLocal
  <2>1. firstRun' = FALSE /\ sn' = sn + 1 /\ localTimeo' = (localTimeo \/ ~firstRun)
    BY <1>2 DEF RecvLocal, LeaveLocal
  <2>2. ~localTimeo' => sn = 0
    BY <2>1 DEF PatientReads
  <2> QED
    BY <2>1, <2>2 DEF PatientReads
<1>3. CASE LocalTimeout \/ GateClosed
  <2>1. firstRun' = FALSE /\ sn' = sn /\ localTimeo' = (localTimeo \/ ~firstRun)
    BY <1>3 DEF LocalTimeout, GateClosed, LeaveLocal
  <2>2. firstRun => localTimeo
    BY <1>0, <1>3 DEF LocalTimeout, GateClosed, PatientReads
  <2>3. localTimeo'
    BY <2>1, <2>2, Zenon
  <2> QED
    BY <2>1, <2>3 DEF PatientReads
<1>4. CASE ClientStep
  <2>1. CASE UNCHANGED <<sn, bufferReady, firstRun, localTimeo>> /\ clientPc # "recvLocal"
    BY <2>1 DEF PatientReads
  <2>2. CASE \/ \E ack \in ackNet : RecvAck(ack) \/ RecvNak(ack)
             \/ \E seq \in Timeouts : RecvTimeout(seq) \/ RecvStaleTimeout(seq)
             \/ AckTimeout \/ NoTimeout \/ Transmit \/ NothingToTransmit
    BY <2>1, <2>2 DEF RecvAck, RecvNak, AckTimeout, RecvTimeout, RecvStaleTimeout,
                      NoTimeout, Transmit, NothingToTransmit
  <2> QED
    BY <1>2, <1>3, <1>4, <2>2 DEF ClientStep, ClientNext
<1> QED
  BY <1>1, <1>4 DEF Next, FtpcStep, ServerStep, FtpsStep, vars

(* ftps closes its socket when it has the whole file, and not before. *)
LEMMA ServedStep ==
  ASSUME ~OpenMayFail, ~RecvShort, ServedToTheEnd, [Next]_vars
  PROVE  ServedToTheEnd'
<1>1. CASE UNCHANGED <<ftpsPc, ftpsBound>>
  BY <1>1 DEF ServedToTheEnd
<1>2. CASE FtpsStep
  <2>1. CASE RecvSize
    BY <2>1 DEF RecvSize, ServedToTheEnd
  <2>2. CASE RecvName \/ RecvData
    <3>1. PICK total : ReadOn(total)
      BY <2>2 DEF RecvName, RecvData
    <3>2. CASE total < fileSize
      BY <3>1, <3>2 DEF ReadOn, ServedToTheEnd
    <3>3. CASE ~(total < fileSize)
      BY <3>1, <3>3 DEF ReadOn, ServedToTheEnd
    <3> QED
      BY <3>2, <3>3
  <2> QED
    BY <1>2, <2>1, <2>2 DEF FtpsStep, FtpsNext, StartFtps, RecvNameOpenFails, ServedToTheEnd
<1>3. CASE FtpcStep \/ ClientStep \/ UNCHANGED vars
  BY <1>1, <1>3 DEF FtpcStep, ClientStep, vars, ftpsVars, serverHop
<1>4. CASE ServerStep
  BY <1>1, <1>4 DEF ServerStep, ServerNext, RecvCorrupt, RecvExpected, PassOn, RecvUnexpected,
                    RecvFtpsAck, ftpsVars, serverHop
<1> QED
  BY <1>2, <1>3, <1>4 DEF Next

(* ftpc exits only when its file has no more blocks. *)
LEMMA SentStep ==
  ASSUME SentToTheEnd, [Next]_vars
  PROVE  SentToTheEnd'
<1>1. CASE UNCHANGED ftpcVars
  BY <1>1 DEF SentToTheEnd, ftpcVars
<1>2. CASE FtpcStep
  BY <1>2 DEF FtpcStep, FtpcNext, SendSize, SendName, SendBlock, Finish, RecvTcpdAck,
              SentToTheEnd
<1> QED
  BY <1>1, <1>2 DEF Next, ClientStep, ServerStep, FtpsStep, vars

(* What the server daemon passes on is queued, as ftps has its port bound, and
   ftps answers whatever it takes from the queue. *)
LEMMA AnsweredStep ==
  ASSUME ~RecvShort, TypeOK, ServedToTheEnd, ForwardedIsAnswered, [Next]_vars,
         \A p \in dataNet : RecvExpected(p) => ftpsPc # "done"
  PROVE  ForwardedIsAnswered'
<1>0. toFtps \in Seq(Datagram) /\ ftpsAcks \in Nat
  BY DEF TypeOK, ServerHopTypeOK
<1>1. CASE UNCHANGED <<serverPc, toFtps, ftpsAcks>>
  BY <1>1 DEF ForwardedIsAnswered
<1>2. CASE FtpcStep \/ ClientStep \/ UNCHANGED vars
  BY <1>1, <1>2 DEF FtpcStep, ClientStep, vars, serverVars, serverHop
<1>3. CASE ServerStep
  <2>1. ASSUME NEW p \in dataNet, RecvCorrupt(p) \/ RecvUnexpected(p)
        PROVE  ForwardedIsAnswered'
    BY <1>1, <2>1 DEF RecvCorrupt, RecvUnexpected, serverVars, serverHop
  <2>2. ASSUME NEW p \in dataNet, RecvExpected(p)
        PROVE  ForwardedIsAnswered'
    <3>1. ftpsBound
      BY <2>2 DEF ServedToTheEnd
    <3>2. \E m : toFtps' = Append(toFtps, m)
      BY <2>2, <3>1 DEF RecvExpected, PassOn, Forward
    <3>3. toFtps' # <<>>
      BY <1>0, <3>2
    <3> QED
      BY <3>3 DEF ForwardedIsAnswered
  <2>3. CASE RecvFtpsAck
    BY <2>3 DEF RecvFtpsAck, ForwardedIsAnswered
  <2> QED
    BY <1>3, <2>1, <2>2, <2>3 DEF ServerStep, ServerNext
<1>4. CASE FtpsStep
  <2>1. CASE StartFtps
    BY <2>1 DEF StartFtps, ServedToTheEnd
  <2>2. CASE RecvSize \/ RecvName \/ RecvNameOpenFails \/ RecvData
    <3>1. ftpsAcks' = ftpsAcks + 1
      BY <2>2 DEF RecvSize, RecvName, RecvNameOpenFails, RecvData
    <3> QED
      BY <1>0, <3>1 DEF ForwardedIsAnswered
  <2> QED
    BY <1>4, <2>1, <2>2 DEF FtpsStep, FtpsNext
<1> QED
  BY <1>2, <1>3, <1>4 DEF Next

(* Nothing was sent, and ftps has its port bound. *)
LEMMA WaitInit == ASSUME ServerFirst, Init PROVE WaitInv
<1>1. /\ clientNodes = EmptyList /\ sn = 0 /\ sb = 0 /\ bufferReady = 0
      /\ clientPc = "recvLocal"
  BY DEF Init, ClientInit
<1>2. UnackedIsOutstanding
  BY <1>1 DEF UnackedIsOutstanding, EmptyList
<1>3. PatientReads /\ GateClosedForCause
  BY <1>1 DEF PatientReads, GateClosedForCause
<1>4. ServedToTheEnd
  BY DEF Init, FtpsInit, ServedToTheEnd
<1>5. SentToTheEnd /\ ForwardedIsAnswered
  BY DEF Init, FtpcInit, ServerInit, SentToTheEnd, ForwardedIsAnswered
<1> QED
  BY <1>2, <1>3, <1>4, <1>5 DEF WaitInv

(* No step of any process disturbs the invariant of the waits. *)
LEMMA WaitStep ==
  ASSUME ~OpenMayFail, ~RecvShort, TypeOK, sb <= sn, FilledInOrder, WaitInv, [Next]_vars,
         \A p \in dataNet : RecvExpected(p) => ftpsPc # "done"
  PROVE  WaitInv'
BY UnackedStep, GateClosedStep, PatientStep, ServedStep, SentStep, AnsweredStep DEF WaitInv

(* The client daemon has counted no more than it has numbered. *)
LEMMA BaseIsNumbered ==
  ASSUME NEW first \in Nat, TypeOK, PathInv(first), WindowInv
  PROVE  sb <= sn
BY SMT DEF PathInv, ServerHop, WindowInv, Level, TypeOK, ClientTypeOK, ServerTypeOK

(* Whoever is there first and opens its file: nobody waits for what nobody does. *)
THEOREM Waits ==
  ASSUME FilesFit, ServerFirst, ~OpenMayFail, ~GarbleAcks
  PROVE  Spec => [](TypeOK /\ IInv /\ GateInv /\ WindowInv /\ WaitInv)
<1>1. TypeOK /\ IInv /\ GateInv /\ WindowInv /\ WaitInv /\ [Next]_vars => WaitInv'
  <2> SUFFICES ASSUME TypeOK, IInv, GateInv, WindowInv, WaitInv, [Next]_vars
               PROVE  WaitInv'
    OBVIOUS
  <2>1. 0 \in Nat /\ PathInv(0)
    BY DEF IInv
  <2>2. sb <= sn
    BY <2>1, BaseIsNumbered
  <2>3. \A p \in dataNet : RecvExpected(p) => ftpsPc # "done"
    BY <2>1, ExpectedIsAwaited DEF GateInv
  <2>4. ~RecvShort
    BY <2>1, NoneTooShort DEF PathInv
  <2> QED
    BY <2>2, <2>3, <2>4, WaitStep DEF GateInv
<1>2. Init => WaitInv
  BY WaitInit
<1> QED
  BY <1>1, <1>2, Window, PTL DEF Spec

(* What the invariant says of each wait. *)
LEMMA WaitsAreOwed ==
  ASSUME NEW first \in Nat, TypeOK, PathInv(first), GateInv, WindowInv, WaitInv
  PROVE  NoneWaitsInVain
<1>0. /\ sn \in Nat /\ sb \in Nat /\ rn \in Nat /\ blocks \in Nat /\ Len(output) \in Nat
      /\ Slots \in Nat /\ Slots # 0 /\ bufferReady \in Nat
      /\ clientNodes \in [Slot -> Node] /\ clientPc \in ClientPcs
  BY SlotsAssumption DEF TypeOK, ClientTypeOK, ServerTypeOK, FtpcTypeOK, FtpsTypeOK
<1>1. FtpcWaits => toTcpd # <<>> \/ ftpcAcks > 0
  <2>1. \A m : <<m>> # <<>>
    OBVIOUS
  <2> QED
    BY <2>1 DEF PathInv, LocalHop
<1>2. /\ Handed \in Nat /\ Taken \in Nat /\ first + Taken <= sn
      /\ Taken <= Handed /\ sn <= first + Handed
  BY TakenBounds
<1>3. ftpcPc = "done" => sn = first + Handed /\ Handed = 2 + blocks
  <2> SUFFICES ASSUME ftpcPc = "done" PROVE sn = first + Handed /\ Handed = 2 + blocks
    OBVIOUS
  <2>1. ~FtpcWaits
    BY DEF FtpcWaits
  <2>2. Handed = 2 + blocks
    BY DEF Handed
  <2> QED
    BY <2>1, <2>2 DEF PathInv, LocalHop
<1>4. ~localTimeo => ftpcPc # "done"
  BY <1>0, <1>2, <1>3 DEF WaitInv, PatientReads
<1>5. ASSUME ftpsPc \in {"size", "name", "data"}, ftpcPc = "done"
      PROVE  sb < sn
  <2>1. rn <= first + Taken /\ sb <= rn
    BY <1>0, <1>2 DEF PathInv, ServerHop, WindowInv, Level
  <2>2. Taken # Handed
    <3> SUFFICES ASSUME Taken = Handed PROVE FALSE
      OBVIOUS
    <3>1. ftpsPc = "data" /\ Len(output) = blocks
      BY <1>0, <1>3, <1>5 DEF Taken
    <3>2. HasBlock(file, blocks)
      <4>1. file \in Nat
        BY FileSizesAssumption DEF TypeOK, FtpcTypeOK
      <4>2. num_bytes \in Int /\ num_bytes <= file
        BY <4>1, IntOfBounds DEF num_bytes
      <4>3. amtReadTotal = blocks * MSS /\ amtReadTotal < num_bytes
        BY <3>1 DEF GateInv, FtpsTotals
      <4>4. amtReadTotal \in Nat
        BY DEF TypeOK, FtpsTypeOK
      <4> QED
        BY <4>1, <4>2, <4>3, <4>4 DEF HasBlock
    <3> QED
      BY <1>5, <3>2 DEF WaitInv, SentToTheEnd
  <2> QED
    BY <1>0, <1>2, <1>3, <1>5, <2>1, <2>2
<1>6. ASSUME clientPc = "recvAck", bufferReady = Slots
      PROVE  sb < sn
  <2>1. PICK s \in Slot : clientNodes[s].ack # 1
    BY <1>6 DEF WaitInv, GateClosedForCause, cBufferReady
  <2>2. clientNodes[s] # NoNode /\ clientNodes[s].ack = 0
    <3>1. s < Slots
      BY <1>0 DEF Slot
    <3> QED
      BY <1>0, <1>6, <2>1, <3>1 DEF GateInv, FilledInOrder, Node
  <2>3. sb <= clientNodes[s].seq /\ clientNodes[s].seq \in Nat \cup {-1}
    BY <1>0, <2>2 DEF WaitInv, UnackedIsOutstanding, Node
  <2>4. clientNodes[s].seq # -1
    BY <1>0, <2>3
  <2>5. clientNodes[s].seq \in 0 .. sn - 1
    BY <2>4 DEF PathInv, SlotsHold, Carries
  <2> QED
    BY <1>0, <2>3, <2>5
<1> QED
  BY <1>1, <1>4, <1>5, <1>6 DEF NoneWaitsInVain, FtpcWaits, WaitInv, ForwardedIsAnswered

(* No process waits, without a timeout, for what no other will do, however the
   network loses, repeats, reorders and damages packets: ftpc for its tcpd, that
   daemon for ftpc or behind its closed gate, the other daemon for ftps, or ftps
   for datagrams when ftpc has exited. *)
THEOREM NobodyStuck ==
  ASSUME FilesFit, ServerFirst, ~OpenMayFail, ~GarbleAcks
  PROVE  Spec => []NoneWaitsInVain
<1>1. 0 \in Nat
  OBVIOUS
<1>2. TypeOK /\ IInv /\ GateInv /\ WindowInv /\ WaitInv => NoneWaitsInVain
  BY <1>1, WaitsAreOwed DEF IInv
<1> QED
  BY <1>2, Waits, PTL
===============================================================================
