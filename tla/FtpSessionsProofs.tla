-------------------------- MODULE FtpSessionsProofs --------------------------
(***************************************************************************)
(* What holds of FtpSessions for every number of transfers, every file,    *)
(* buffer and network, and however often the client-side tcpd is restarted *)
(* between two transfers: the gate, and with it the safety of its lookups. *)
(***************************************************************************)
EXTENDS FtpSessionsInv, FtpWaitProofs

(* Sessions start as a single transfer does. *)
LEMMA SessionsStart == SessionsInit => TypeOK /\ RunsOK /\ ClientGate
<1> SUFFICES ASSUME SessionsInit PROVE TypeOK /\ RunsOK /\ ClientGate
  OBVIOUS
<1>1. TypeOK /\ GateInv
  BY TypeInit, GateInit DEF SessionsInit
<1>2. RunsOK
  BY FilesAssumption, SMT DEF SessionsInit, RunsOK
<1>3. NumbersGiven
  <2>1. clientNodes = EmptyList /\ sn = 0
    BY DEF SessionsInit, Init, ClientInit
  <2> QED
    BY <2>1, SMT DEF NumbersGiven, EmptyList, NoNode
<1> QED
  BY <1>1, <1>2, <1>3 DEF GateInv, ClientGate

(* A daemon that has just been started has an empty buffer and an empty list. *)
LEMMA RestartedGate ==
  ASSUME RestartClientTcpd
  PROVE  /\ ClientGate'
         /\ EmptyRing \in Ring /\ EmptyList \in [Slot -> Node]
<1>1. /\ clientNodes' = EmptyList /\ clientRing' = EmptyRing /\ sn' = 0 /\ sb' = 0
      /\ bufferReady' = 0 /\ clientPc' = "recvLocal"
  BY DEF RestartClientTcpd
<1>2. Slots # 0 /\ Slots \in Nat /\ Slot = 0 .. Slots - 1
  BY SlotsAssumption DEF Slot
<1>3. \A s \in Slot : clientNodes'[s] = NoNode
  BY <1>1 DEF EmptyList
<1>4. /\ \A s \in Slot : clientNodes'[s].seq = -1 /\ clientNodes'[s].ack = 0
      /\ -1 < 0
  BY <1>3, SMT DEF NoNode
<1>5. NumbersGiven' /\ OneSlotEach' /\ AckedIsBelow'
  BY <1>1, <1>4 DEF NumbersGiven, OneSlotEach, AckedIsBelow
<1>6. OutstandingKept'
  BY <1>1 DEF OutstandingKept
<1>7. FilledInOrder'
  BY <1>1, <1>2, <1>3 DEF FilledInOrder, SlotReady, EmptyRing
<1>8. EmptyRing \in Ring /\ EmptyList \in [Slot -> Node]
  BY SlotsAssumption, SMT DEF EmptyRing, EmptyList, Ring, Node, NoNode, NoBody, Slot
<1> QED
  BY <1>1, <1>5, <1>6, <1>7, <1>8 DEF ClientGate

(* No start of a program and no restart of the daemon breaks a type. *)
LEMMA SessionsTypeStep ==
  ASSUME TypeOK, RunsOK, [SessionsNext]_allVars
  PROVE  TypeOK' /\ RunsOK'
<1> USE DEF RunsOK
<1>1. CASE Next /\ UNCHANGED sessionVars
  BY <1>1, TypeStep DEF sessionVars
<1>2. CASE RunFtps
  <2>1. FtpsTypeOK' /\ ServerHopTypeOK'
    BY <1>2 DEF RunFtps, TypeOK, FtpsTypeOK, ServerHopTypeOK, FtpsPcs, NoName
  <2>2. FtpcTypeOK' /\ ClientHopTypeOK' /\ ClientTypeOK' /\ NetTypeOK' /\ ServerTypeOK'
    BY <1>2 DEF RunFtps, TypeOK, FtpcTypeOK, ClientHopTypeOK, ClientTypeOK, NetTypeOK,
                ServerTypeOK, ftpcVars, clientVars, serverVars, clientHop, trollVars
  <2>3. RunsOK'
    BY <1>2, FilesAssumption, SMT DEF RunFtps
  <2> QED
    BY <2>1, <2>2, <2>3 DEF TypeOK
<1>3. CASE RunFtpc
  <2>1. Files[ftpcRuns + 1] \in FileSizes
    <3>1. ftpcRuns + 1 \in 1 .. Len(Files)
      BY <1>3, FilesAssumption, SMT DEF RunFtpc
    <3> QED
      BY <3>1, FilesAssumption
  <2>2. FtpcTypeOK' /\ ClientHopTypeOK'
    BY <1>3, <2>1 DEF RunFtpc, TypeOK, FtpcTypeOK, ClientHopTypeOK, FtpcPcs
  <2>3. /\ FtpsTypeOK' /\ ServerHopTypeOK' /\ ClientTypeOK' /\ NetTypeOK'
        /\ ServerTypeOK'
    BY <1>3 DEF RunFtpc, TypeOK, FtpsTypeOK, ServerHopTypeOK, ClientTypeOK, NetTypeOK,
                ServerTypeOK, ftpsVars, clientVars, serverVars, serverHop, trollVars
  <2>4. RunsOK'
    BY <1>3, SMT DEF RunFtpc
  <2> QED
    BY <2>2, <2>3, <2>4 DEF TypeOK
<1>4. CASE RestartClientTcpd
  <2>1. ClientTypeOK'
    <3>1. /\ sn' = 0 /\ sb' = 0 /\ bufferReady' = 0 /\ clientPc' = "recvLocal"
          /\ firstRun' = TRUE /\ localTimeo' = FALSE
          /\ clientRing' = EmptyRing /\ clientNodes' = EmptyList /\ armed' = armed
      BY <1>4 DEF RestartClientTcpd
    <3>2. EmptyRing \in Ring /\ EmptyList \in [Slot -> Node] /\ armed \subseteq Nat
      BY <1>4, RestartedGate DEF TypeOK, ClientTypeOK
    <3> QED
      BY <3>1, <3>2 DEF ClientTypeOK, ClientPcs
  <2>3. ClientHopTypeOK'
    BY <1>4 DEF RestartClientTcpd, TypeOK, ClientHopTypeOK
  <2>2. /\ FtpcTypeOK' /\ FtpsTypeOK' /\ ServerHopTypeOK' /\ NetTypeOK' /\ ServerTypeOK'
        /\ RunsOK'
    BY <1>4 DEF RestartClientTcpd, TypeOK, FtpcTypeOK, FtpsTypeOK, ServerHopTypeOK,
                NetTypeOK, ServerTypeOK, sessionVars, ftpcVars, ftpsVars, serverVars,
                serverHop, trollVars
  <2> QED
    BY <2>1, <2>2, <2>3 DEF TypeOK
<1>5. CASE UNCHANGED allVars
  BY <1>5, TypeStep DEF allVars, sessionVars
<1> QED
  BY <1>1, <1>2, <1>3, <1>4, <1>5 DEF SessionsNext

(* Only the client daemon and its restart touch the gate. *)
LEMMA SessionsGateStep ==
  ASSUME TypeOK, ClientGate, [SessionsNext]_allVars
  PROVE  ClientGate'
<1>1. ASSUME UNCHANGED clientVars PROVE ClientGate'
  BY <1>1 DEF ClientGate, NumbersGiven, OneSlotEach, AckedIsBelow, OutstandingKept,
              FilledInOrder, SlotReady, clientVars
<1>2. CASE Next
  BY <1>1, <1>2, ClientGateStep DEF Next, FtpcStep, ClientStep, ServerStep, FtpsStep
<1>3. CASE RunFtps \/ RunFtpc \/ UNCHANGED allVars
  BY <1>1, <1>3 DEF RunFtps, RunFtpc, allVars, vars
<1>4. CASE RestartClientTcpd
  BY <1>4, RestartedGate
<1> QED
  BY <1>2, <1>3, <1>4 DEF SessionsNext

(* However many files are sent, on whatever network, and however often the client
   daemon is restarted between two of them while old packets, acknowledgements and
   timeouts are still about: it never dereferences the null pointer of a failed
   lookup, and the search for a ready slot ends. *)
THEOREM SessionLookups == SessionsSpec => []ListLookupsSucceed
<1>1. TypeOK /\ RunsOK /\ ClientGate /\ [SessionsNext]_allVars
        => (TypeOK /\ RunsOK /\ ClientGate)'
  BY SessionsTypeStep, SessionsGateStep
<1>2. TypeOK /\ ClientGate => ListLookupsSucceed
  BY LookupsSucceed DEF ClientGate
<1> QED
  BY <1>1, <1>2, SessionsStart, PTL DEF SessionsSpec

-------------------------------------------------------------------------------
(***************************************************************************)
(* The inductive invariant of the transfers, for a client-side tcpd that   *)
(* is not restarted and an ftps that can open its file.                    *)
(***************************************************************************)

(* The first transfer is numbered from 0 on. *)
LEMMA SessionsInvInit == SessionsInit => SessionsInv
<1> SUFFICES ASSUME SessionsInit PROVE SessionsInv
  OBVIOUS
<1>1. RunsOK
  BY SessionsStart
<1>2. IInv /\ FtpsTotals
  BY IInvInit, GateInit DEF SessionsInit, GateInv
<1>3. ftpsPc # "failed" /\ sn = 0
  BY DEF SessionsInit, Init, FtpsInit, ClientInit
<1>4. 0 \in 0 .. sn
  BY <1>3
<1>5. TransferInv(0)
  BY <1>2 DEF SessionsInit, TransferInv, IInv
<1> QED
  BY <1>1, <1>2, <1>3, <1>4, <1>5 DEF SessionsInv

(* The client daemon never takes a number back. *)
LEMMA NumbersGrow == ASSUME TypeOK, [Next]_vars PROVE sn \in Nat /\ sn' \in Nat /\ sn <= sn'
<1>1. sn \in Nat /\ sn' \in Nat
  BY TypeStep DEF TypeOK, ClientTypeOK
<1>2. sn' = sn \/ sn' = sn + 1
  BY DEF Next, FtpcStep, ClientStep, ServerStep, FtpsStep, vars, clientVars, ClientNext,
         RecvLocal, LocalTimeout, GateClosed, RecvAck, RecvNak, AckTimeout, RecvTimeout,
         RecvStaleTimeout, NoTimeout, Transmit, NothingToTransmit
<1> QED
  BY <1>1, <1>2

(* The next ftps finds nothing of the last transfer. *)
LEMMA RunFtpsKeeps ==
  ASSUME NEW first \in Nat, FilesFit, TypeOK, RunsOK, FtpsTotals, ftpsPc # "failed",
         TransferInv(first), RunFtps
  PROVE  RunsOK' /\ FtpsTotals' /\ ftpsPc' # "failed" /\ TransferInv(first)' /\ sn' = sn
<1>1. PathInv(first) /\ ftpsPc = "done" /\ ftpsRuns = ftpcRuns
  BY DEF RunFtps, TransferInv
<1>2. /\ UNCHANGED <<ftpcPc, file, blocks, sn, clientNodes, clientRing, toTcpd,
                     ftpcAcks, dataNet, serverPc, rn, serverRing, ftpcRuns, toFtps,
                     ftpsAcks>>
      /\ ftpsPc' = "size" /\ output' = <<>> /\ amtReadTotal' = 0
      /\ ftpsRuns' = ftpsRuns + 1 /\ ftpsRuns < Len(Files)
  BY DEF RunFtps, ftpcVars, clientVars, serverVars, clientHop, trollVars
<1>3. Handed' = Handed /\ FtpcWaits' = FtpcWaits
  BY <1>2 DEF Handed, FtpcWaits
<1>4. /\ BlocksInFile' /\ LocalHop(first)' /\ SlotsHold(first)' /\ NetHolds(first)'
      /\ ServerRingEmpty'
  BY <1>1, <1>2, <1>3
  DEF PathInv, BlocksInFile, LocalHop, SlotsHold, NetHolds, Carries, Nth, ServerRingEmpty
<1>5. BetweenTransfers(first)'
  BY <1>1, <1>2, <1>3, <1>4, DoneHasAll DEF BetweenTransfers
<1>6. RunsOK' /\ ftpsRuns' # ftpcRuns'
  BY <1>1, <1>2, FilesAssumption, SMT DEF RunsOK
<1> QED
  BY <1>2, <1>5, <1>6 DEF TransferInv, FtpsTotals

(* The next ftpc starts a transfer that is numbered from sn on: no slot and no
   packet carries a number of it yet. *)
LEMMA RunFtpcKeeps ==
  ASSUME NEW first \in Nat, NEW next \in Nat, next = sn, TypeOK, RunsOK, FtpsTotals,
         TransferInv(first), RunFtpc
  PROVE  RunsOK' /\ FtpsTotals' /\ ftpsPc' # "failed" /\ TransferInv(next)' /\ sn' = sn
<1>1. BetweenTransfers(first)
  BY SMT DEF RunFtpc, TransferInv, RunsOK
<1>2. /\ UNCHANGED <<sn, clientNodes, clientRing, toTcpd, dataNet, serverPc, rn, serverRing,
                     ftpsRuns, ftpsPc, output, amtReadTotal, toFtps, ftpsAcks>>
      /\ ftpcPc' = "sendSize" /\ blocks' = 0 /\ ftpcAcks' = 0
      /\ ftpcRuns' = ftpcRuns + 1 /\ ftpcRuns < ftpsRuns
  BY DEF RunFtpc, ftpsVars, clientVars, serverVars, serverHop, trollVars
<1>3. Handed' = 0 /\ ~FtpcWaits' /\ Taken' = 0 /\ sn \in Nat /\ rn \in Nat
  BY <1>1, <1>2 DEF BetweenTransfers, Handed, FtpcWaits, Taken, TypeOK, ClientTypeOK,
                    ServerTypeOK
<1>4. BlocksInFile' /\ LocalHop(next)'
  BY <1>1, <1>2, <1>3, SMT DEF BetweenTransfers, BlocksInFile, LocalHop
<1>5. \A seq \in 0 .. sn - 1 : ~(seq >= next)
  BY <1>3
<1>6. SlotsHold(next)' /\ NetHolds(next)'
  BY <1>1, <1>2, <1>5 DEF BetweenTransfers, SlotsHold, NetHolds, Carries
<1>7. ServerRingEmpty' /\ FtpsHolds' /\ FtpsTotals' /\ ftpsPc' # "failed"
  BY <1>1, <1>2, SMT DEF BetweenTransfers, ServerRingEmpty, FtpsHolds, FtpsTotals
<1>8. ServerHop(next)'
  BY <1>1, <1>2, <1>3, SMT DEF BetweenTransfers, ServerHop
<1>9. RunsOK' /\ ftpsRuns' = ftpcRuns'
  BY <1>2, SMT DEF RunsOK
<1> QED
  BY <1>2, <1>4, <1>6, <1>7, <1>8, <1>9 DEF TransferInv, PathInv

(* While ftps waits for ftpc to be run, no process adds to what there is. *)
LEMMA BetweenStep ==
  ASSUME NEW first \in Nat, TypeOK, BetweenTransfers(first), [Next]_vars
  PROVE  /\ BetweenTransfers(first)'
         /\ UNCHANGED <<file, ftpsPc, output, amtReadTotal>> /\ Handed' = Handed
<1> USE DEF BetweenTransfers
<1>0. sn \in Nat /\ rn \in Nat
  BY DEF TypeOK, ClientTypeOK, ServerTypeOK
<1>1. ASSUME UNCHANGED ftpsVars PROVE UNCHANGED <<ftpsPc, output, amtReadTotal>>
  BY <1>1 DEF ftpsVars
<1>2. ASSUME UNCHANGED ftpcVars
      PROVE  UNCHANGED <<file, blocks>> /\ Handed' = Handed /\ FtpcWaits' = FtpcWaits
             /\ BlocksInFile'
  BY <1>2 DEF ftpcVars, Handed, FtpcWaits, BlocksInFile
<1>3. CASE FtpcStep
  <2>1. ftpcPc \notin {"sendSize", "sizeAck", "sendName"}
    BY SMT DEF Handed
  <2>2. toTcpd' = toTcpd /\ UNCHANGED <<file, blocks>> /\ Handed' = Handed
    BY <1>3, <2>1 DEF FtpcStep, FtpcNext, SendSize, SendName, SendBlock, Finish, RecvTcpdAck,
                      Handed, clientHop
  <2>3. BlocksInFile' /\ LocalHop(first)'
    BY <1>3, FtpcKeeps DEF FtpcStep, clientVars
  <2> QED
    BY <1>1, <1>3, <2>2, <2>3
    DEF FtpcStep, SlotsHold, NetHolds, Carries, ServerRingEmpty, Nth, clientVars, serverVars,
        serverHop, trollVars
<1>4. CASE ClientStep
  <2>1. LocalHop(first)' /\ SlotsHold(first)' /\ NetHolds(first)'
    BY <1>4, ClientKeeps DEF ClientStep
  <2>2. sn' = sn /\ toTcpd' = toTcpd
    BY <1>4 DEF ClientStep, ClientNext, RecvLocal, LocalTimeout, GateClosed, RecvAck, RecvNak,
                AckTimeout, RecvTimeout, RecvStaleTimeout, NoTimeout, Transmit,
                NothingToTransmit, clientHop
  <2> QED
    BY <1>1, <1>2, <1>4, <2>1, <2>2 DEF ClientStep, ServerRingEmpty, serverVars, serverHop
<1>5. CASE ServerStep
  <2>1. ASSUME NEW p \in dataNet PROVE ~RecvExpected(p)
    BY <1>0, SMT DEF RecvExpected, NetHolds, Carries
  <2>2. \/ \E p \in dataNet : RecvCorrupt(p) \/ RecvUnexpected(p)
        \/ RecvFtpsAck
    BY <1>5, <2>1 DEF ServerStep, ServerNext
  <2>3. /\ dataNet' \subseteq dataNet /\ UNCHANGED <<serverRing, toFtps, sn>>
        /\ LocalHop(first)' /\ SlotsHold(first)'
    <3>1. dataNet' \subseteq dataNet /\ UNCHANGED <<serverRing, toFtps>>
      BY <2>2 DEF RecvCorrupt, RecvUnexpected, RecvFtpsAck, Remainders, serverVars, serverHop
    <3>2. UNCHANGED <<sn, clientNodes, clientRing, toTcpd, ftpcAcks>>
      BY <1>5 DEF ServerStep, clientVars, clientHop
    <3> QED
      BY <1>2, <1>5, <3>1, <3>2 DEF ServerStep, LocalHop, SlotsHold, Carries, Nth
  <2>4. NetHolds(first)' /\ ServerRingEmpty' /\ toTcpd' = toTcpd
    BY <1>2, <1>5, <2>3 DEF ServerStep, NetHolds, Carries, Nth, ServerRingEmpty, clientHop
  <2>5. \/ serverPc' = "recv" /\ ftpsAcks' = 0 /\ rn' = sn
        \/ serverPc' = "wait" /\ ftpsAcks' = 1 /\ rn' + 1 = sn
    BY <1>0, <2>2, SMT DEF RecvCorrupt, RecvUnexpected, RecvFtpsAck, serverVars, serverHop
  <2> QED
    BY <1>1, <1>2, <1>5, <2>3, <2>4, <2>5 DEF ServerStep
<1>6. CASE FtpsStep
  BY <1>6 DEF FtpsStep, FtpsNext, StartFtps, RecvSize, RecvName, RecvNameOpenFails,
              RecvShort, RecvData
<1>7. CASE UNCHANGED vars
  BY <1>1, <1>2, <1>7
  DEF vars, LocalHop, SlotsHold, NetHolds, Carries, ServerRingEmpty, Nth, clientVars,
      serverVars, clientHop, serverHop, trollVars
<1> QED
  BY <1>3, <1>4, <1>5, <1>6, <1>7 DEF Next

(* The step of a process keeps the count of ftps, whose file opens. *)
LEMMA PathTotals ==
  ASSUME NEW first \in Nat, ~OpenMayFail, TypeOK, PathInv(first), FtpsTotals,
         ftpsPc # "failed", [Next]_vars
  PROVE  FtpsTotals' /\ ftpsPc' # "failed"
<1>1. ASSUME UNCHANGED <<file, ftpsVars>> PROVE FtpsTotals' /\ ftpsPc' # "failed"
  BY <1>1 DEF FtpsTotals, num_bytes, ftpsVars
<1>2. CASE FtpcStep
  BY <1>1, <1>2, HandsOver DEF FtpcStep, PathInv
<1>3. CASE ClientStep \/ ServerStep \/ UNCHANGED vars
  BY <1>1, <1>3 DEF ClientStep, ServerStep, vars, ftpcVars
<1>4. CASE FtpsStep
  <2>1. FtpsTotals'
    BY <1>4, FtpsTotalsStep DEF FtpsStep, PathInv, ftpcVars
  <2>2. ftpsPc' # "failed"
    BY <1>4, NoneTooShort DEF PathInv, FtpsStep, FtpsNext, StartFtps, RecvSize, RecvName,
                              RecvNameOpenFails, RecvData, ReadOn
  <2> QED
    BY <2>1, <2>2
<1> QED
  BY <1>2, <1>3, <1>4 DEF Next

(* No step of a process, and no start of one, breaks the invariant. *)
LEMMA SessionsInvStep ==
  ASSUME FilesFit, ~TcpdRestarts, ~OpenMayFail, TypeOK, SessionsInv, [SessionsNext]_allVars
  PROVE  SessionsInv'
<1>1. PICK first \in 0 .. sn : TransferInv(first)
  BY DEF SessionsInv
<1>2. sn \in Nat /\ first \in Nat
  BY DEF TypeOK, ClientTypeOK
<1> USE DEF SessionsInv
<1>3. CASE [Next]_vars /\ UNCHANGED sessionVars
  <2>1. RunsOK' /\ (ftpsRuns = ftpcRuns <=> ftpsRuns' = ftpcRuns')
    BY <1>3 DEF RunsOK, sessionVars
  <2>2. first \in 0 .. sn'
    BY <1>2, <1>3, NumbersGrow
  <2>3. CASE ftpsRuns = ftpcRuns
    <3>1. PathInv(first)
      BY <1>1, <2>3 DEF TransferInv
    <3>2. PathInv(first)'
      BY <1>2, <1>3, <3>1, PathStep
    <3>3. FtpsTotals' /\ ftpsPc' # "failed"
      BY <1>2, <1>3, <3>1, PathTotals
    <3> QED
      BY <2>1, <2>2, <2>3, <3>2, <3>3 DEF TransferInv
  <2>4. CASE ftpsRuns # ftpcRuns
    <3>1. BetweenTransfers(first)
      BY <1>1, <2>4 DEF TransferInv
    <3>2. /\ BetweenTransfers(first)'
          /\ UNCHANGED <<file, ftpsPc, output, amtReadTotal>>
      BY <1>2, <1>3, <3>1, BetweenStep
    <3>3. FtpsTotals' /\ ftpsPc' # "failed"
      BY <3>2 DEF FtpsTotals, num_bytes
    <3> QED
      BY <2>1, <2>2, <2>4, <3>2, <3>3 DEF TransferInv
  <2> QED
    BY <2>3, <2>4
<1>4. CASE RunFtps
  BY <1>1, <1>2, <1>4, RunFtpsKeeps
<1>5. CASE RunFtpc
  <2>1. PICK next \in Nat : next = sn
    BY <1>2
  <2>2. RunsOK' /\ FtpsTotals' /\ ftpsPc' # "failed" /\ TransferInv(next)' /\ sn' = sn
    BY <1>1, <1>2, <1>5, <2>1, RunFtpcKeeps
  <2>3. next \in 0 .. sn'
    BY <2>1, <2>2
  <2> QED
    BY <2>2, <2>3
<1>6. CASE RestartClientTcpd
  BY <1>6 DEF RestartClientTcpd
<1> QED
  BY <1>3, <1>4, <1>5, <1>6 DEF SessionsNext, allVars

(* Every transfer through the same daemons goes the way of the first, whatever of
   earlier ones is still in slots, in the network and among the timers, for every
   number of files, their sizes, the buffer and the network. *)
THEOREM SessionsInvariance ==
  ASSUME FilesFit, ~TcpdRestarts, ~OpenMayFail
  PROVE  SessionsSpec => [](TypeOK /\ ClientGate /\ SessionsInv)
<1>1. SessionsInit => TypeOK /\ ClientGate /\ SessionsInv
  BY SessionsStart, SessionsInvInit
<1>2. TypeOK /\ ClientGate /\ SessionsInv /\ [SessionsNext]_allVars
        => (TypeOK /\ ClientGate /\ SessionsInv)'
  <2>1. SessionsInv => RunsOK
    BY DEF SessionsInv
  <2> QED
    BY <2>1, SessionsTypeStep, SessionsGateStep, SessionsInvStep
<1> QED
  BY <1>1, <1>2, PTL DEF SessionsSpec

(* What the invariant says of the transfer that ftps reads, and of an ftps that
   waits for the next. *)
LEMMA SessionsCases ==
  ASSUME TypeOK, SessionsInv
  PROVE  \E first \in Nat :
           \/ ftpsRuns = ftpcRuns /\ PathInv(first)
           \/ ftpcRuns < ftpsRuns /\ BetweenTransfers(first)
<1>1. PICK first \in 0 .. sn : TransferInv(first)
  BY DEF SessionsInv
<1>2. first \in Nat
  BY DEF TypeOK, ClientTypeOK
<1>3. ftpsRuns = ftpcRuns \/ ftpcRuns < ftpsRuns
  BY SMT DEF SessionsInv, RunsOK
<1>4. CASE ftpsRuns = ftpcRuns
  BY <1>1, <1>2, <1>4 DEF TransferInv
<1>5. CASE ftpcRuns < ftpsRuns
  <2>1. ftpsRuns # ftpcRuns
    BY <1>5, SMT DEF SessionsInv, RunsOK
  <2> QED
    BY <1>1, <1>2, <1>5, <2>1 DEF TransferInv
<1> QED
  BY <1>3, <1>4, <1>5

(* No transfer reads a datagram of another, however many there are and whatever of
   the earlier ones the daemons and the network still hold. *)
THEOREM EveryTransferInOrder ==
  ASSUME FilesFit, ~TcpdRestarts, ~OpenMayFail
  PROVE  SessionsSpec => []EachInOrder
<1>1. TypeOK /\ SessionsInv => EachInOrder
  <2> SUFFICES ASSUME TypeOK, SessionsInv, ftpsRuns = ftpcRuns PROVE InOrderDelivery
    BY DEF EachInOrder
  <2>1. PICK first \in Nat : PathInv(first)
    BY SMT, SessionsCases DEF SessionsInv, RunsOK
  <2> QED
    BY <2>1, PathInOrder
<1> QED
  BY <1>1, SessionsInvariance, PTL

(* Every file that an ftps closes is the whole file of its ftpc. *)
THEOREM EveryFileWhole ==
  ASSUME FilesFit, ~TcpdRestarts, ~OpenMayFail
  PROVE  SessionsSpec => []FileComplete
<1>1. TypeOK /\ SessionsInv => FileComplete
  <2> SUFFICES ASSUME TypeOK, SessionsInv, ftpsPc = "done" PROVE FileComplete
    BY DEF FileComplete
  <2>1. PICK first \in Nat : PathInv(first)
    BY SessionsCases DEF BetweenTransfers
  <2> QED
    BY <2>1 DEF SessionsInv, FtpsTotals, PathInv, FtpsHolds, FileComplete
<1> QED
  BY <1>1, SessionsInvariance, PTL

(* A new ftps finds nothing of the last transfer in its queue, and the two daemons
   agree on the number of its first datagram. *)
THEOREM CleanStart ==
  ASSUME FilesFit, ~TcpdRestarts, ~OpenMayFail
  PROVE  SessionsSpec => []NothingLeftOver
<1>1. TypeOK /\ SessionsInv => NothingLeftOver
  <2> SUFFICES ASSUME TypeOK, SessionsInv, ftpcRuns < ftpsRuns
               PROVE  toFtps = <<>> /\ sn = rn + ftpsAcks /\ toTcpd = <<>>
    BY DEF NothingLeftOver
  <2>1. PICK first \in Nat : BetweenTransfers(first)
    BY SMT, SessionsCases DEF SessionsInv, RunsOK
  <2>2. rn \in Nat
    BY DEF TypeOK, ServerTypeOK
  <2> QED
    BY <2>1, <2>2, SMT DEF BetweenTransfers
<1> QED
  BY <1>1, SessionsInvariance, PTL

-------------------------------------------------------------------------------
(***************************************************************************)
(* The window across transfers, when acknowledgements arrive undamaged.    *)
(***************************************************************************)

(* No start of ftpc or ftps touches what the window speaks of. *)
LEMMA SessionsWindowStep ==
  ASSUME ~GarbleAcks, ~TcpdRestarts, TypeOK, ClientGate, SessionsInv, WindowInv,
         [SessionsNext]_allVars
  PROVE  WindowInv'
<1>1. NothingUnnumbered
  <2>1. PICK first \in Nat : PathInv(first) \/ BetweenTransfers(first)
    BY SessionsCases
  <2>2. sn \in Nat /\ rn \in Nat
    BY DEF TypeOK, ClientTypeOK, ServerTypeOK
  <2>3. CASE BetweenTransfers(first)
    BY <2>2, <2>3, SMT DEF BetweenTransfers, NetHolds, Carries, NothingUnnumbered
  <2> QED
    BY <2>1, <2>3, PathNumbered
<1>2. CASE [Next]_vars
  BY <1>1, <1>2, WindowStep DEF ClientGate
<1>3. CASE RunFtps \/ RunFtpc
  <2>1. UNCHANGED <<sb, rn, serverPc, clientNodes, dataNet, ackNet, armed>>
    BY <1>3 DEF RunFtps, RunFtpc, clientVars, serverVars, trollVars
  <2>2. rn \in Nat
    BY DEF TypeOK, ServerTypeOK
  <2> QED
    BY <2>1, <2>2, WindowUntouched
<1>4. CASE RestartClientTcpd
  BY <1>4 DEF RestartClientTcpd
<1> QED
  BY <1>2, <1>3, <1>4 DEF SessionsNext, allVars

(* If acknowledgements arrive undamaged, the daemons stay level through all
   transfers: no old packet, acknowledgement or timeout moves the window. *)
THEOREM SessionsWindow ==
  ASSUME ~GarbleAcks, FilesFit, ~TcpdRestarts, ~OpenMayFail
  PROVE  SessionsSpec => [](TypeOK /\ SessionsInv /\ WindowInv)
<1>1. SessionsInit => WindowInv
  BY WindowInit DEF SessionsInit
<1>2. TypeOK /\ ClientGate /\ SessionsInv /\ WindowInv /\ [SessionsNext]_allVars
        => WindowInv'
  BY SessionsWindowStep
<1> QED
  BY <1>1, <1>2, SessionsInvariance, PTL DEF SessionsSpec

(* If acknowledgements arrive undamaged, what the client daemon counts as
   acknowledged of the present file has been read by its ftps. *)
THEOREM AckedIsAlwaysRead ==
  ASSUME ~GarbleAcks, FilesFit, ~TcpdRestarts, ~OpenMayFail
  PROVE  SessionsSpec => []AckedIsReadEachTime
<1>1. TypeOK /\ SessionsInv /\ WindowInv => AckedIsReadEachTime
  <2> SUFFICES ASSUME TypeOK, SessionsInv, WindowInv, ftpsRuns = ftpcRuns
               PROVE  sb - Earlier <= Len(Received)
    BY DEF AckedIsReadEachTime
  <2>1. PICK first \in Nat : PathInv(first)
    BY SMT, SessionsCases DEF SessionsInv, RunsOK
  <2>2. /\ Len(Received) \in Nat /\ rn <= first + Len(Received) /\ Handed \in Nat
        /\ sn \in Nat /\ sb \in Nat /\ rn \in Nat
    BY <2>1, PathCounts DEF TypeOK, ClientTypeOK, ServerTypeOK
  <2>3. Earlier = first
    <3>1. \/ toTcpd = <<>> /\ sn = first + Handed
          \/ toTcpd = <<Nth(Handed)>> /\ sn + 1 = first + Handed
      BY <2>1, Zenon DEF PathInv, LocalHop
    <3>2. Len(<<>>) = 0 /\ \A m : Len(<<m>>) = 1
      BY SMT
    <3>3. \/ Len(toTcpd) = 0 /\ sn = first + Handed
          \/ Len(toTcpd) = 1 /\ sn + 1 = first + Handed
      BY <3>1, <3>2, Zenon
    <3>4. ASSUME NEW l, NEW h \in Nat,
                 (l = 0 /\ sn = first + h) \/ (l = 1 /\ sn + 1 = first + h)
          PROVE  sn + l - h = first
      BY <2>2, <3>4
    <3> QED
      BY <2>2, <3>3, <3>4, Zenon DEF Earlier
  <2>4. sb <= rn
    BY DEF WindowInv, Level
  <2> QED
    BY <2>2, <2>3, <2>4
<1> QED
  BY <1>1, SessionsWindow, PTL

(* If acknowledgements arrive undamaged, the daemons work one datagram at a time
   through all transfers. *)
THEOREM OneAtATimeAlways ==
  ASSUME ~GarbleAcks, FilesFit, ~TcpdRestarts, ~OpenMayFail
  PROVE  SessionsSpec => []StopAndWait
BY InvStopAndWait, SessionsWindow, PTL

(* If acknowledgements arrive undamaged, no round-trip time is computed from a time
   that was not stored for the datagram the slot holds now, whichever transfer
   filled the slot before. *)
THEOREM TimedAlways ==
  ASSUME ~GarbleAcks, FilesFit, ~TcpdRestarts, ~OpenMayFail
  PROVE  SessionsSpec => []AckedWasTimed
<1>1. WindowInv => AckedWasTimed
  BY DEF WindowInv
<1> QED
  BY <1>1, SessionsWindow, PTL

(* No step and no start of ftpc or ftps disturbs the invariant of the waits. *)
LEMMA SessionsWaitStep ==
  ASSUME FilesFit, ~TcpdRestarts, ~OpenMayFail, TypeOK, ClientGate, SessionsInv, WindowInv,
         WaitInv, [SessionsNext]_allVars
  PROVE  WaitInv'
<1>1. PICK first \in Nat : PathInv(first) \/ BetweenTransfers(first)
  BY SessionsCases
<1>2. sn \in Nat /\ sb \in Nat /\ rn \in Nat
  BY DEF TypeOK, ClientTypeOK, ServerTypeOK
<1>3. sb <= sn
  <2>1. CASE BetweenTransfers(first)
    BY <1>2, <2>1, SMT DEF BetweenTransfers, WindowInv, Level
  <2> QED
    BY <1>1, <2>1, BaseIsNumbered
<1>4. ASSUME NEW p \in dataNet, RecvExpected(p) PROVE ftpsPc # "done"
  <2>1. CASE BetweenTransfers(first)
    BY <2>1 DEF BetweenTransfers
  <2> QED
    BY <1>1, <1>4, <2>1, ExpectedIsAwaited DEF SessionsInv
<1>5. CASE [Next]_vars
  <2>1. ~RecvShort
    BY <1>1, NoneTooShort DEF PathInv, BetweenTransfers, RecvShort
  <2> QED
    BY <1>3, <1>4, <1>5, <2>1, WaitStep DEF ClientGate
<1>6. CASE RunFtps
  <2>1. UNCHANGED <<clientVars, ftpcVars, serverPc, toFtps, ftpsAcks>>
    BY <1>6 DEF RunFtps, serverVars
  <2>2. ftpsPc' = "size" /\ ftpsBound' = TRUE
    BY <1>6 DEF RunFtps
  <2> QED
    BY <2>1, <2>2
    DEF WaitInv, UnackedIsOutstanding, GateClosedForCause, cBufferReady, PatientReads,
        ServedToTheEnd, SentToTheEnd, ForwardedIsAnswered, clientVars, ftpcVars
<1>7. CASE RunFtpc
  <2>1. UNCHANGED <<clientVars, ftpsPc, ftpsBound, serverPc, toFtps, ftpsAcks>>
    BY <1>7 DEF RunFtpc, ftpsVars, serverVars, serverHop
  <2>2. ftpcPc' = "sendSize"
    BY <1>7 DEF RunFtpc
  <2> QED
    BY <2>1, <2>2
    DEF WaitInv, UnackedIsOutstanding, GateClosedForCause, cBufferReady, PatientReads,
        ServedToTheEnd, SentToTheEnd, ForwardedIsAnswered, clientVars
<1>8. CASE RestartClientTcpd
  BY <1>8 DEF RestartClientTcpd
<1> QED
  BY <1>5, <1>6, <1>7, <1>8 DEF SessionsNext, allVars

(* No transfer, the first or a later one, comes to a point where a process waits
   for what no other will do. *)
THEOREM NobodyStuckEver ==
  ASSUME FilesFit, ServerFirst, ~OpenMayFail, ~GarbleAcks, ~TcpdRestarts
  PROVE  SessionsSpec => []NoTransferWaitsInVain
<1>1. TypeOK /\ ClientGate /\ SessionsInv /\ WindowInv /\ WaitInv
        => NoTransferWaitsInVain
  <2> SUFFICES ASSUME TypeOK, ClientGate, SessionsInv, WindowInv, WaitInv,
                      ftpsRuns = ftpcRuns
               PROVE  NoneWaitsInVain
    BY DEF NoTransferWaitsInVain
  <2>1. PICK first \in Nat : PathInv(first)
    BY SMT, SessionsCases DEF SessionsInv, RunsOK
  <2>2. GateInv
    BY DEF ClientGate, SessionsInv, GateInv
  <2> QED
    BY <2>1, <2>2, WaitsAreOwed
<1>2. SessionsInit => WaitInv
  BY WaitInit DEF SessionsInit
<1>3. TypeOK /\ ClientGate /\ SessionsInv /\ WindowInv /\ WaitInv
        /\ [SessionsNext]_allVars => WaitInv'
  BY SessionsWaitStep
<1> QED
  BY <1>1, <1>2, <1>3, SessionsInvariance, SessionsWindow, PTL DEF SessionsSpec

-------------------------------------------------------------------------------
(***************************************************************************)
(* The refinement: a reliable stream for every transfer.                   *)
(***************************************************************************)

(* A step of a process is a step of the present stream, or leaves it alone. *)
LEMMA EachStreamStep ==
  ASSUME TypeOK, SessionsInv, (TypeOK /\ SessionsInv)', [Next]_vars, UNCHANGED sessionVars,
         NEW first \in Nat, TransferInv(first), TransferInv(first)'
  PROVE  [Streams!Next]_<<Sent, ReceivedEach>>
<1>0. ftpcRuns \in Nat /\ ftpsRuns \in {ftpcRuns, ftpcRuns + 1}
      /\ ftpsRuns' = ftpsRuns /\ ftpcRuns' = ftpcRuns
  BY DEF SessionsInv, RunsOK, sessionVars
<1>1. CASE ftpsRuns = ftpcRuns
  <2>1. [Stream!Next]_<<Sent, Received>>
    <3>1. PathInv(first) /\ PathInv(first)'
      BY <1>0, <1>1 DEF TransferInv
    <3> QED
      BY <3>1, StreamStep
  <2>2. ReceivedEach = Received /\ ReceivedEach' = Received'
    BY <1>0, <1>1, SMT DEF ReceivedEach
  <2> QED
    BY <2>1, <2>2 DEF Stream!Next, Stream!HandOver, Stream!Deliver, Streams!Next,
                      Streams!HandOver, Streams!Deliver
<1>2. CASE ftpsRuns = ftpcRuns + 1
  <2>1. BetweenTransfers(first) /\ ftpcRuns < ftpsRuns
    BY <1>0, <1>2, SMT DEF TransferInv
  <2>2. Sent' = Sent
    BY <2>1, BetweenStep DEF Sent
  <2>3. ReceivedEach = Sent /\ ReceivedEach' = Sent'
    BY <1>0, <2>1 DEF ReceivedEach
  <2> QED
    BY <2>2, <2>3
<1> QED
  BY <1>0, <1>1, <1>2

(* Running ftps again changes nothing of the stream, whose datagrams have all come
   out; running ftpc again begins the next stream. *)
LEMMA StartsStep ==
  ASSUME FilesFit, TypeOK, SessionsInv, (TypeOK /\ SessionsInv)', RunFtps \/ RunFtpc,
         NEW first \in Nat, TransferInv(first)
  PROVE  [Streams!Renew]_<<Sent, ReceivedEach>>
<1>0. ftpcRuns \in Nat /\ ftpsRuns \in {ftpcRuns, ftpcRuns + 1}
  BY DEF SessionsInv, RunsOK
<1>1. CASE RunFtps
  <2>1. ftpsRuns = ftpcRuns /\ ftpcRuns' < ftpsRuns' /\ ftpsPc = "done" /\ PathInv(first)
    BY <1>0, <1>1, SMT DEF RunFtps, SessionsInv, TransferInv
  <2>2. Taken = Handed /\ FtpsTotals /\ FtpsHolds
    BY <2>1, DoneHasAll DEF SessionsInv, PathInv
  <2>3. ReceivedEach = Sent
    <3>1. Received = Sent
      BY <2>2, ReceivedIsPrefix DEF Sent
    <3> QED
      BY <1>0, <2>1, <3>1, SMT DEF ReceivedEach
  <2>4. Sent' = Sent
    BY <1>1 DEF RunFtps, Sent, Handed, ftpcVars
  <2>5. ReceivedEach' = Sent'
    BY <2>1 DEF ReceivedEach
  <2> QED
    BY <2>3, <2>4, <2>5
<1>2. CASE RunFtpc
  <2>1. ftpcRuns < ftpsRuns /\ BetweenTransfers(first) /\ ~(ftpcRuns' < ftpsRuns')
    BY <1>0, <1>2, SMT DEF RunFtpc, TransferInv
  <2>2. ReceivedEach = Sent
    BY <2>1 DEF ReceivedEach
  <2>3. Sent' = <<>>
    <3>1. Handed' = 0
      BY <1>2 DEF RunFtpc, Handed
    <3> QED
      BY <3>1 DEF Sent
  <2>4. ReceivedEach' = <<>>
    <3>1. ftpsPc' = "size"
      BY <1>2, <2>1 DEF RunFtpc, BetweenTransfers, ftpsVars
    <3> QED
      BY <2>1, <3>1 DEF ReceivedEach, Received
  <2> QED
    BY <2>2, <2>3, <2>4 DEF Streams!Renew
<1> QED
  BY <1>1, <1>2

(* The daemons implement one reliable stream after the other: each ftpc has one to
   its ftps, and when the next begins, all of the last has come out. *)
THEOREM EachRefinement ==
  ASSUME FilesFit, ~TcpdRestarts, ~OpenMayFail
  PROVE  SessionsSpec => EachStreamSafe
<1>1. SessionsInit => Streams!Init
  <2>1. SessionsInit => Sent = <<>> /\ Received = <<>> /\ ~(ftpcRuns < ftpsRuns)
    BY StreamInit DEF SessionsInit, Stream!Init
  <2> QED
    BY <2>1 DEF Streams!Init, ReceivedEach
<1>2. TypeOK /\ SessionsInv /\ (TypeOK /\ SessionsInv)' /\ [SessionsNext]_allVars
        => [Streams!Next \/ Streams!Renew]_<<Sent, ReceivedEach>>
  <2> SUFFICES ASSUME TypeOK, SessionsInv, (TypeOK /\ SessionsInv)', [SessionsNext]_allVars
               PROVE  [Streams!Next \/ Streams!Renew]_<<Sent, ReceivedEach>>
    OBVIOUS
  <2>1. PICK first \in 0 .. sn : TransferInv(first)
    BY DEF SessionsInv
  <2>2. first \in Nat /\ RunsOK
    BY DEF TypeOK, ClientTypeOK, SessionsInv
  <2>3. CASE [Next]_vars /\ UNCHANGED sessionVars
    <3>1. TransferInv(first)'
      BY <2>1, <2>2, <2>3, PathStep, BetweenStep DEF TransferInv, sessionVars
    <3> QED
      BY <2>1, <2>2, <2>3, <3>1, EachStreamStep
  <2>4. CASE RunFtps \/ RunFtpc
    BY <2>1, <2>2, <2>4, StartsStep
  <2>5. CASE RestartClientTcpd
    BY <2>5 DEF RestartClientTcpd
  <2> QED
    BY <2>3, <2>4, <2>5 DEF SessionsNext, allVars
<1>3. SessionsSpec => [](TypeOK /\ ClientGate /\ SessionsInv)
  BY SessionsInvariance
<1> QED
  BY <1>1, <1>2, <1>3, PTL
  DEF SessionsSpec, EachStreamSafe, Streams!StreamsSpec, Streams!streamVars
===============================================================================
