----------------------------- MODULE FtpSessions -----------------------------
(***************************************************************************)
(* Several transfers through the same daemons.  ftpc and ftps carry one    *)
(* file each and exit; the two tcpds run on, and with them the sequence    *)
(* numbers, the slots, the nodes, the timers that are still armed and the  *)
(* datagrams that are still in the network.  The user starts ftps, then    *)
(* ftpc with the next of the Files, again and again.                       *)
(***************************************************************************)
EXTENDS FtpSystem

CONSTANTS
  Files,          \* the files sent one after the other, by their lengths
  TcpdRestarts    \* whether the client-side tcpd is ever stopped and started

ASSUME FilesAssumption == Files \in Seq(FileSizes) /\ Files # <<>>
ASSUME TcpdRestartsAssumption == TcpdRestarts \in BOOLEAN

VARIABLES
  ftpcRuns,       \* how often ftpc has been started
  ftpsRuns        \* how often ftps has been started

sessionVars == <<ftpcRuns, ftpsRuns>>

allVars == <<vars, sessionVars>>

SessionsInit == Init /\ file = Files[1] /\ ftpcRuns = 1 /\ ftpsRuns = 1

\* ftps has exited and is run again: it binds its port and knows nothing.
RunFtps ==
  /\ ftpsPc \in {"done", "failed"}
  /\ ftpsRuns = ftpcRuns
  /\ ftpsRuns < Len(Files)
  /\ ftpsRuns' = ftpsRuns + 1
  /\ ftpsPc' = "size"
  /\ ftpsBound' = TRUE
  /\ fileSize' = 0
  /\ fileName' = NoName
  /\ amtReadTotal' = 0
  /\ output' = <<>>
  /\ UNCHANGED <<ftpcRuns, ftpcVars, clientVars, serverVars, clientHop, toFtps,
                 ftpsAcks, trollVars, armed>>

\* ftpc has exited and is run again on another file, with ftps waiting.  The
\* acknowledgements no ftpc has read went with the socket of the last one.
RunFtpc ==
  /\ ftpcPc = "done"
  /\ ftpcRuns < ftpsRuns
  /\ ftpcRuns' = ftpcRuns + 1
  /\ ftpcPc' = "sendSize"
  /\ file' = Files[ftpcRuns + 1]
  /\ blocks' = 0
  /\ ftpcAcks' = 0
  /\ UNCHANGED <<ftpsRuns, ftpsVars, clientVars, serverVars, toTcpd, serverHop,
                 trollVars, armed>>

\* tcpd --c is stopped between two transfers and started again.  Everything
\* it knew was in its memory; the server-side tcpd, the timer process and the
\* trolls go on as they were.
RestartClientTcpd ==
  /\ TcpdRestarts
  /\ ftpcPc = "done" /\ ftpcRuns < ftpsRuns
  /\ clientPc' = "recvLocal"
  /\ sn' = 0 /\ sb' = 0 /\ bufferReady' = 0
  /\ firstRun' = TRUE /\ localTimeo' = FALSE
  /\ clientRing' = EmptyRing /\ clientNodes' = EmptyList
  /\ toTcpd' = <<>>
  /\ UNCHANGED <<sessionVars, ftpcVars, ftpsVars, serverVars, ftpcAcks, serverHop,
                 trollVars, armed>>

SessionsNext ==
  \/ Next /\ UNCHANGED sessionVars
  \/ RunFtps
  \/ RunFtpc
  \/ RestartClientTcpd

SessionsSpec == SessionsInit /\ [][SessionsNext]_allVars

-------------------------------------------------------------------------------
(* No transfer reads a datagram of another: each ftps reads a prefix of what
   its ftpc sends, whatever retransmissions of earlier files, old
   acknowledgements and old timeouts the daemons still meet. *)
EachInOrder ==
  ftpsRuns = ftpcRuns => InOrderDelivery

(* An ftps that waits for its ftpc to be started has an empty queue, and the
   number its tcpd expects is the one the other tcpd gives out next, or will be
   once the last acknowledgement of the earlier ftps is counted. *)
NothingLeftOver ==
  ftpcRuns < ftpsRuns => toFtps = <<>> /\ sn = rn + ftpsAcks /\ toTcpd = <<>>

(* How many datagrams of earlier transfers the client daemon has numbered. *)
Earlier == sn + Len(toTcpd) - Handed

(* README.md: tcpd adds reliability to the UDP communication between ftpc and
   ftps; then a datagram of the present file that the client daemon counts as
   acknowledged, and will never transmit again, has been read by its ftps. *)
AckedIsReadEachTime ==
  ftpsRuns = ftpcRuns => sb - Earlier <= Len(Received)

\* Every datagram of a file of n bytes.
Datagrams ==
  [n \in FileSizes |->
     {SizeMsg(n), NameMsg(n)} \cup {DataMsg(n, k) : k \in {j \in 0 .. n : HasBlock(n, j)}}]

\* All that was ever sent: the whole of the earlier files, and of the present
\* one what ftpc has handed over.
EverSent ==
  {StreamMsg(file, i) : i \in 1 .. Handed} \cup
    UNION {Datagrams[Files[r]] : r \in 1 .. ftpcRuns - 1}

(* Whatever else a restarted client daemon, old packets and damaged ones do to
   a transfer, nothing is made up: each datagram that waits for ftps, that it
   has written to its file or has taken for the name is, with contents and
   length together, one that some ftpc has sent. *)
NothingInvented ==
  /\ \A i \in 1 .. Len(toFtps) : toFtps[i] \in EverSent
  /\ \A i \in 1 .. Len(output) : output[i] \in EverSent
  /\ fileName # NoName => \E m \in EverSent : m.body = fileName

(* Nor does any later transfer stop: whatever gates, marks and counts the
   daemons keep from the earlier ones, no one waits for what no one will do. *)
NoTransferWaitsInVain ==
  ftpsRuns = ftpcRuns => NoneWaitsInVain

\* What has come out of the stream: of an earlier transfer all that went in.
ReceivedEach == IF ftpcRuns < ftpsRuns THEN Sent ELSE Received

Streams == INSTANCE ReliableStreams
             WITH Messages <- StreamMessages, sent <- Sent, received <- ReceivedEach

(* The daemons give every ftpc a reliable stream to its ftps, and when ftpc is
   run again, all that the last one sent has been read by its own ftps. *)
EachStreamSafe == Streams!StreamsSpec
===============================================================================
