--------------------------------- MODULE Ftps ---------------------------------
(***************************************************************************)
(* ftps.c: the server.  It reads the size, then the name, then blocks      *)
(* until it has as many bytes as the size says, and sends its tcpd an      *)
(* acknowledgement after each.  It tells datagrams apart by their order    *)
(* alone: whatever comes first is taken for the size, and what comes next  *)
(* for the name; if it is too short for that, ftps exits.                  *)
(***************************************************************************)
EXTENDS Sockets

CONSTANTS
  ServerFirst, \* ftps has its port bound before the client starts
  OpenMayFail, \* fopen may fail
  SizeBytes,   \* bytes ftps reads of the size datagram (4)
  NameBytes,   \* bytes ftps reads of the name datagram (20)
  OddSizes     \* the ints that other datagrams may begin with

ASSUME ServerFirstAssumption == ServerFirst \in BOOLEAN
ASSUME OpenMayFailAssumption == OpenMayFail \in BOOLEAN
ASSUME HeadersAssumption ==
  SizeBytes \in Nat /\ NameBytes \in Nat /\ SizeBytes <= MSS /\ NameBytes <= MSS
ASSUME OddSizesAssumption == OddSizes \subseteq Int /\ OddSizes # {}

VARIABLES
  ftpsPc,      \* where main is
  fileSize,    \* the size received
  fileName,    \* the body received as the name
  amtReadTotal,\* bytes of blocks received
  output       \* the blocks written to the file

ftpsVars == <<ftpsPc, fileSize, fileName, amtReadTotal, output>>

FtpsPcs == {"down", "size", "name", "data", "done", "failed"}

NoName == [kind |-> "none", of |-> 0, val |-> 0]

FtpsInit ==
  /\ ftpsPc = IF ServerFirst THEN "size" ELSE "down"
  /\ ftpsBound = ServerFirst
  /\ fileSize = 0
  /\ fileName = NoName
  /\ amtReadTotal = 0
  /\ output = <<>>

StartFtps ==
  /\ ftpsPc = "down"
  /\ ftpsPc' = "size"
  /\ ftpsBound' = TRUE
  /\ UNCHANGED <<fileSize, fileName, amtReadTotal, output, toFtps, ftpsAcks>>

\* The numbers that the first bytes of a datagram may make.
SizesIn(body) == IF body.kind = "size" THEN {body.val} ELSE OddSizes

RecvSize ==
  /\ ftpsPc = "size"
  /\ toFtps # <<>>
  /\ Head(toFtps).bytes >= SizeBytes
  /\ fileSize' \in SizesIn(Head(toFtps).body)
  /\ toFtps' = Tail(toFtps)
  /\ ftpsAcks' = ftpsAcks + 1
  /\ ftpsPc' = "name"
  /\ UNCHANGED <<fileName, amtReadTotal, output, ftpsBound>>

\* The loop's condition, and the close of the socket when it fails: what is
\* still queued on it is gone.
ReadOn(total) ==
  /\ ftpsPc' = IF total < fileSize THEN "data" ELSE "done"
  /\ ftpsBound' = (total < fileSize)
  /\ toFtps' = IF total < fileSize THEN Tail(toFtps) ELSE <<>>

RecvName ==
  /\ ftpsPc = "name"
  /\ toFtps # <<>>
  /\ Head(toFtps).bytes >= NameBytes
  /\ fileName' = Head(toFtps).body
  /\ ftpsAcks' = ftpsAcks + 1
  /\ ReadOn(0)
  /\ UNCHANGED <<fileSize, amtReadTotal, output>>

\* The name is acknowledged before the file is opened; if that fails ftps exits.
RecvNameOpenFails ==
  /\ OpenMayFail
  /\ ftpsPc = "name"
  /\ toFtps # <<>>
  /\ Head(toFtps).bytes >= NameBytes
  /\ fileName' = Head(toFtps).body
  /\ ftpsAcks' = ftpsAcks + 1
  /\ ftpsPc' = "failed"
  /\ ftpsBound' = FALSE
  /\ toFtps' = <<>>
  /\ UNCHANGED <<fileSize, amtReadTotal, output>>

\* A datagram too short for a size or a name: ftps exits and acknowledges nothing.
RecvShort ==
  /\ toFtps # <<>>
  /\ \/ ftpsPc = "size" /\ Head(toFtps).bytes < SizeBytes
     \/ ftpsPc = "name" /\ Head(toFtps).bytes < NameBytes
  /\ ftpsPc' = "failed"
  /\ ftpsBound' = FALSE
  /\ toFtps' = <<>>
  /\ UNCHANGED <<fileSize, fileName, amtReadTotal, output, ftpsAcks>>

\* Mutant of RecvData: every block counts as a full one.
RecvDataFull ==
  /\ ftpsPc = "data"
  /\ toFtps # <<>>
  /\ amtReadTotal' = amtReadTotal + MSS
  /\ output' = Append(output, Head(toFtps))
  /\ ftpsAcks' = ftpsAcks + 1
  /\ ReadOn(amtReadTotal')
  /\ UNCHANGED <<fileSize, fileName>>

RecvData ==
  /\ ftpsPc = "data"
  /\ toFtps # <<>>
  /\ amtReadTotal' = amtReadTotal + Head(toFtps).bytes
  /\ output' = Append(output, Head(toFtps))
  /\ ftpsAcks' = ftpsAcks + 1
  /\ ReadOn(amtReadTotal')
  /\ UNCHANGED <<fileSize, fileName>>

FtpsNext ==
  StartFtps \/ RecvSize \/ RecvName \/ RecvNameOpenFails \/ RecvShort \/ RecvData
===============================================================================
