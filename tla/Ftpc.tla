--------------------------------- MODULE Ftpc ---------------------------------
(***************************************************************************)
(* ftpc.c: the client.  It hands its tcpd the size of the file, its name   *)
(* and its blocks, one datagram at a time, and after each waits without a  *)
(* timeout for the tcpd's acknowledgement.  That acknowledgement only says *)
(* that the local daemon has a copy.                                       *)
(***************************************************************************)
EXTENDS Sockets

VARIABLES
  ftpcPc,      \* where main is
  file,        \* the file it is run on, which is that of its length
  blocks       \* number of blocks read from the file and sent

ftpcVars == <<ftpcPc, file, blocks>>

\* ftell returns a long, which main keeps in an int.
num_bytes == IntOf(file)

FtpcPcs == {"sendSize", "sizeAck", "sendName", "nameAck", "sendBlock", "blockAck",
            "done"}

FtpcInit ==
  /\ ftpcPc = "sendSize"
  /\ file \in FileSizes
  /\ blocks = 0

Send(m) == toTcpd' = Append(toTcpd, m)

SendSize ==
  /\ ftpcPc = "sendSize"
  /\ Send(SizeMsg(file))
  /\ ftpcPc' = "sizeAck"
  /\ UNCHANGED <<file, blocks, ftpcAcks>>

SendName ==
  /\ ftpcPc = "sendName"
  /\ Send(NameMsg(file))
  /\ ftpcPc' = "nameAck"
  /\ UNCHANGED <<file, blocks, ftpcAcks>>

SendBlock ==
  /\ ftpcPc = "sendBlock"
  /\ HasBlock(file, blocks)
  /\ Send(DataMsg(file, blocks))
  /\ blocks' = blocks + 1
  /\ ftpcPc' = "blockAck"
  /\ UNCHANGED <<file, ftpcAcks>>

\* fread returns 0: the client reports success and closes.
Finish ==
  /\ ftpcPc = "sendBlock"
  /\ ~HasBlock(file, blocks)
  /\ ftpcPc' = "done"
  /\ UNCHANGED <<file, blocks, clientHop>>

\* The three waits for the local tcpd's acknowledgement.
RecvTcpdAck(at, next) ==
  /\ ftpcPc = at
  /\ ftpcAcks > 0
  /\ ftpcAcks' = ftpcAcks - 1
  /\ ftpcPc' = next
  /\ UNCHANGED <<file, blocks, toTcpd>>

FtpcNext ==
  \/ SendSize
  \/ RecvTcpdAck("sizeAck", "sendName")
  \/ SendName
  \/ RecvTcpdAck("nameAck", "sendBlock")
  \/ SendBlock
  \/ RecvTcpdAck("blockAck", "sendBlock")
  \/ Finish

\* How many datagrams main has sent.
Handed ==
  IF ftpcPc = "sendSize" THEN 0
  ELSE IF ftpcPc \in {"sizeAck", "sendName"} THEN 1
  ELSE 2 + blocks
===============================================================================
