------------------------------- MODULE Sockets -------------------------------
(***************************************************************************)
(* The two local hops of the system, both UDP on one host: ftpc and the    *)
(* client-side tcpd talk over ports 9797 and 10010, the server-side tcpd   *)
(* and ftps over ports 9797 and 10021.  Each direction is a socket buffer. *)
(* The daemons' acknowledgements carry the constant 1, so those two        *)
(* buffers are counters.                                                   *)
(*                                                                         *)
(* The module also says what travels: the datagrams ftpc SENDs for a file  *)
(* of n bytes, namely its size, its name and then the blocks fread         *)
(* returns.  A body is abstracted to what it stands for: the number that   *)
(* is the size, the file whose name it is, the file and the offset the     *)
(* block is from.  Files are told apart by their lengths.                  *)
(***************************************************************************)
EXTENDS Integers, Sequences

CONSTANTS
  MSS,         \* bytes in a full datagram (1000 in rtool.h)
  FileSizes,   \* the lengths of the files ftpc may be started with
  INT_MAX      \* the largest int (2^31 - 1)

ASSUME MSSAssumption == MSS \in Nat \ {0}
ASSUME FileSizesAssumption == FileSizes \subseteq Nat
ASSUME IntAssumption == INT_MAX \in Nat

VARIABLES
  toTcpd,      \* datagrams from ftpc waiting on the client tcpd's localSocket
  ftpcAcks,    \* acknowledgements waiting on ftpc's ackSock
  toFtps,      \* datagrams from the server tcpd waiting on ftps' sock
  ftpsAcks,    \* acknowledgements waiting on the server tcpd's ackSocket
  ftpsBound    \* whether ftps has its port bound

clientHop == <<toTcpd, ftpcAcks>>
serverHop == <<toFtps, ftpsAcks, ftpsBound>>

MinOf(a, b) == IF a < b THEN a ELSE b

\* What becomes of the long n that is stored in an int, in two's complement.
IntOf(n) == ((n + INT_MAX + 1) % (2 * (INT_MAX + 1))) - (INT_MAX + 1)

(***************************************************************************)
(* Datagrams.  bytes is the length given to sendto.                        *)
(***************************************************************************)
Body == [kind : {"size", "name", "data"}, of : Nat, val : Int]

Message == [body : Body, bytes : Nat]

SizeMsg(n) == [body |-> [kind |-> "size", of |-> 0, val |-> IntOf(n)], bytes |-> MSS]

NameMsg(n) == [body |-> [kind |-> "name", of |-> n, val |-> 0], bytes |-> MSS]

HasBlock(n, k) == k * MSS < n

DataMsg(n, k) == [body  |-> [kind |-> "data", of |-> n, val |-> k * MSS],
                  bytes |-> MinOf(MSS, n - k * MSS)]

\* The i-th datagram of the transfer of a file of n bytes.
StreamMsg(n, i) ==
  IF i = 1 THEN SizeMsg(n) ELSE IF i = 2 THEN NameMsg(n) ELSE DataMsg(n, i - 3)

\* Every datagram that some transfer contains.
StreamMessages ==
  {SizeMsg(n) : n \in FileSizes} \cup {NameMsg(n) : n \in FileSizes} \cup
    UNION {{DataMsg(n, k) : k \in {j \in 0 .. n : HasBlock(n, j)}} : n \in FileSizes}
===============================================================================
