-------------------------------- MODULE Troll --------------------------------
(***************************************************************************)
(* The network between the two daemons: the troll processes (a binary      *)
(* outside the sources) on the client and on the server host, which drop,  *)
(* duplicate, delay, reorder and garble the datagrams they relay, and the  *)
(* UDP hops around them.                                                   *)
(*                                                                         *)
(* Each direction is a set of datagrams.  What becomes of a datagram is    *)
(* chosen when it is sent: relayed, lost, or garbled.  A receiver takes    *)
(* any member of the set (delay, reordering) and its copy stays or goes    *)
(* (duplication), so that a set loses nothing against a bag.               *)
(***************************************************************************)
EXTENDS Integers

CONSTANTS
  GarbleAcks,  \* whether the troll also damages acknowledgements
  AckNos       \* the values a damaged ackNo may take

ASSUME GarbleAcksAssumption == GarbleAcks \in BOOLEAN
ASSUME AckNosAssumption == AckNos \subseteq Nat

VARIABLES
  dataNet,     \* packets on their way to the server tcpd's trollSocket
  ackNet       \* ackNo of the MyMessages on their way to the client's ackSocket

trollVars == <<dataNet, ackNet>>

(***************************************************************************)
(* A packet keeps its sequence number, body and bytes_to_read; ok says     *)
(* that its checksum matches.  A garbled packet always fails the check:    *)
(* the 16-bit CRC is taken to detect every damage.  That is an assumption  *)
(* of the model; Crc shows for which damage the code fulfils it.           *)
(***************************************************************************)
Garbled == [seq |-> 0, body |-> [kind |-> "none", of |-> 0, val |-> 0], bytes |-> 0,
            ok |-> FALSE]

DataFates(p) == {dataNet, dataNet \cup {p}, dataNet \cup {Garbled}}

AckFates(a) ==
  {ackNet, ackNet \cup {a}} \cup
    (IF GarbleAcks THEN {ackNet \cup {b} : b \in AckNos} ELSE {})

\* What is left of a direction when a receiver has taken m from it.
Remainders(net, m) == {net, net \ {m}}
===============================================================================
