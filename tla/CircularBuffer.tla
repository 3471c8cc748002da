---------------------------- MODULE CircularBuffer ----------------------------
(***************************************************************************)
(* buffer.c and list.c: the circular buffer of MSS-sized slots that each   *)
(* daemon has (cBuffer, start, end, active) and the list of nodes that     *)
(* describe its slots.  Positions are in slots, where the code counts      *)
(* bytes and moves by MSS; Slots is CBUFFERSIZE / MSS.                     *)
(*                                                                         *)
(* insertNode never makes a second node for a slot, so the list is a       *)
(* function from slots to nodes, NoNode where the list has none.  The      *)
(* order of the list only matters to findNodeBySeq if two nodes have the   *)
(* same sequence number; findNodeBySeq here returns all of their slots.    *)
(***************************************************************************)
EXTENDS Integers

CONSTANT
  Slots        \* slots of the buffer (64), and the 64 of the tcpd's gate

ASSUME SlotsAssumption == Slots \in Nat \ {0}

Slot == 0 .. Slots - 1

\* A slot's contents; a cell that no datagram was copied to is a null pointer.
NoBody == [kind |-> "none", of |-> 0, val |-> 0]

\* timed: sendPacket has stored the time of a transmission in the node.
NoNode == [seq |-> -1, bytes |-> 0, ack |-> 0, timed |-> FALSE]

EmptyRing == [cBuffer |-> [s \in Slot |-> NoBody],
              start |-> 0, end |-> 0, active |-> 0]

EmptyList == [s \in Slot |-> NoNode]

(***************************************************************************)
(* list.c                                                                  *)
(***************************************************************************)
insertNode(nodes, slot, bytes, seq) ==
  [nodes EXCEPT ![slot] = [seq |-> seq, bytes |-> bytes, ack |-> 0, timed |-> FALSE]]

findNodeBySeq(nodes, seq) == {s \in Slot : nodes[s].seq = seq}

(***************************************************************************)
(* buffer.c                                                                *)
(***************************************************************************)
SlotReady(nodes, s) == nodes[s] = NoNode \/ nodes[s].ack = 1

\* k slots on from end, AddToBuffer's search finds the first ready one.
SearchStops(end, nodes, k) ==
  /\ SlotReady(nodes, (end + k) % Slots)
  /\ \A j \in 0 .. k - 1 : ~SlotReady(nodes, (end + j) % Slots)

\* The search goes round the buffer for ever if no slot is ready.
SearchEnds(end, nodes) == \E k \in Slot : SearchStops(end, nodes, k)

ReadySlot(end, nodes) ==
  (end + (CHOOSE k \in Slot : SearchStops(end, nodes, k))) % Slots

\* Mutant of CopyIn: end runs off the buffer.
CopyInNoWrap(ring, slot, p) ==
  [ring EXCEPT !.cBuffer[slot] = p, !.end = slot + 1, !.active = @ + 1]

CopyIn(ring, slot, p) ==
  [cBuffer |-> [ring.cBuffer EXCEPT ![slot] = p],
   end     |-> (slot + 1) % Slots,
   active  |-> IF ring.active <= Slots THEN ring.active + 1 ELSE ring.active,
   start   |-> IF ring.active <= Slots THEN ring.start ELSE (ring.start + 1) % Slots]

\* Mutant of AddToBuffer: a ring that was filled once takes no more.
AddToBufferWhileRoom(ring, nodes, p) ==
  IF ring.active < Slots THEN CopyIn(ring, ReadySlot(ring.end, nodes), p) ELSE ring

AddToBuffer(ring, nodes, p) == CopyIn(ring, ReadySlot(ring.end, nodes), p)

AddToBufferForServer(ring, p) == CopyIn(ring, ring.end, p)

\* Mutant of FrontOf: the slot to be written next instead of the oldest.
EndOf(ring) == IF ring.active = 0 THEN NoBody ELSE ring.cBuffer[ring.end]

FrontOf(ring) == IF ring.active = 0 THEN NoBody ELSE ring.cBuffer[ring.start]

\* Mutant of GetFromBuffer: start stays.
GetWithoutMoving(ring) ==
  IF ring.active = 0 THEN ring ELSE [ring EXCEPT !.active = @ - 1]

GetFromBuffer(ring) ==
  IF ring.active = 0 THEN ring
  ELSE [ring EXCEPT !.start = (ring.start + 1) % Slots, !.active = @ - 1]

cBufferReady(nodes) == \A s \in Slot : nodes[s].ack = 1
===============================================================================
