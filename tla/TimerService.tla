----------------------------- MODULE TimerService -----------------------------
(***************************************************************************)
(* The timer process as the client tcpd sees it through its timerSocket.   *)
(* armed is the set of sequence numbers that may come back as a timeout:   *)
(* those with a node in the delta list, or with a request or a timeout in  *)
(* one of the two socket buffers.                                          *)
(*                                                                         *)
(* The daemon starts a timer on every turn of its loop, so the same number *)
(* is usually armed several times over; a set does not count them, and     *)
(* both a timeout and a cancellation may therefore leave the number armed. *)
(* When a timer runs out is left open: a timeout may come at any moment.   *)
(***************************************************************************)
EXTENDS Integers

VARIABLE armed

starttimer(seq) == armed' = armed \cup {seq}

canceltimer(seq) == armed' \in {armed, armed \ {seq}}

\* The timeouts that may be the next datagram read from timerSocket.
Timeouts == armed

\* One timeout for seq has been read.
TimeoutRead(seq) == armed' \in {armed, armed \ {seq}}
===============================================================================
