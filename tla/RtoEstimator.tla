----------------------------- MODULE RtoEstimator -----------------------------
(***************************************************************************)
(* How tcpd --c estimates the round-trip time and sets rto, the delay of   *)
(* the timers it starts.  Only the oldest unacknowledged datagram is ever  *)
(* transmitted, so the module follows one datagram after the other through *)
(* the turns of the loop: a turn transmits it, waits for ftpc for at most  *)
(* LocalWait, for an acknowledgement for at most AckWait and for the timer *)
(* process for at most AckWait again.  The first two reads from ftpc have  *)
(* no timeout: the second one, during which the first datagram is on its   *)
(* way, takes as long as ftpc does, which is at most Patience.             *)
(*                                                                         *)
(* Times are in a unit that divides a second, and the divisions truncate   *)
(* to it, where the code has doubles in seconds.  The time in which the    *)
(* daemon computes, or is not scheduled, is not counted.                   *)
(***************************************************************************)
EXTENDS Integers

CONSTANTS
  LocalWait, AckWait, \* SO_RCVTIMEO of localSocket and of the other two
  Patience,           \* how long ftpc may keep the second read waiting
  Second,             \* one second
  FirstTimes,         \* how long the second read from ftpc may take
  LocalTimes,         \* how long a later one may take
  TimerTimes,         \* how long the read from the timer process may take
  NakTimes,           \* when, in the read of an acknowledgement, another may come
  RoundTrips          \* how long an acknowledgement may take

ASSUME WaitsAssumption ==
  /\ LocalWait \in Nat /\ AckWait \in Nat /\ Second \in Nat \ {0}
  /\ Patience \in Nat /\ LocalWait <= Patience
ASSUME TimesAssumption ==
  /\ FirstTimes \subseteq 0 .. Patience /\ LocalTimes \subseteq 0 .. LocalWait
  /\ TimerTimes \subseteq 0 .. AckWait /\ NakTimes \subseteq 0 .. AckWait
ASSUME RoundTripsAssumption == RoundTrips \subseteq Nat \ {0}

VARIABLES
  stop,        \* the stop of the loop, "transmit" or "recvAck"
  timed,       \* SO_RCVTIMEO has been set on localSocket
  age,         \* how long ago the time in the datagram's node was noted
  arriving,    \* when the acknowledgements of the datagram arrive from now
  firstSend,   \* TRUE until there has been a sample
  est_rtt, est_var, rto

vars == <<stop, timed, age, arriving, firstSend, est_rtt, est_var, rto>>

Init ==
  /\ stop = "transmit"
  /\ timed = FALSE
  /\ age = 0
  /\ arriving = {}
  /\ firstSend = TRUE
  /\ est_rtt = 2 * Second
  /\ est_var = 0
  /\ rto = 3 * Second

After(t) == {IF a > t THEN a - t ELSE 0 : a \in arriving}

\* Mutant of Transmit: the time of the first transmission is kept.
TransmitKeepsTime(t) ==
  /\ stop = "transmit" /\ t \in TimerTimes
  /\ age' = age + t
  /\ arriving' \in {After(t)} \cup {After(t) \cup {r} : r \in RoundTrips}
  /\ stop' = "recvAck"
  /\ UNCHANGED <<timed, firstSend, est_rtt, est_var, rto>>

\* After t at the timer's socket the datagram is transmitted, for the first
\* time or again, and sendPacket notes the time; the network may lose it or its
\* acknowledgement.
Transmit(t) ==
  /\ stop = "transmit" /\ t \in TimerTimes
  /\ age' = 0
  /\ arriving' \in {After(t)} \cup {After(t) \cup {r} : r \in RoundTrips}
  /\ stop' = "recvAck"
  /\ UNCHANGED <<timed, firstSend, est_rtt, est_var, rto>>

\* abs takes an int: what is left of a difference of two doubles is its whole
\* seconds.
Distance(x, y) == IF x > y THEN x - y ELSE y - x

\* Mutant of Deviation: the sign is kept.
DeviationSigned(x, y) == x - y

Deviation(x, y) == (Distance(x, y) \div Second) * Second

Estimate(elapsed) ==
  /\ est_rtt' = IF firstSend THEN elapsed ELSE (7 * elapsed + est_rtt) \div 8
  /\ est_var' = IF firstSend THEN elapsed \div 2
                ELSE (3 * est_var + Deviation(est_rtt', elapsed)) \div 4
  /\ rto' = est_rtt' + 4 * est_var'

\* The read from ftpc at the start of a turn takes l.
RecvLocal(l) ==
  /\ l \in IF timed THEN LocalTimes ELSE FirstTimes
  /\ timed' = TRUE

\* The read of an acknowledgement returns when the first one is there.  Those of
\* this datagram that follow are old then.
RecvAck(l, a) ==
  /\ stop = "recvAck"
  /\ RecvLocal(l)
  /\ a \in arriving /\ a <= l + AckWait
  /\ \A b \in arriving : a <= b
  /\ Estimate(age + (IF a > l THEN a ELSE l))
  /\ firstSend' = FALSE
  /\ age' = 0
  /\ arriving' = {}
  /\ stop' = "transmit"

\* The read ends after w without it.
ReadOn(l, w) ==
  /\ stop = "recvAck"
  /\ RecvLocal(l)
  /\ age' = age + l + w
  /\ arriving' = After(l + w)
  /\ stop' = "transmit"
  /\ UNCHANGED <<firstSend, est_rtt, est_var, rto>>

\* It returns another number.  If it has to wait for that, the acknowledgement is
\* not there yet; if not, the other one may be ahead of it.
RecvNak(l, w) ==
  /\ w \in NakTimes
  /\ w > 0 => \A a \in arriving : a >= l + w
  /\ ReadOn(l, w)

AckTimeout(l) ==
  /\ \A a \in arriving : a > l + AckWait
  /\ ReadOn(l, AckWait)

Next ==
  \/ \E t \in TimerTimes : Transmit(t)
  \/ \E l \in FirstTimes \cup LocalTimes :
       \/ \E a \in arriving : RecvAck(l, a)
       \/ \E w \in NakTimes : RecvNak(l, w)
       \/ AckTimeout(l)

Spec == Init /\ [][Next]_vars

-------------------------------------------------------------------------------
TypeOK ==
  /\ stop \in {"transmit", "recvAck"}
  /\ timed \in BOOLEAN
  /\ age \in Nat
  /\ arriving \subseteq Nat
  /\ firstSend \in BOOLEAN
  /\ est_rtt \in Nat /\ est_var \in Nat /\ rto \in Nat

(* From the first sample on rto lies between the estimate and three turns'
   worth of waiting, whatever the network does: no wait for an acknowledgement
   is measured past the turn it was transmitted in, and the deviations, as abs
   truncates them, never add up to more than half a turn. *)
Turn == Patience + AckWait

RtoBounded ==
  ~firstSend => est_rtt <= Turn /\ est_rtt <= rto /\ rto <= 3 * Turn

(* tcpd.c: "RTT / RTO calcuations", with the estimate printed as "RTT".  Then it
   is never less than what every round trip takes. *)
EstimateIsRoundTrip == ~firstSend => \E r \in RoundTrips : r <= est_rtt

(* The inductive invariant. *)
IInv ==
  /\ TypeOK
  /\ stop = "recvAck" => age = 0
  /\ rto = est_rtt + 4 * est_var \/ firstSend
  /\ ~firstSend => est_rtt <= Turn /\ 2 * est_var <= Turn
===============================================================================
