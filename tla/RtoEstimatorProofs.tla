-------------------------- MODULE RtoEstimatorProofs --------------------------
(***************************************************************************)
(* Proofs about RtoEstimator, for all timeouts, all round trips and all    *)
(* runs.                                                                   *)
(***************************************************************************)
EXTENDS RtoEstimator, TLAPS

(* What is left to arrive is in the future. *)
LEMMA AfterType ==
  ASSUME arriving \subseteq Nat, NEW t \in Nat
  PROVE  After(t) \subseteq Nat
  BY DEF After

(* rto is a natural number. *)
LEMMA SumNat ==
  ASSUME NEW e \in Nat, NEW v \in Nat
  PROVE  e + 4 * v \in Nat
  OBVIOUS

(* Truncation to whole seconds does not make a difference larger. *)
LEMMA DeviationBound ==
  ASSUME NEW x \in Nat, NEW y \in Nat
  PROVE  Deviation(x, y) \in Nat /\ Deviation(x, y) <= Distance(x, y)
<1> DEFINE d == Distance(x, y)
           q == d \div Second
<1>1. d \in Nat
  BY DEF Distance
<1> HIDE DEF d
<1>2. Second \in Nat \ {0}
  BY WaitsAssumption
<1>3. q \in Nat /\ q * Second <= d
  BY <1>1, <1>2, Z3
<1> HIDE DEF q
<1>4. q * Second \in Nat
  BY <1>2, <1>3
<1> QED
  BY <1>3, <1>4 DEF Deviation, d, q

(* A new estimate is so near to the sample that the variance keeps its bound:
   of the distance between the sample and the old estimate an eighth is left. *)
LEMMA VarianceStep ==
  ASSUME NEW n \in Nat, NEW e \in 0 .. n, NEW r \in 0 .. n,
         NEW v \in Nat, 2 * v <= n,
         NEW d \in Nat, d <= Distance((7 * e + r) \div 8, e)
  PROVE  /\ (7 * e + r) \div 8 \in 0 .. n
         /\ (3 * v + d) \div 4 \in Nat /\ 2 * ((3 * v + d) \div 4) <= n
<1> DEFINE f == (7 * e + r) \div 8
           w == (3 * v + d) \div 4
<1>1. f \in Nat /\ 8 * f <= 7 * e + r /\ 7 * e + r <= 8 * f + 7
  OBVIOUS
<1>2. w \in Nat /\ 4 * w <= 3 * v + d
  OBVIOUS
<1>3. d <= Distance(f, e)
  OBVIOUS
<1> HIDE DEF f, w
<1>4. f \in 0 .. n
  BY <1>1
<1>5. 8 * d <= n + 7
  BY <1>1, <1>3, <1>4 DEF Distance
<1>6. 2 * w <= n
  BY <1>2, <1>5
<1> QED
  BY <1>2, <1>4, <1>6 DEF f, w

(* A sample is no longer than the turn in which its datagram was transmitted. *)
LEMMA SampleInTurn ==
  ASSUME IInv, NEW l \in FirstTimes \cup LocalTimes, NEW a \in arriving, RecvAck(l, a)
  PROVE  \E elapsed \in 0 .. Turn : Estimate(elapsed)
<1>1. age = 0 /\ a \in Nat /\ a <= l + AckWait /\ l \in 0 .. Patience
  BY TimesAssumption, WaitsAssumption DEF IInv, TypeOK, RecvAck
<1> DEFINE e == age + (IF a > l THEN a ELSE l)
<1>2. e \in 0 .. Turn
  BY <1>1, WaitsAssumption DEF Turn
<1>3. Estimate(e)
  BY DEF RecvAck
<1> QED
  BY <1>2, <1>3

(* The estimate stays within a turn and the variance within half of one. *)
LEMMA EstimateBound ==
  ASSUME IInv, NEW elapsed \in 0 .. Turn, Estimate(elapsed)
  PROVE  /\ est_rtt' \in 0 .. Turn /\ est_var' \in Nat
         /\ 2 * est_var' <= Turn /\ rto' = est_rtt' + 4 * est_var'
<1>1. Turn \in Nat /\ est_rtt \in Nat /\ est_var \in Nat
  BY WaitsAssumption DEF Turn, IInv, TypeOK
<1> HIDE DEF Turn
<1>2. rto' = est_rtt' + 4 * est_var'
  BY DEF Estimate
<1>3. CASE firstSend
  <2>1. est_rtt' = elapsed /\ est_var' = elapsed \div 2
    BY <1>3 DEF Estimate
  <2>2. est_var' \in Nat /\ 2 * est_var' <= elapsed
    BY <1>1, <2>1
  <2> QED
    BY <1>1, <1>2, <2>1, <2>2
<1>4. CASE ~firstSend
  <2>1. /\ est_rtt' = (7 * elapsed + est_rtt) \div 8
        /\ est_var' = (3 * est_var + Deviation(est_rtt', elapsed)) \div 4
    BY <1>4 DEF Estimate
  <2>2. est_rtt \in 0 .. Turn /\ 2 * est_var <= Turn
    BY <1>1, <1>4 DEF IInv
  <2>3. est_rtt' \in Nat /\ elapsed \in Nat
    BY <1>1, <2>1
  <2> DEFINE d == Deviation(est_rtt', elapsed)
  <2>4. d \in Nat /\ d <= Distance(est_rtt', elapsed)
    BY <2>3, DeviationBound
  <2>5. est_var' = (3 * est_var + d) \div 4
    BY <2>1
  <2> HIDE DEF d
  <2>6. d <= Distance((7 * elapsed + est_rtt) \div 8, elapsed)
    BY <2>1, <2>4
  <2>7. /\ (7 * elapsed + est_rtt) \div 8 \in 0 .. Turn
        /\ (3 * est_var + d) \div 4 \in Nat /\ 2 * ((3 * est_var + d) \div 4) <= Turn
    BY <1>1, <2>2, <2>4, <2>6, VarianceStep
  <2> QED
    BY <1>2, <2>1, <2>5, <2>7
<1> QED
  BY <1>3, <1>4

-------------------------------------------------------------------------------
(* The invariant holds initially. *)
LEMMA InitInv == Init => IInv
<1> SUFFICES ASSUME Init PROVE IInv
  OBVIOUS
<1>1. 2 * Second \in Nat /\ 3 * Second \in Nat
  BY WaitsAssumption
<1> QED
  BY <1>1 DEF Init, IInv, TypeOK

(* Every step keeps it. *)
LEMMA NextInv == IInv /\ [Next]_vars => IInv'
<1> SUFFICES ASSUME IInv, [Next]_vars PROVE IInv'
  OBVIOUS
<1>1. ASSUME NEW t \in TimerTimes, Transmit(t)
      PROVE  IInv'
  <2>1. t \in Nat
    BY TimesAssumption, WaitsAssumption
  <2>2. After(t) \subseteq Nat
    BY <2>1, AfterType DEF IInv, TypeOK
  <2>3. arriving' \subseteq Nat
    BY <1>1, <2>2, RoundTripsAssumption DEF Transmit
  <2> QED
    BY <1>1, <2>3 DEF Transmit, IInv, TypeOK
<1>2. ASSUME NEW l \in FirstTimes \cup LocalTimes, NEW w \in 0 .. AckWait, ReadOn(l, w)
      PROVE  IInv'
  <2>1. l \in Nat /\ w \in Nat /\ l + w \in Nat
    BY TimesAssumption, WaitsAssumption
  <2>2. After(l + w) \subseteq Nat
    BY <2>1, AfterType DEF IInv, TypeOK
  <2>3. age' \in Nat
    BY <1>2, <2>1 DEF ReadOn, IInv, TypeOK
  <2> QED
    BY <1>2, <2>2, <2>3 DEF ReadOn, RecvLocal, IInv, TypeOK
<1>3. ASSUME NEW l \in FirstTimes \cup LocalTimes, NEW a \in arriving, RecvAck(l, a)
      PROVE  IInv'
  <2>1. PICK elapsed \in 0 .. Turn : Estimate(elapsed)
    BY <1>3, SampleInTurn
  <2>2. /\ est_rtt' \in 0 .. Turn /\ est_var' \in Nat
        /\ 2 * est_var' <= Turn /\ rto' = est_rtt' + 4 * est_var'
    BY <2>1, EstimateBound
  <2>3. /\ stop' = "transmit" /\ age' = 0 /\ arriving' = {} /\ firstSend' = FALSE
        /\ timed' = TRUE
    BY <1>3 DEF RecvAck, RecvLocal
  <2>4. Turn \in Nat
    BY WaitsAssumption DEF Turn
  <2>5. est_rtt' \in Nat /\ est_rtt' <= Turn
    BY <2>2, <2>4
  <2>6. rto' \in Nat
    BY <2>2, <2>5, SumNat
  <2> QED
    BY <2>2, <2>3, <2>5, <2>6 DEF IInv, TypeOK
<1>4. CASE UNCHANGED vars
  BY <1>4 DEF vars, IInv, TypeOK
<1>5. ASSUME NEW l \in FirstTimes \cup LocalTimes, NEW w \in NakTimes, RecvNak(l, w)
      PROVE  IInv'
  BY <1>2, <1>5, TimesAssumption DEF RecvNak
<1>6. ASSUME NEW l \in FirstTimes \cup LocalTimes, AckTimeout(l)
      PROVE  IInv'
  BY <1>2, <1>6, WaitsAssumption DEF AckTimeout
<1> QED
  BY <1>1, <1>3, <1>4, <1>5, <1>6 DEF Next

(* rto is never less than the estimate and never more than three turns. *)
LEMMA InvBounds == IInv => RtoBounded
  BY WaitsAssumption DEF IInv, TypeOK, RtoBounded, Turn

(* Every variable keeps its type and the invariant holds. *)
THEOREM Invariance == Spec => []IInv
  BY InitInv, NextInv, PTL DEF Spec

(* No age, estimate or delay becomes negative. *)
THEOREM TypeCorrect == Spec => []TypeOK
<1>1. IInv => TypeOK
  BY DEF IInv
<1> QED
  BY <1>1, Invariance, PTL

(* The delay of every timer that tcpd starts after its first sample lies
   between the estimate and three turns of waiting. *)
THEOREM Bounded == Spec => []RtoBounded
  BY Invariance, InvBounds, PTL
===============================================================================
