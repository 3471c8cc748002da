---------------------------- MODULE DeltaTimerProofs ----------------------------
(***************************************************************************)
(* Proofs about the delta timer, for all numbers, delays and bounds.  The  *)
(* first lemmas say what the operators on the list return, field by field; *)
(* then come one lemma per action and the theorems.                        *)
(***************************************************************************)
EXTENDS DeltaTimer, SequenceTheorems, TLAPS

(* What is left of a time is never negative. *)
LEMMA LessIs == ASSUME NEW l \in Nat, NEW e \in Nat PROVE Less(l, e) \in Nat /\ Less(l, e) <= l /\ (Less(l, e) > 0 => Less(l, e) = l - e)
  BY DEF Less

(* select's time: the first timer's own time and every timer's counted time. *)
LEMMA CountedTimeIs ==
  ASSUME list \in Seq(Timer), NEW e \in Nat
  PROVE  /\ CountedTime(e) \in Seq(Timer)
         /\ DOMAIN CountedTime(e) = DOMAIN list
         /\ \A i \in DOMAIN list :
              /\ CountedTime(e)[i].time = (IF i = 1 THEN list[i].time - e ELSE list[i].time)
              /\ CountedTime(e)[i].due = list[i].due - e
              /\ CountedTime(e)[i].left = Less(list[i].left, e)
              /\ CountedTime(e)[i].seq = list[i].seq
  <1>1. ASSUME NEW i \in DOMAIN list
        PROVE  /\ CountedTime(e)[i] \in Timer
               /\ CountedTime(e)[i].time = (IF i = 1 THEN list[i].time - e ELSE list[i].time)
               /\ CountedTime(e)[i].due = list[i].due - e
               /\ CountedTime(e)[i].left = Less(list[i].left, e)
               /\ CountedTime(e)[i].seq = list[i].seq
    <2> DEFINE a == IF i = 1 THEN list[i].time - e ELSE list[i].time
               b == list[i].due - e
               c == Less(list[i].left, e)
    <2>1. list[i] \in Timer
      OBVIOUS
    <2>2. a \in Int /\ b \in Int /\ c \in Nat
      <3>1. list[i].time \in Int /\ list[i].due \in Int /\ list[i].left \in Nat
        BY <2>1 DEF Timer
      <3>2. a \in Int /\ b \in Int
        BY <3>1
      <3>3. c \in Nat
        BY <3>1, LessIs
      <3> QED
        BY <3>2, <3>3
    <2>3. CountedTime(e)[i] = [list[i] EXCEPT !.time = a, !.due = b, !.left = c]
      <3>1. CountedTime(e)[i] =
              [list[i] EXCEPT !.time = IF i = 1 THEN @ - e ELSE @,
                              !.due = @ - e, !.left = Less(@, e)]
        BY DEF CountedTime
      <3> QED
        BY <2>1, <3>1 DEF Timer
    <2> HIDE DEF a, b, c
    <2> DEFINE u == CountedTime(e)[i]
    <2> HIDE DEF u
    <2>4. u = [list[i] EXCEPT !.time = a, !.due = b, !.left = c]
      BY <2>3 DEF u
    <2>5. u \in Timer /\ u.time = a /\ u.due = b /\ u.left = c /\ u.seq = list[i].seq
      BY <2>1, <2>2, <2>4 DEF Timer
    <2> QED
      BY <2>5 DEF a, b, c, u
  <1>2. DOMAIN CountedTime(e) = DOMAIN list
    BY DEF CountedTime
  <1>3. CountedTime(e) \in Seq(Timer)
    <2>1. DOMAIN list = 1 .. Len(list) /\ Len(list) \in Nat
      OBVIOUS
    <2>2. \A i \in 1 .. Len(list) : CountedTime(e)[i] \in Timer
      BY <1>1, <2>1
    <2>3. CountedTime(e) = [i \in 1 .. Len(list) |-> CountedTime(e)[i]]
      BY <2>1 DEF CountedTime
    <2>4. CountedTime(e) \in [1 .. Len(list) -> Timer]
      BY <2>2, <2>3
    <2> QED
      BY <2>1, <2>4, SeqDef
  <1> QED
    BY <1>1, <1>2, <1>3

(* Time outside of select changes no time that the code keeps. *)
LEMMA UncountedTimeIs ==
  ASSUME list \in Seq(Timer), NEW e \in Nat
  PROVE  /\ UncountedTime(e) \in Seq(Timer)
         /\ DOMAIN UncountedTime(e) = DOMAIN list
         /\ \A i \in DOMAIN list :
              /\ UncountedTime(e)[i].due = list[i].due
              /\ UncountedTime(e)[i].seq = list[i].seq
              /\ UncountedTime(e)[i].time = list[i].time
              /\ UncountedTime(e)[i].left = Less(list[i].left, e)
  <1>1. ASSUME NEW i \in DOMAIN list
        PROVE /\ UncountedTime(e)[i] \in Timer
              /\ UncountedTime(e)[i].due = list[i].due
              /\ UncountedTime(e)[i].seq = list[i].seq
              /\ UncountedTime(e)[i].time = list[i].time
              /\ UncountedTime(e)[i].left = Less(list[i].left, e)
    <2>1. list[i] \in Timer
      OBVIOUS
    <2>2. Less(list[i].left, e) \in Nat
      BY <2>1, LessIs DEF Timer
    <2>3. UncountedTime(e)[i] = [list[i] EXCEPT !.left = Less(list[i].left, e)]
      BY <2>1 DEF UncountedTime
    <2> QED BY <2>1, <2>2, <2>3 DEF Timer
  <1>2. DOMAIN UncountedTime(e) = DOMAIN list
    BY DEF UncountedTime
  <1>3. UncountedTime(e) \in Seq(Timer)
    <2>1. DOMAIN list = 1 .. Len(list) /\ Len(list) \in Nat
      OBVIOUS
    <2>2. \A i \in 1 .. Len(list) : UncountedTime(e)[i] \in Timer
      BY <1>1, <2>1
    <2>3. UncountedTime(e) = [i \in 1 .. Len(list) |-> UncountedTime(e)[i]]
      BY <2>1 DEF UncountedTime
    <2>4. UncountedTime(e) \in [1 .. Len(list) -> Timer]
      BY <2>2, <2>3
    <2> QED
      BY <2>1, <2>4, SeqDef
  <1> QED
    BY <1>1, <1>2, <1>3
(* Requests keep what they ask for. *)
LEMMA RequestsLaterIs ==
  ASSUME requests \in Seq(Request), NEW e \in Nat
  PROVE  /\ RequestsLater(e) \in Seq(Request)
         /\ DOMAIN RequestsLater(e) = DOMAIN requests
         /\ \A i \in DOMAIN requests :
              /\ RequestsLater(e)[i].type = requests[i].type
              /\ RequestsLater(e)[i].seq = requests[i].seq
              /\ RequestsLater(e)[i].time = requests[i].time
              /\ RequestsLater(e)[i].left = Less(requests[i].left, e)
  <1>1. ASSUME NEW i \in DOMAIN requests
        PROVE /\ RequestsLater(e)[i] \in Request
              /\ RequestsLater(e)[i].type = requests[i].type
              /\ RequestsLater(e)[i].seq = requests[i].seq
              /\ RequestsLater(e)[i].time = requests[i].time
              /\ RequestsLater(e)[i].left = Less(requests[i].left, e)
    <2>1. requests[i] \in Request
      OBVIOUS
    <2>2. Less(requests[i].left, e) \in Nat
      BY <2>1, LessIs DEF Request
    <2>3. RequestsLater(e)[i] = [requests[i] EXCEPT !.left = Less(requests[i].left, e)]
      BY <2>1 DEF RequestsLater
    <2> QED BY <2>1, <2>2, <2>3 DEF Request
  <1>2. DOMAIN RequestsLater(e) = DOMAIN requests
    BY DEF RequestsLater
  <1>3. RequestsLater(e) \in Seq(Request)
    <2>1. DOMAIN requests = 1 .. Len(requests) /\ Len(requests) \in Nat
      OBVIOUS
    <2>2. \A i \in 1 .. Len(requests) : RequestsLater(e)[i] \in Request
      BY <1>1, <2>1
    <2>3. RequestsLater(e) = [i \in 1 .. Len(requests) |-> RequestsLater(e)[i]]
      BY <2>1 DEF RequestsLater
    <2>4. RequestsLater(e) \in [1 .. Len(requests) -> Request]
      BY <2>2, <2>3
    <2> QED
      BY <2>1, <2>4, SeqDef
  <1> QED
    BY <1>1, <1>2, <1>3
(* A list from which one timer is removed. *)
LEMMA RemovedIs ==
  ASSUME TypeOK, NEW i \in DOMAIN list
  PROVE  /\ Removed(i) \in Seq(Timer)
         /\ DOMAIN Removed(i) = 1 .. Len(list) - 1
         /\ Len(Removed(i)) = Len(list) - 1
         /\ \A j \in 1 .. Len(list) - 1 :
              /\ Removed(i)[j].due = (IF j < i THEN list[j].due ELSE list[j + 1].due)
              /\ Removed(i)[j].left = (IF j < i THEN list[j].left ELSE list[j + 1].left)
              /\ Removed(i)[j].seq = (IF j < i THEN list[j].seq ELSE list[j + 1].seq)
              /\ Removed(i)[j].time =
                   (IF j < i THEN list[j].time
                    ELSE IF j = i THEN list[j + 1].time + list[i].time
                    ELSE list[j + 1].time)
  <1>1. list \in Seq(Timer) /\ Len(list) \in Nat /\ i \in 1 .. Len(list)
    BY DEF TypeOK
  <1>2. \A j \in 1 .. Len(list) : list[j] \in Timer
    BY <1>1
  <1> DEFINE Fields(j) ==
               /\ Removed(i)[j].due = (IF j < i THEN list[j].due ELSE list[j + 1].due)
               /\ Removed(i)[j].left = (IF j < i THEN list[j].left ELSE list[j + 1].left)
               /\ Removed(i)[j].seq = (IF j < i THEN list[j].seq ELSE list[j + 1].seq)
               /\ Removed(i)[j].time =
                    (IF j < i THEN list[j].time
                     ELSE IF j = i THEN list[j + 1].time + list[i].time
                     ELSE list[j + 1].time)
  <1>3. ASSUME NEW j \in 1 .. Len(list) - 1
        PROVE  Removed(i)[j] \in Timer /\ Fields(j)
    <2>1. list[j] \in Timer /\ list[j + 1] \in Timer /\ list[i] \in Timer
      BY <1>1, <1>2
    <2>2. CASE j = i
      <3> DEFINE a == list[j + 1].time + list[i].time
      <3>1. a \in Int
        BY <2>1 DEF Timer
      <3>2. Removed(i)[j] = [list[j + 1] EXCEPT !.time = a]
        BY <1>1, <2>1, <2>2 DEF Removed
      <3>3. ~(j < i)
        BY <1>1, <2>2
      <3> HIDE DEF a
      <3>4. /\ Removed(i)[j] \in Timer
            /\ Removed(i)[j].due = list[j + 1].due
            /\ Removed(i)[j].left = list[j + 1].left
            /\ Removed(i)[j].seq = list[j + 1].seq
            /\ Removed(i)[j].time = a
        BY <2>1, <3>1, <3>2 DEF Timer
      <3> QED
        BY <2>2, <3>3, <3>4 DEF a
    <2>3. CASE j < i
      <3>1. Removed(i)[j] = list[j]
        BY <2>3 DEF Removed
      <3> QED
        BY <2>1, <2>3, <3>1
    <2>4. CASE j > i
      <3>1. Removed(i)[j] = list[j + 1]
        BY <1>1, <2>4 DEF Removed
      <3>2. ~(j < i) /\ j # i
        BY <1>1, <2>4
      <3> QED
        BY <2>1, <3>1, <3>2
    <2> QED
      BY <1>1, <2>2, <2>3, <2>4
  <1>4. Removed(i) \in Seq(Timer) /\ DOMAIN Removed(i) = 1 .. Len(list) - 1
    <2>1. Removed(i) = [j \in 1 .. Len(list) - 1 |-> Removed(i)[j]]
      BY DEF Removed
    <2>2. Removed(i) \in [1 .. Len(list) - 1 -> Timer]
      BY <1>3, <2>1
    <2> QED
      BY <1>1, <2>2, SeqDef
  <1>5. Len(Removed(i)) = Len(list) - 1
    BY <1>1, <1>4
  <1> QED
    BY <1>3, <1>4, <1>5

(* A list into which insert_node's node is linked. *)
LEMMA LinkedIs ==
  ASSUME TypeOK, curr \in 1 .. Len(list) + 1
  PROVE  /\ Linked \in Seq(Timer)
         /\ DOMAIN Linked = 1 .. Len(list) + 1
         /\ Len(Linked) = Len(list) + 1
         /\ \A j \in 1 .. Len(list) + 1 :
              /\ Linked[j].due = (IF j < curr THEN list[j].due
                                  ELSE IF j = curr THEN node.due ELSE list[j - 1].due)
              /\ Linked[j].left = (IF j < curr THEN list[j].left
                                   ELSE IF j = curr THEN node.left ELSE list[j - 1].left)
              /\ Linked[j].seq = (IF j < curr THEN list[j].seq
                                  ELSE IF j = curr THEN node.seq ELSE list[j - 1].seq)
              /\ Linked[j].time =
                   (IF j < curr THEN list[j].time
                    ELSE IF j = curr THEN node.time
                    ELSE IF j = curr + 1 THEN list[j - 1].time - node.time
                    ELSE list[j - 1].time)
  <1>1. list \in Seq(Timer) /\ Len(list) \in Nat
    BY DEF TypeOK
  <1>2. node \in Timer
    BY DEF TypeOK, Timer
  <1>3. \A j \in 1 .. Len(list) : list[j] \in Timer
    BY <1>1
  <1> DEFINE Fields(j) ==
               /\ Linked[j].due = (IF j < curr THEN list[j].due
                                   ELSE IF j = curr THEN node.due ELSE list[j - 1].due)
               /\ Linked[j].left = (IF j < curr THEN list[j].left
                                    ELSE IF j = curr THEN node.left ELSE list[j - 1].left)
               /\ Linked[j].seq = (IF j < curr THEN list[j].seq
                                   ELSE IF j = curr THEN node.seq ELSE list[j - 1].seq)
               /\ Linked[j].time =
                    (IF j < curr THEN list[j].time
                     ELSE IF j = curr THEN node.time
                     ELSE IF j = curr + 1 THEN list[j - 1].time - node.time
                     ELSE list[j - 1].time)
  <1>4. ASSUME NEW j \in 1 .. Len(list) + 1
        PROVE  Linked[j] \in Timer /\ Fields(j)
    <2>1. CASE j < curr
      <3>1. Linked[j] = list[j] /\ j \in 1 .. Len(list)
        BY <1>1, <2>1 DEF Linked
      <3> QED
        BY <1>3, <2>1, <3>1
    <2>2. CASE j = curr
      <3>1. Linked[j] = node /\ ~(j < curr)
        BY <2>2 DEF Linked
      <3> QED
        BY <1>2, <2>2, <3>1
    <2>3. CASE j = curr + 1
      <3> DEFINE a == list[j - 1].time - node.time
      <3>1. list[j - 1] \in Timer /\ j - 1 = curr
        BY <1>1, <1>3, <2>3
      <3>2. a \in Int
        BY <1>2, <3>1 DEF Timer
      <3>3. ~(j < curr) /\ j # curr
        BY <1>1, <2>3
      <3>4. Linked[j] = [list[j - 1] EXCEPT !.time = a]
        BY <2>3, <3>1, <3>3 DEF Linked
      <3> HIDE DEF a
      <3>5. /\ Linked[j] \in Timer
            /\ Linked[j].due = list[j - 1].due
            /\ Linked[j].left = list[j - 1].left
            /\ Linked[j].seq = list[j - 1].seq
            /\ Linked[j].time = a
        BY <3>1, <3>2, <3>4 DEF Timer
      <3> QED
        BY <2>3, <3>3, <3>5 DEF a
    <2>4. CASE j > curr + 1
      <3>1. ~(j < curr) /\ j # curr /\ j # curr + 1 /\ j - 1 \in 1 .. Len(list)
        BY <1>1, <2>4
      <3>2. Linked[j] = list[j - 1]
        BY <3>1 DEF Linked
      <3> QED
        BY <1>3, <3>1, <3>2
    <2> QED
      BY <1>1, <2>1, <2>2, <2>3, <2>4
  <1>5. Linked \in Seq(Timer) /\ DOMAIN Linked = 1 .. Len(list) + 1
    <2>1. Linked = [j \in 1 .. Len(list) + 1 |-> Linked[j]]
      BY DEF Linked
    <2>2. Linked \in [1 .. Len(list) + 1 -> Timer]
      BY <1>4, <2>1
    <2> QED
      BY <1>1, <2>2, SeqDef
  <1>6. Len(Linked) = Len(list) + 1
    BY <1>1, <1>5
  <1> QED
    BY <1>4, <1>5, <1>6

(* The fields of a timer and of a request. *)
LEMMA TimerFields ==
  ASSUME list \in Seq(Timer), NEW i \in DOMAIN list
  PROVE  /\ list[i].time \in Int /\ list[i].due \in Int
         /\ list[i].left \in Nat /\ list[i].seq \in Nat
  <1>1. list[i] \in Timer
    OBVIOUS
  <1> QED
    BY <1>1 DEF Timer

(* See TimerFields. *)
LEMMA RequestFields ==
  ASSUME requests \in Seq(Request), NEW i \in DOMAIN requests
  PROVE  /\ requests[i].type \in {0, 1} /\ requests[i].seq \in Nat
         /\ requests[i].time \in Nat /\ requests[i].left \in Nat
  <1>1. requests[i] \in Request
    OBVIOUS
  <1> QED
    BY <1>1 DEF Request

-------------------------------------------------------------------------------
(* The loop starts with no timers and no requests. *)
LEMMA InitHolds == Init => TypeOK /\ IInv
  <1> SUFFICES ASSUME Init PROVE TypeOK /\ IInv
    OBVIOUS
  <1>1. TypeOK
    <2>1. list \in Seq(Timer) /\ requests \in Seq(Request) /\ timeouts \in Seq(Nat)
      BY DEF Init
    <2>2. node \in [time : Nat, seq : Nat, due : Nat, left : Nat]
      BY DEF Init, NoTimer
    <2> QED
      BY <2>1, <2>2 DEF Init, TypeOK
  <1>2. IInv
    BY DEF Init, IInv, DeltasAgree, NodeAgrees, LeftIsCounted, RequestsHold, HeadRuns
  <1> QED
    BY <1>1, <1>2

(* Time only lowers what is left of a request's time. *)
LEMMA RequestsHoldLater ==
  ASSUME requests \in Seq(Request), RequestsHold, NEW e \in Nat,
         requests' = RequestsLater(e)
  PROVE  RequestsHold' /\ requests' \in Seq(Request)
  <1>1. /\ RequestsLater(e) \in Seq(Request)
        /\ DOMAIN RequestsLater(e) = DOMAIN requests
        /\ \A i \in DOMAIN requests :
             /\ RequestsLater(e)[i].type = requests[i].type
             /\ RequestsLater(e)[i].seq = requests[i].seq
             /\ RequestsLater(e)[i].time = requests[i].time
             /\ RequestsLater(e)[i].left = Less(requests[i].left, e)
    BY RequestsLaterIs
  <1>2. ASSUME NEW i \in DOMAIN requests', requests'[i].type = 0
        PROVE  /\ requests'[i].seq \in SeqNos /\ requests'[i].time \in Delays
               /\ requests'[i].left <= requests'[i].time
    <2>1. i \in DOMAIN requests /\ requests[i].type = 0
      BY <1>1, <1>2
    <2>2. requests[i].left \in Nat /\ requests[i].time \in Nat
      BY <2>1, RequestFields
    <2>3. Less(requests[i].left, e) \in Nat /\ Less(requests[i].left, e) <= requests[i].left
      BY <2>2, LessIs
    <2>4. /\ requests[i].seq \in SeqNos /\ requests[i].time \in Delays
          /\ requests[i].left <= requests[i].time
      BY <2>1 DEF RequestsHold
    <2> QED
      BY <1>1, <2>1, <2>2, <2>3, <2>4
  <1> QED
    BY <1>1, <1>2 DEF RequestsHold

(* The time of one select comes off the first timer, and with it off all. *)
LEMMA SelectKeeps ==
  ASSUME TypeOK, IInv, NEW e \in Nat, Select(e)
  PROVE  TypeOK' /\ IInv'
  <1>1. /\ list \in Seq(Timer) /\ list' = CountedTime(e)
        /\ pc = "select" /\ pc' = "expire" /\ UNCHANGED <<node, curr, timeouts>>
    BY DEF TypeOK, Select
  <1>2. /\ list' \in Seq(Timer) /\ DOMAIN list' = DOMAIN list
        /\ \A i \in DOMAIN list :
             /\ list'[i].time = (IF i = 1 THEN list[i].time - e ELSE list[i].time)
             /\ list'[i].due = list[i].due - e
             /\ list'[i].left = Less(list[i].left, e)
             /\ list'[i].seq = list[i].seq
    BY <1>1, CountedTimeIs
  <1>3. RequestsHold' /\ requests' \in Seq(Request)
    BY RequestsHoldLater DEF TypeOK, IInv, Select
  <1>4. TypeOK'
    BY <1>1, <1>2, <1>3 DEF TypeOK, Select
  <1>5. ASSUME NEW i \in DOMAIN list
        PROVE  list[i].time \in Int /\ list[i].due \in Int /\ list[i].left \in Nat
    BY <1>1, TimerFields
  <1>6. DeltasAgree'
    <2> SUFFICES ASSUME NEW i \in DOMAIN list
                 PROVE  IF i = 1 THEN list'[1].time = list'[1].due
                        ELSE /\ list'[i].time = list'[i].due - list'[i - 1].due
                             /\ list'[i].time >= 0
      BY <1>2 DEF DeltasAgree
    <2>1. CASE i = 1
      BY <1>2, <1>5, <2>1 DEF IInv, DeltasAgree
    <2>2. CASE i # 1
      <3>1. i - 1 \in DOMAIN list
        BY <1>1, <2>2
      <3>2. list[i].time = list[i].due - list[i - 1].due /\ list[i].time >= 0
        BY <2>2 DEF IInv, DeltasAgree
      <3>3. list[i].due \in Int /\ list[i - 1].due \in Int
        BY <1>5, <3>1
      <3>4. /\ list'[i].time = list[i].time
            /\ list'[i].due = list[i].due - e
            /\ list'[i - 1].due = list[i - 1].due - e
        BY <1>2, <2>2, <3>1
      <3> QED
        BY <2>2, <3>2, <3>3, <3>4
    <2> QED
      BY <2>1, <2>2
  <1>7. LeftIsCounted'
    <2> SUFFICES ASSUME NEW i \in DOMAIN list, list'[i].left > 0
                 PROVE  list'[i].left <= list'[i].due
      BY <1>2 DEF LeftIsCounted
    <2>1. list[i].left > 0 /\ list'[i].left = list[i].left - e
      BY <1>2, <1>5 DEF Less
    <2>2. list[i].left <= list[i].due
      BY <2>1 DEF IInv, LeftIsCounted
    <2> QED
      BY <1>2, <1>5, <2>1, <2>2
  <1>8. NodeAgrees' /\ HeadRuns'
    BY <1>1 DEF NodeAgrees, HeadRuns
  <1> QED
    BY <1>3, <1>4, <1>6, <1>7, <1>8 DEF IInv

(* Time elsewhere changes nothing the code keeps. *)
LEMMA BusyKeeps ==
  ASSUME TypeOK, IInv, NEW e \in Nat, Busy(e)
  PROVE  TypeOK' /\ IInv'
  <1>1. /\ list \in Seq(Timer) /\ list' = UncountedTime(e)
        /\ UNCHANGED <<pc, ready, curr, timeouts>>
    BY DEF TypeOK, Busy
  <1>2. /\ list' \in Seq(Timer) /\ DOMAIN list' = DOMAIN list
        /\ \A i \in DOMAIN list :
             /\ list'[i].time = list[i].time
             /\ list'[i].due = list[i].due
             /\ list'[i].left = Less(list[i].left, e)
             /\ list'[i].seq = list[i].seq
    BY <1>1, UncountedTimeIs
  <1>3. RequestsHold' /\ requests' \in Seq(Request)
    BY RequestsHoldLater DEF TypeOK, IInv, Busy
  <1>4. /\ node \in [time : Nat, seq : Nat, due : Nat, left : Nat]
        /\ node' \in [time : Nat, seq : Nat, due : Nat, left : Nat]
        /\ node'.time = node.time /\ node'.seq = node.seq /\ node'.due = node.due
        /\ node'.left <= node.left
    <2>1. node \in [time : Nat, seq : Nat, due : Nat, left : Nat]
      BY DEF TypeOK
    <2>2. Less(node.left, e) \in Nat /\ Less(node.left, e) <= node.left
      BY <2>1, LessIs
    <2>3. node' = [node EXCEPT !.left = Less(node.left, e)]
      BY <2>1 DEF Busy
    <2> QED
      BY <2>1, <2>2, <2>3
  <1>5. TypeOK'
    BY <1>1, <1>2, <1>3, <1>4 DEF TypeOK
  <1>6. ASSUME NEW i \in DOMAIN list
        PROVE  list[i].time \in Int /\ list[i].due \in Int /\ list[i].left \in Nat
    BY <1>1, TimerFields
  <1>7. DeltasAgree'
    <2>1. \A i \in DOMAIN list : i = 1 \/ i - 1 \in DOMAIN list
      BY <1>1
    <2> QED
      BY <1>2, <2>1 DEF IInv, DeltasAgree
  <1>8. LeftIsCounted'
    <2> SUFFICES ASSUME NEW i \in DOMAIN list, list'[i].left > 0
                 PROVE  list'[i].left <= list'[i].due
      BY <1>2 DEF LeftIsCounted
    <2>1. list[i].left > 0 /\ list'[i].left <= list[i].left
      BY <1>2, <1>6 DEF Less
    <2>2. list[i].left <= list[i].due
      BY <2>1 DEF IInv, LeftIsCounted
    <2>3. list'[i].left \in Nat
      BY <1>2, <1>6, LessIs
    <2> QED
      BY <1>2, <1>6, <2>1, <2>2, <2>3
  <1>9. NodeAgrees'
    <2> SUFFICES ASSUME pc = "walk"
                 PROVE  /\ curr \in 1 .. Len(list') + 1
                        /\ node'.seq \in SeqNos /\ node'.due \in Delays
                        /\ node'.left <= node'.due
                        /\ node'.time = node'.due - DueBefore(curr)'
      BY <1>1 DEF NodeAgrees, DueBefore
    <2>1. Len(list') = Len(list) /\ Len(list) \in Nat
      BY <1>1, <1>2
    <2>2. NodeAgrees
      BY DEF IInv
    <2>3. DueBefore(curr)' = DueBefore(curr)
      BY <1>1, <1>2, <2>2 DEF DueBefore, NodeAgrees
    <2> QED
      BY <1>4, <2>1, <2>2, <2>3 DEF NodeAgrees
  <1>10. HeadRuns'
    <2>1. list' # <<>> => list # <<>> /\ 1 \in DOMAIN list
      BY <1>1, <1>2
    <2> QED
      BY <1>1, <1>2, <2>1 DEF IInv, HeadRuns
  <1> QED
    BY <1>3, <1>5, <1>7, <1>8, <1>9, <1>10 DEF IInv

(* Whichever timer is removed, the times of the others still add up. *)
LEMMA RemovedKeeps ==
  ASSUME TypeOK, DeltasAgree, LeftIsCounted, NEW i \in DOMAIN list, list' = Removed(i)
  PROVE  /\ list' \in Seq(Timer) /\ DeltasAgree' /\ LeftIsCounted'
         /\ list[1].time > 0 /\ list' # <<>> => list'[1].time > 0
  <1>1. /\ list' \in Seq(Timer)
        /\ DOMAIN list' = 1 .. Len(list) - 1
        /\ Len(list') = Len(list) - 1
        /\ \A j \in 1 .. Len(list) - 1 :
             /\ list'[j].due = (IF j < i THEN list[j].due ELSE list[j + 1].due)
             /\ list'[j].left = (IF j < i THEN list[j].left ELSE list[j + 1].left)
             /\ list'[j].seq = (IF j < i THEN list[j].seq ELSE list[j + 1].seq)
             /\ list'[j].time =
                  (IF j < i THEN list[j].time
                   ELSE IF j = i THEN list[j + 1].time + list[i].time
                   ELSE list[j + 1].time)
    BY RemovedIs
  <1>2. list \in Seq(Timer) /\ DOMAIN list = 1 .. Len(list) /\ Len(list) \in Nat
    BY DEF TypeOK
  <1>3. ASSUME NEW j \in 1 .. Len(list)
        PROVE  /\ list[j].time \in Int /\ list[j].due \in Int /\ list[j].left \in Nat
               /\ j = 1 => list[j].time = list[j].due
               /\ j # 1 => /\ list[j].time = list[j].due - list[j - 1].due
                           /\ list[j].time >= 0
    BY <1>2, TimerFields DEF DeltasAgree
  <1>4. ASSUME NEW j \in 1 .. Len(list) - 1
        PROVE  IF j = 1 THEN list'[1].time = list'[1].due
               ELSE /\ list'[j].time = list'[j].due - list'[j - 1].due
                    /\ list'[j].time >= 0
    <2>1. j \in 1 .. Len(list) /\ j + 1 \in 1 .. Len(list) /\ j + 1 # 1 /\ j + 1 - 1 = j
      BY <1>2
    <2>2. CASE j < i
      <3>1. j # 1 => /\ j - 1 < i /\ j - 1 \in 1 .. Len(list) - 1
        BY <1>2, <2>2
      <3> QED
        BY <1>1, <1>3, <2>1, <2>2, <3>1
    <2>3. CASE j = i
      <3>1. /\ list'[j].time = list[j + 1].time + list[j].time
            /\ list'[j].due = list[j + 1].due
        BY <1>1, <2>3
      <3>2. list[j + 1].time = list[j + 1].due - list[j].due /\ list[j + 1].time >= 0
        BY <1>3, <2>1
      <3>3. j # 1 => /\ j - 1 < i /\ j - 1 \in 1 .. Len(list) - 1
        BY <1>2, <2>3
      <3>4. j # 1 => list'[j - 1].due = list[j - 1].due
        BY <1>1, <3>3
      <3>5. /\ list[j].time \in Int /\ list[j].due \in Int
            /\ list[j + 1].time \in Int /\ list[j + 1].due \in Int
        BY <1>3, <2>1
      <3>6. j # 1 => list[j - 1].due \in Int
        BY <1>2, <1>3, <3>3
      <3>7. CASE j = 1
        BY <1>3, <2>1, <3>1, <3>2, <3>5, <3>7
      <3>8. CASE j # 1
        <4>1. list[j].time = list[j].due - list[j - 1].due /\ list[j].time >= 0
          BY <1>3, <2>1, <3>8
        <4>2. list'[j].time
                = (list[j + 1].due - list[j].due) + (list[j].due - list[j - 1].due)
          BY <3>1, <3>2, <4>1
        <4>3. ASSUME NEW a \in Int, NEW b \in Int, NEW c \in Int
              PROVE  (a - b) + (b - c) = a - c
          OBVIOUS
        <4>4. list'[j].time = list'[j].due - list'[j - 1].due
          BY <3>1, <3>4, <3>5, <3>6, <3>8, <4>2, <4>3
        <4>5. list'[j].time >= 0
          BY <3>1, <3>2, <3>5, <4>1
        <4> QED
          BY <3>8, <4>4, <4>5
      <3> QED
        BY <3>7, <3>8
    <2>4. CASE j > i
      <3>1. j # 1 /\ ~(j < i) /\ j # i /\ ~(j - 1 < i) /\ j - 1 + 1 = j
            /\ j - 1 \in 1 .. Len(list) - 1
        BY <1>2, <2>4
      <3>2. /\ list'[j].time = list[j + 1].time /\ list'[j].due = list[j + 1].due
            /\ list'[j - 1].due = list[j].due
        BY <1>1, <3>1
      <3>3. list[j + 1].time = list[j + 1].due - list[j].due /\ list[j + 1].time >= 0
        BY <1>3, <2>1
      <3> QED
        BY <3>1, <3>2, <3>3
    <2> QED
      BY <1>2, <2>2, <2>3, <2>4
  <1>5. DeltasAgree'
    BY <1>1, <1>4 DEF DeltasAgree
  <1>6. LeftIsCounted'
    <2> SUFFICES ASSUME NEW j \in 1 .. Len(list) - 1, list'[j].left > 0
                 PROVE  list'[j].left <= list'[j].due
      BY <1>1 DEF LeftIsCounted
    <2>1. j \in DOMAIN list /\ j + 1 \in DOMAIN list
      BY <1>2
    <2> QED
      BY <1>1, <2>1 DEF LeftIsCounted
  <1>7. ASSUME list[1].time > 0, list' # <<>>
        PROVE  list'[1].time > 0
    <2>1. 1 \in 1 .. Len(list) - 1
      BY <1>1, <1>2, <1>7
    <2>2. 2 \in 1 .. Len(list) /\ 1 + 1 = 2
      BY <1>2, <2>1
    <2>3. list[2].time >= 0 /\ list[2].time \in Int
      BY <1>3, <2>2
    <2>4. list'[1].time = (IF 1 < i THEN list[1].time
                           ELSE IF 1 = i THEN list[2].time + list[i].time ELSE list[2].time)
      BY <1>1, <2>1, <2>2
    <2>5. list[1].time \in Int
      BY <1>2, <1>3, <2>1
    <2> QED
      BY <1>2, <1>7, <2>3, <2>4, <2>5
  <1> QED
    BY <1>1, <1>5, <1>6, <1>7

(* The first timer rings and goes. *)
LEMMA ExpireKeeps ==
  ASSUME TypeOK, IInv, Expire
  PROVE  TypeOK' /\ IInv'
  <1>1. /\ list \in Seq(Timer) /\ list # <<>> /\ 1 \in DOMAIN list /\ list' = Removed(1)
        /\ pc = "expire" /\ UNCHANGED <<pc, ready, node, curr, requests>>
        /\ timeouts' = Append(timeouts, list[1].seq)
    BY DEF TypeOK, Expire, Expired
  <1>2. list' \in Seq(Timer) /\ DeltasAgree' /\ LeftIsCounted'
    BY <1>1, RemovedKeeps DEF IInv
  <1>3. timeouts' \in Seq(Nat)
    BY <1>1, TimerFields DEF TypeOK
  <1>4. TypeOK'
    BY <1>1, <1>2, <1>3 DEF TypeOK
  <1>5. NodeAgrees' /\ HeadRuns'
    BY <1>1 DEF NodeAgrees, HeadRuns
  <1>6. RequestsHold'
    BY <1>1 DEF IInv, RequestsHold
  <1> QED
    BY <1>2, <1>4, <1>5, <1>6 DEF IInv

(* When the expiry loop ends the first timer still runs. *)
LEMMA ExpiryEndsKeeps ==
  ASSUME TypeOK, IInv, ExpiryEnds
  PROVE  TypeOK' /\ IInv'
  <1>1. /\ UNCHANGED <<list, ready, node, curr, requests, timeouts>>
        /\ pc = "expire" /\ pc' \in {"request", "select"}
        /\ ~Expired
    BY DEF ExpiryEnds
  <1>2. TypeOK'
    BY <1>1 DEF TypeOK
  <1>3. DeltasAgree' /\ LeftIsCounted' /\ RequestsHold'
    BY <1>1 DEF IInv, DeltasAgree, LeftIsCounted, RequestsHold
  <1>4. NodeAgrees'
    BY <1>1 DEF NodeAgrees
  <1>5. HeadRuns'
    <2>1. list # <<>> => list[1].time \in Int
      BY TimerFields DEF TypeOK
    <2> QED
      BY <1>1, <2>1 DEF HeadRuns, Expired
  <1> QED
    BY <1>2, <1>3, <1>4, <1>5 DEF IInv

(* What remains of the requests when one is taken. *)
LEMMA RequestTaken ==
  ASSUME requests \in Seq(Request), RequestsHold, requests # <<>>,
         requests' = Tail(requests)
  PROVE  requests' \in Seq(Request) /\ RequestsHold'
  <1>1. /\ requests' \in Seq(Request)
        /\ \A i \in DOMAIN requests' : i + 1 \in DOMAIN requests /\ requests'[i] = requests[i + 1]
    OBVIOUS
  <1> QED
    BY <1>1 DEF RequestsHold

(* The node starts at the head of the list with the time of the request. *)
LEMMA TakeAddKeeps ==
  ASSUME TypeOK, IInv, TakeAdd
  PROVE  TypeOK' /\ IInv'
  <1>1. /\ requests \in Seq(Request) /\ requests # <<>> /\ 1 \in DOMAIN requests
        /\ requests[1].type = 0 /\ requests' = Tail(requests)
        /\ pc = "request" /\ pc' = "walk" /\ curr' = 1
        /\ UNCHANGED <<list, ready, timeouts>>
        /\ node' = [time |-> requests[1].time, seq |-> requests[1].seq,
                    due |-> requests[1].time, left |-> requests[1].left]
    BY DEF TypeOK, TakeAdd
  <1>2. requests' \in Seq(Request) /\ RequestsHold'
    BY <1>1, RequestTaken DEF IInv
  <1>3. /\ requests[1].seq \in SeqNos /\ requests[1].time \in Delays
        /\ requests[1].left <= requests[1].time
    BY <1>1 DEF IInv, RequestsHold
  <1>4. /\ requests[1].seq \in Nat /\ requests[1].time \in Nat
        /\ requests[1].left \in Nat
    BY <1>1, RequestFields
  <1>5. TypeOK'
    BY <1>1, <1>2, <1>4 DEF TypeOK
  <1>6. NodeAgrees'
    <2>1. 1 \in 1 .. Len(list) + 1
      BY DEF TypeOK
    <2>2. DueBefore(curr)' = 0
      BY <1>1 DEF DueBefore
    <2> QED
      BY <1>1, <1>3, <1>4, <2>1, <2>2 DEF NodeAgrees
  <1>7. DeltasAgree' /\ LeftIsCounted' /\ HeadRuns'
    BY <1>1 DEF IInv, DeltasAgree, LeftIsCounted, HeadRuns
  <1> QED
    BY <1>2, <1>5, <1>6, <1>7 DEF IInv

(* A step along the list. *)
LEMMA WalkKeeps ==
  ASSUME TypeOK, IInv, Walk
  PROVE  TypeOK' /\ IInv'
  <1>1. /\ list \in Seq(Timer) /\ Len(list) \in Nat /\ curr \in 1 .. Len(list)
        /\ node \in [time : Nat, seq : Nat, due : Nat, left : Nat]
        /\ node.time > list[curr].time
        /\ pc = "walk" /\ curr' = curr + 1
        /\ UNCHANGED <<list, pc, ready, requests, timeouts>>
    BY DEF TypeOK, Walk, WalkOn, IInv, NodeAgrees
  <1>2. /\ list[curr].time \in Int /\ list[curr].due \in Int
    BY <1>1, TimerFields
  <1>3. /\ node' \in [time : Nat, seq : Nat, due : Nat, left : Nat]
        /\ node'.time = node.time - list[curr].time
        /\ node'.seq = node.seq /\ node'.due = node.due /\ node'.left = node.left
    <2>1. node' = [node EXCEPT !.time = node.time - list[curr].time]
      BY <1>1 DEF Walk
    <2>2. node.time - list[curr].time \in Nat
      BY <1>1, <1>2
    <2> QED
      BY <1>1, <2>1, <2>2
  <1>4. TypeOK'
    BY <1>1, <1>3 DEF TypeOK
  <1>5. NodeAgrees'
    <2>1. /\ node.seq \in SeqNos /\ node.due \in Delays /\ node.left <= node.due
          /\ node.time = node.due - DueBefore(curr)
      BY <1>1 DEF IInv, NodeAgrees
    <2>2. DueBefore(curr)' = list[curr].due
      BY <1>1 DEF DueBefore
    <2>3. list[curr].time = list[curr].due - DueBefore(curr)
      <3>1. CASE curr = 1
        BY <1>1, <1>2, <3>1 DEF IInv, DeltasAgree, DueBefore
      <3>2. CASE curr # 1
        BY <1>1, <3>2 DEF IInv, DeltasAgree, DueBefore
      <3> QED
        BY <3>1, <3>2
    <2>4. DueBefore(curr) \in Int
      <3>1. curr # 1 => curr - 1 \in DOMAIN list
        BY <1>1
      <3> QED
        BY <1>1, <3>1, TimerFields DEF DueBefore
    <2>5. node.due \in Nat
      BY <1>1
    <2>6. node'.time = node'.due - DueBefore(curr)'
      BY <1>2, <1>3, <2>1, <2>2, <2>3, <2>4, <2>5
    <2> QED
      BY <1>1, <1>3, <2>1, <2>6 DEF NodeAgrees
  <1>6. DeltasAgree' /\ LeftIsCounted' /\ HeadRuns' /\ RequestsHold'
    BY <1>1 DEF IInv, DeltasAgree, LeftIsCounted, HeadRuns, RequestsHold
  <1> QED
    BY <1>4, <1>5, <1>6 DEF IInv

(* DeltasAgree in terms of DueBefore. *)
LEMMA DeltaIs ==
  ASSUME list \in Seq(Timer), DeltasAgree, NEW i \in DOMAIN list
  PROVE  /\ list[i].time = list[i].due - DueBefore(i)
         /\ list[i].time \in Int /\ list[i].due \in Int /\ DueBefore(i) \in Int
  <1>1. list[i].time \in Int /\ list[i].due \in Int
    BY TimerFields
  <1>2. CASE i = 1
    BY <1>1, <1>2 DEF DeltasAgree, DueBefore
  <1>3. CASE i # 1
    <2>1. i - 1 \in DOMAIN list
      BY <1>3
    <2> QED
      BY <1>1, <1>3, <2>1, TimerFields DEF DeltasAgree, DueBefore
  <1> QED
    BY <1>2, <1>3

(* Linked behind the last timer that is earlier, the node's time is the
   difference to that timer, and the next one's that to the node. *)
LEMMA LinkKeeps ==
  ASSUME TypeOK, IInv, Link
  PROVE  TypeOK' /\ IInv'
  <1>1. /\ list \in Seq(Timer) /\ DOMAIN list = 1 .. Len(list) /\ Len(list) \in Nat
        /\ curr \in 1 .. Len(list) + 1 /\ list' = Linked
        /\ node \in [time : Nat, seq : Nat, due : Nat, left : Nat]
        /\ pc = "walk" /\ pc' = "select" /\ node' = NoTimer /\ curr' = 0
        /\ UNCHANGED <<ready, requests, timeouts>>
    BY DEF TypeOK, Link, IInv, NodeAgrees
  <1>2. /\ node.due \in Delays /\ node.left <= node.due
        /\ node.time = node.due - DueBefore(curr)
    BY <1>1 DEF IInv, NodeAgrees
  <1>3. curr \in DOMAIN list => node.time <= list[curr].time
    <2>1. curr \in DOMAIN list => list[curr].time \in Int
      BY <1>1, TimerFields
    <2> QED
      BY <1>1, <2>1 DEF Link, WalkOn
  <1>4. /\ list' \in Seq(Timer)
        /\ DOMAIN list' = 1 .. Len(list) + 1
        /\ Len(list') = Len(list) + 1
        /\ \A j \in 1 .. Len(list) + 1 :
             /\ list'[j].due = (IF j < curr THEN list[j].due
                                ELSE IF j = curr THEN node.due ELSE list[j - 1].due)
             /\ list'[j].left = (IF j < curr THEN list[j].left
                                 ELSE IF j = curr THEN node.left ELSE list[j - 1].left)
             /\ list'[j].seq = (IF j < curr THEN list[j].seq
                                ELSE IF j = curr THEN node.seq ELSE list[j - 1].seq)
             /\ list'[j].time =
                  (IF j < curr THEN list[j].time
                   ELSE IF j = curr THEN node.time
                   ELSE IF j = curr + 1 THEN list[j - 1].time - node.time
                   ELSE list[j - 1].time)
    BY <1>1, LinkedIs
  <1>5. TypeOK'
    <2>1. node' \in [time : Nat, seq : Nat, due : Nat, left : Nat]
      BY <1>1 DEF NoTimer
    <2> QED
      BY <1>1, <1>4, <2>1 DEF TypeOK
  <1>6. ASSUME NEW j \in 1 .. Len(list)
        PROVE  /\ list[j].time \in Int /\ list[j].due \in Int /\ list[j].left \in Nat
               /\ j = 1 => list[j].time = list[j].due
               /\ j # 1 => /\ list[j].time = list[j].due - list[j - 1].due
                           /\ list[j].time >= 0
    BY <1>1, TimerFields DEF IInv, DeltasAgree
  <1>7. DeltasAgree'
    <2> SUFFICES ASSUME NEW j \in 1 .. Len(list) + 1
                 PROVE  IF j = 1 THEN list'[1].time = list'[1].due
                        ELSE /\ list'[j].time = list'[j].due - list'[j - 1].due
                             /\ list'[j].time >= 0
      BY <1>4 DEF DeltasAgree
    <2>1. CASE j < curr
      <3>1. /\ j \in 1 .. Len(list)
            /\ j # 1 => /\ j - 1 < curr /\ j - 1 \in 1 .. Len(list) + 1
        BY <1>1, <2>1
      <3> QED
        BY <1>4, <1>6, <2>1, <3>1
    <2>2. CASE j = curr
      <3>1. j # 1 => /\ j - 1 < curr /\ j - 1 \in 1 .. Len(list) + 1
        BY <1>1, <2>2
      <3>2. list'[j].time = node.time /\ list'[j].due = node.due
        BY <1>4, <2>2
      <3>3. j # 1 => list'[j - 1].due = DueBefore(curr)
        BY <1>4, <2>2, <3>1 DEF DueBefore
      <3>4. j = 1 => DueBefore(curr) = 0
        BY <2>2 DEF DueBefore
      <3> QED
        BY <1>1, <1>2, <2>2, <3>2, <3>3, <3>4
    <2>3. CASE j = curr + 1
      <3>1. /\ j - 1 = curr /\ curr \in DOMAIN list /\ j # 1 /\ ~(j < curr) /\ j # curr
            /\ curr \in 1 .. Len(list) + 1 /\ ~(curr < curr)
        BY <1>1, <2>3
      <3>2. /\ list'[j].time = list[curr].time - node.time
            /\ list'[j].due = list[curr].due
            /\ list'[j - 1].due = node.due
        BY <1>4, <2>3, <3>1
      <3>3. /\ list[curr].time = list[curr].due - DueBefore(curr)
            /\ list[curr].time \in Int /\ list[curr].due \in Int /\ DueBefore(curr) \in Int
        BY <1>1, <3>1, DeltaIs DEF IInv
      <3>4. node.due \in Nat /\ node.time \in Nat
        BY <1>1
      <3> QED
        BY <1>2, <1>3, <3>1, <3>2, <3>3, <3>4
    <2>4. CASE j > curr + 1
      <3>1. /\ j # 1 /\ j - 1 # 1 /\ ~(j < curr) /\ j # curr /\ j # curr + 1
            /\ ~(j - 1 < curr) /\ j - 1 # curr
            /\ j - 1 \in 1 .. Len(list)
            /\ j - 1 \in 1 .. Len(list) + 1
        BY <1>1, <2>4
      <3>2. /\ list'[j].time = list[j - 1].time /\ list'[j].due = list[j - 1].due
            /\ list'[j - 1].due = list[j - 1 - 1].due
        BY <1>4, <3>1
      <3> QED
        BY <1>6, <3>1, <3>2
    <2> QED
      BY <1>1, <2>1, <2>2, <2>3, <2>4
  <1>8. LeftIsCounted'
    <2> SUFFICES ASSUME NEW j \in 1 .. Len(list) + 1, list'[j].left > 0
                 PROVE  list'[j].left <= list'[j].due
      BY <1>4 DEF LeftIsCounted
    <2>1. CASE j < curr
      <3>1. j \in DOMAIN list
        BY <1>1, <2>1
      <3> QED
        BY <1>4, <2>1, <3>1 DEF IInv, LeftIsCounted
    <2>2. CASE j = curr
      BY <1>2, <1>4, <2>2
    <2>3. CASE j > curr
      <3>1. j - 1 \in DOMAIN list /\ ~(j < curr) /\ j # curr
        BY <1>1, <2>3
      <3> QED
        BY <1>4, <3>1 DEF IInv, LeftIsCounted
    <2> QED
      BY <1>1, <2>1, <2>2, <2>3
  <1>9. HeadRuns'
    <2>1. 1 \in 1 .. Len(list) + 1
      BY <1>1
    <2>2. CASE curr = 1
      <3>1. node.time = node.due /\ node.due > 0
        BY <1>1, <1>2, <2>2, DelaysAssumption DEF DueBefore
      <3>2. list'[1].time = node.time
        BY <1>4, <2>1, <2>2
      <3> QED
        BY <3>1, <3>2 DEF HeadRuns
    <2>3. CASE curr # 1
      <3>1. 1 < curr /\ list # <<>>
        BY <1>1, <2>3
      <3>2. list'[1].time = list[1].time
        BY <1>4, <2>1, <3>1
      <3> QED
        BY <1>1, <3>1, <3>2 DEF IInv, HeadRuns
    <2> QED
      BY <2>2, <2>3
  <1>10. NodeAgrees' /\ RequestsHold'
    BY <1>1 DEF IInv, NodeAgrees, RequestsHold
  <1> QED
    BY <1>5, <1>7, <1>8, <1>9, <1>10 DEF IInv

(* A cancellation. *)
LEMMA TakeDeleteKeeps ==
  ASSUME TypeOK, IInv, TakeDelete
  PROVE  TypeOK' /\ IInv'
  <1>1. /\ list \in Seq(Timer) /\ requests \in Seq(Request) /\ requests # <<>>
        /\ requests' = Tail(requests)
        /\ pc = "request" /\ pc' = "select"
        /\ UNCHANGED <<ready, node, curr, timeouts>>
    BY DEF TypeOK, TakeDelete
  <1>2. requests' \in Seq(Request) /\ RequestsHold'
    BY <1>1, RequestTaken DEF IInv
  <1>3. list' \in Seq(Timer) /\ DeltasAgree' /\ LeftIsCounted' /\ HeadRuns'
    <2>1. CASE \E i \in First(requests[1].seq) : list' = Removed(i)
      <3>1. PICK i \in DOMAIN list : list' = Removed(i)
        BY <2>1 DEF First
      <3>2. list # <<>>
        BY <1>1, <3>1
      <3>3. list[1].time > 0
        BY <1>1, <3>2 DEF IInv, HeadRuns
      <3> QED
        BY <1>1, <3>1, <3>3, RemovedKeeps DEF IInv, HeadRuns
    <2>2. CASE UNCHANGED list
      BY <1>1, <2>2 DEF IInv, DeltasAgree, LeftIsCounted, HeadRuns
    <2> QED
      BY <2>1, <2>2 DEF TakeDelete
  <1>4. TypeOK'
    BY <1>1, <1>2, <1>3 DEF TypeOK
  <1>5. NodeAgrees'
    BY <1>1 DEF NodeAgrees
  <1> QED
    BY <1>2, <1>3, <1>4, <1>5 DEF IInv

(* The client daemon only touches the two sockets. *)
LEMMA DaemonKeeps ==
  ASSUME TypeOK, IInv, DaemonStep
  PROVE  TypeOK' /\ IInv'
  <1>1. UNCHANGED <<list, pc, ready, node, curr>>
    BY DEF DaemonStep, Start, Cancel, Read
  <1>2. requests \in Seq(Request) /\ timeouts \in Seq(Nat)
    BY DEF TypeOK
  <1>3. requests' \in Seq(Request) /\ timeouts' \in Seq(Nat) /\ RequestsHold'
    <2>1. ASSUME NEW r \in Request, requests' = Append(requests, r), UNCHANGED timeouts,
                 r.type = 0 => r.seq \in SeqNos /\ r.time \in Delays /\ r.left <= r.time
          PROVE  requests' \in Seq(Request) /\ timeouts' \in Seq(Nat) /\ RequestsHold'
      <3>1. /\ requests' \in Seq(Request)
            /\ DOMAIN requests' = 1 .. Len(requests) + 1 /\ DOMAIN requests = 1 .. Len(requests)
            /\ requests'[Len(requests) + 1] = r /\ Len(requests) \in Nat
            /\ \A i \in 1 .. Len(requests) : requests'[i] = requests[i]
        BY <1>2, <2>1
      <3>2. RequestsHold'
        <4> SUFFICES ASSUME NEW i \in 1 .. Len(requests) + 1, requests'[i].type = 0
                     PROVE  /\ requests'[i].seq \in SeqNos /\ requests'[i].time \in Delays
                            /\ requests'[i].left <= requests'[i].time
          BY <3>1 DEF RequestsHold
        <4>1. CASE i \in 1 .. Len(requests)
          BY <3>1, <4>1 DEF IInv, RequestsHold
        <4>2. CASE i = Len(requests) + 1
          BY <2>1, <3>1, <4>2
        <4> QED
          BY <3>1, <4>1, <4>2
      <3> QED
        BY <1>2, <2>1, <3>1, <3>2
    <2>2. ASSUME NEW seq \in SeqNos, NEW t \in Delays, Start(seq, t)
          PROVE  requests' \in Seq(Request) /\ timeouts' \in Seq(Nat) /\ RequestsHold'
      <3> DEFINE r == [type |-> 0, seq |-> seq, time |-> t, left |-> t]
      <3>1. seq \in Nat /\ t \in Nat
        BY SeqNosAssumption, DelaysAssumption
      <3>2. r \in Request /\ r.seq \in SeqNos /\ r.time \in Delays /\ r.left <= r.time
        BY <3>1 DEF Request
      <3>3. requests' = Append(requests, r) /\ UNCHANGED timeouts
        BY <2>2 DEF Start
      <3> HIDE DEF r
      <3> QED
        BY <2>1, <3>2, <3>3
    <2>3. ASSUME NEW seq \in SeqNos, Cancel(seq)
          PROVE  requests' \in Seq(Request) /\ timeouts' \in Seq(Nat) /\ RequestsHold'
      <3> DEFINE r == [type |-> 1, seq |-> seq, time |-> 0, left |-> 0]
      <3>1. r \in Request /\ r.type # 0
        BY SeqNosAssumption DEF Request
      <3>2. requests' = Append(requests, r) /\ UNCHANGED timeouts
        BY <2>3 DEF Cancel
      <3> HIDE DEF r
      <3> QED
        BY <2>1, <3>1, <3>2
    <2>4. CASE Read
      BY <1>2, <2>4 DEF Read, IInv, RequestsHold
    <2> QED
      BY <2>2, <2>3, <2>4 DEF DaemonStep
  <1>4. TypeOK'
    BY <1>1, <1>3 DEF TypeOK
  <1>5. DeltasAgree' /\ NodeAgrees' /\ LeftIsCounted' /\ HeadRuns'
    <2>1. Len(list') = Len(list) /\ DueBefore(curr)' = DueBefore(curr)
      BY <1>1 DEF DueBefore
    <2> QED
      BY <1>1, <2>1 DEF IInv, DeltasAgree, NodeAgrees, LeftIsCounted, HeadRuns
  <1> QED
    BY <1>3, <1>4, <1>5 DEF IInv

-------------------------------------------------------------------------------
(* Every step of the timer, of the clock and of the daemon. *)
LEMMA StepKeeps == TypeOK /\ IInv /\ [Next]_vars => TypeOK' /\ IInv'
  <1> SUFFICES ASSUME TypeOK, IInv, [Next]_vars
               PROVE  TypeOK' /\ IInv'
    OBVIOUS
  <1>1. ASSUME NEW e \in 0 .. MaxPass, Select(e) \/ Busy(e)
        PROVE  TypeOK' /\ IInv'
    BY <1>1, MaxPassAssumption, SelectKeeps, BusyKeeps
  <1>2. CASE HandleStep
    BY <1>2, ExpireKeeps, ExpiryEndsKeeps, TakeAddKeeps, WalkKeeps, LinkKeeps,
       TakeDeleteKeeps DEF HandleStep
  <1>3. CASE DaemonStep
    BY <1>3, DaemonKeeps
  <1>4. CASE UNCHANGED vars
    BY <1>4 DEF vars, TypeOK, IInv, DeltasAgree, NodeAgrees, DueBefore, LeftIsCounted,
                RequestsHold, HeadRuns
  <1> QED
    BY <1>1, <1>2, <1>3, <1>4 DEF Next

(* The types and the inductive invariant of timer.c's loop. *)
THEOREM Invariance == Spec => [](TypeOK /\ IInv)
  <1>1. Init => TypeOK /\ IInv
    BY InitHolds
  <1>2. (TypeOK /\ IInv) /\ [Next]_vars => (TypeOK /\ IInv)'
    BY StepKeeps
  <1> QED
    BY <1>1, <1>2, PTL DEF Spec

(* No step of timer.c leaves its types: the delay of a node never becomes
   negative on its way along the list, and the walk stays in the list. *)
THEOREM TypeCorrect == Spec => []TypeOK
  BY Invariance, PTL

(* insert_node and remove_node keep every timer's time. *)
THEOREM DeltasCorrect == Spec => []DeltasAgree
  <1>1. TypeOK /\ IInv => DeltasAgree
    BY DEF IInv
  <1> QED
    BY <1>1, Invariance, PTL

(* The expiry loop of timer.c never rings before the daemon's time is over. *)
THEOREM NotEarly == Spec => NeverEarly
  <1>1. ASSUME TypeOK, IInv, [Next]_vars
        PROVE  [Len(timeouts') > Len(timeouts) => list[1].left = 0]_vars
    <2>1. timeouts \in Seq(Nat) /\ list \in Seq(Timer)
      BY <1>1 DEF TypeOK
    <2>2. CASE Expire
      <3>1. 1 \in DOMAIN list /\ list[1].time <= 0
        BY <2>1, <2>2 DEF Expire, Expired
      <3>2. list[1].time = list[1].due
        BY <1>1, <3>1 DEF IInv, DeltasAgree
      <3>3. list[1].left > 0 => list[1].left <= list[1].due
        BY <1>1, <3>1 DEF IInv, LeftIsCounted
      <3>4. list[1].left \in Nat /\ list[1].due \in Int
        BY <2>1, <3>1, TimerFields
      <3> QED
        BY <3>1, <3>2, <3>3, <3>4
    <2>3. CASE ~Expire
      <3>1. timeouts' = timeouts \/ (timeouts # <<>> /\ timeouts' = Tail(timeouts))
        <4>1. ASSUME NEW e \in 0 .. MaxPass, Select(e) \/ Busy(e)
              PROVE  timeouts' = timeouts
          BY <4>1 DEF Select, Busy
        <4>2. CASE HandleStep
          BY <2>3, <4>2 DEF HandleStep, ExpiryEnds, TakeAdd, Walk, Link, TakeDelete
        <4>3. CASE DaemonStep
          BY <4>3 DEF DaemonStep, Start, Cancel, Read
        <4>4. CASE UNCHANGED vars
          BY <4>4 DEF vars
        <4> QED
          BY <1>1, <4>1, <4>2, <4>3, <4>4 DEF Next
      <3>2. ~(Len(timeouts') > Len(timeouts))
        BY <2>1, <3>1
      <3> QED
        BY <3>2
    <2> QED
      BY <2>2, <2>3
  <1>2. TypeOK /\ IInv /\ [Next]_vars => [Len(timeouts') > Len(timeouts) => list[1].left = 0]_vars
    BY <1>1
  <1> QED
    BY <1>2, Invariance, PTL DEF Spec, NeverEarly

-------------------------------------------------------------------------------
(* The alarms a list stands for. *)
LEMMA PendingIs ==
  ASSUME list \in Seq(Timer)
  PROVE  /\ Pending \in Seq([seq : Nat, due : Int])
         /\ DOMAIN Pending = DOMAIN list /\ Len(Pending) = Len(list)
         /\ \A i \in DOMAIN list : Pending[i] = [seq |-> list[i].seq, due |-> list[i].due]
         /\ \A i \in DOMAIN list : Pending[i].seq = list[i].seq /\ Pending[i].due = list[i].due
  <1>1. DOMAIN list = 1 .. Len(list) /\ Len(list) \in Nat
    OBVIOUS
  <1>2. \A i \in 1 .. Len(list) : Pending[i] = [seq |-> list[i].seq, due |-> list[i].due]
    BY <1>1 DEF Pending
  <1>3. ASSUME NEW i \in 1 .. Len(list)
        PROVE  [seq |-> list[i].seq, due |-> list[i].due] \in [seq : Nat, due : Int]
    BY <1>1, TimerFields
  <1>4. Pending = [i \in 1 .. Len(list) |-> Pending[i]]
    BY <1>1 DEF Pending
  <1>5. Pending \in [1 .. Len(list) -> [seq : Nat, due : Int]]
    BY <1>2, <1>3, <1>4
  <1>6. Pending \in Seq([seq : Nat, due : Int])
    <2> DEFINE S == [seq : Nat, due : Int]
    <2>1. Pending \in [1 .. Len(list) -> S]
      BY <1>5
    <2> HIDE DEF S
    <2>2. Pending \in Seq(S)
      BY <1>1, <2>1, SeqDef
    <2> QED
      BY <2>2 DEF S
  <1>7. Len(Pending) = Len(list)
    BY <1>1, <1>4, <1>6
  <1> QED
    BY <1>1, <1>2, <1>4, <1>6, <1>7

(* select passes time by no alarm that is due. *)
LEMMA SelectPasses ==
  ASSUME TypeOK, IInv, NEW e \in 0 .. MaxPass, Select(e)
  PROVE  Alarm!Pass
  <1>1. /\ list \in Seq(Timer) /\ list' = CountedTime(e) /\ e \in Nat
        /\ pc = "select" /\ UNCHANGED timeouts
    BY MaxPassAssumption DEF TypeOK, Select
  <1>2. /\ list' \in Seq(Timer) /\ DOMAIN list' = DOMAIN list
        /\ \A i \in DOMAIN list :
             list'[i].due = list[i].due - e /\ list'[i].seq = list[i].seq
    BY <1>1, CountedTimeIs
  <1>3. /\ DOMAIN Pending = DOMAIN list
        /\ \A i \in DOMAIN list : Pending[i] = [seq |-> list[i].seq, due |-> list[i].due]
    BY <1>1, PendingIs
  <1>4. Pending # <<>> => Pending[1].due > 0
    <2> SUFFICES ASSUME Pending # <<>>
                 PROVE  Pending[1].due > 0
      OBVIOUS
    <2>1. 1 \in DOMAIN list
      BY <1>1, <1>3, PendingIs
    <2>2. list[1].time > 0 /\ list[1].time = list[1].due
      BY <1>1, <2>1 DEF IInv, HeadRuns, DeltasAgree
    <2> QED
      BY <1>3, <2>1, <2>2
  <1>5. Pending' = [i \in DOMAIN Pending |-> [Pending[i] EXCEPT !.due = @ - e]]
    <2>1. Pending' = [i \in DOMAIN list |-> [seq |-> list'[i].seq, due |-> list'[i].due]]
      BY <1>2 DEF Pending
    <2>2. ASSUME NEW i \in DOMAIN list
          PROVE  [Pending[i] EXCEPT !.due = @ - e]
                   = [seq |-> list'[i].seq, due |-> list'[i].due]
      BY <1>2, <1>3
    <2> QED
      BY <1>3, <2>1, <2>2
  <1> QED
    BY <1>1, <1>4, <1>5 DEF Alarm!Pass

(* Removing a timer removes its alarm. *)
LEMMA RemovedIsWithout ==
  ASSUME TypeOK, NEW i \in DOMAIN list, list' = Removed(i)
  PROVE  Pending' = Alarm!Without(i)
  <1>1. list \in Seq(Timer) /\ DOMAIN list = 1 .. Len(list) /\ Len(list) \in Nat
    BY DEF TypeOK
  <1>2. /\ DOMAIN list' = 1 .. Len(list) - 1
        /\ \A j \in 1 .. Len(list) - 1 :
             /\ list'[j].due = (IF j < i THEN list[j].due ELSE list[j + 1].due)
             /\ list'[j].seq = (IF j < i THEN list[j].seq ELSE list[j + 1].seq)
    BY RemovedIs
  <1>3. /\ Len(Pending) = Len(list)
        /\ \A j \in 1 .. Len(list) : Pending[j] = [seq |-> list[j].seq, due |-> list[j].due]
    BY <1>1, PendingIs
  <1>4. Pending' = [j \in 1 .. Len(list) - 1 |-> [seq |-> list'[j].seq, due |-> list'[j].due]]
    BY <1>2 DEF Pending
  <1>5. ASSUME NEW j \in 1 .. Len(list) - 1
        PROVE  [seq |-> list'[j].seq, due |-> list'[j].due]
                 = (IF j < i THEN Pending[j] ELSE Pending[j + 1])
    <2>1. j \in 1 .. Len(list) /\ j + 1 \in 1 .. Len(list)
      BY <1>1
    <2> QED
      BY <1>2, <1>3, <2>1
  <1> QED
    BY <1>3, <1>4, <1>5 DEF Alarm!Without

(* The expiry loop rings the first alarm. *)
LEMMA ExpireRings ==
  ASSUME TypeOK, IInv, Expire
  PROVE  Alarm!Ring
  <1>1. /\ list \in Seq(Timer) /\ 1 \in DOMAIN list /\ list[1].time <= 0
        /\ list' = Removed(1) /\ timeouts' = Append(timeouts, list[1].seq)
    BY DEF TypeOK, Expire, Expired
  <1>2. Pending' = Alarm!Without(1)
    BY <1>1, RemovedIsWithout
  <1>3. Pending[1] = [seq |-> list[1].seq, due |-> list[1].due] /\ 1 \in DOMAIN Pending
    BY <1>1, PendingIs
  <1>4. Pending # <<>>
    BY <1>3
  <1>5. list[1].time = list[1].due
    BY <1>1 DEF IInv, DeltasAgree
  <1> QED
    BY <1>1, <1>2, <1>3, <1>4, <1>5 DEF Alarm!Ring

(* insert_node sets an alarm at the place its walk has found. *)
LEMMA LinkSets ==
  ASSUME TypeOK, IInv, Link
  PROVE  Alarm!Set
  <1>1. /\ list \in Seq(Timer) /\ DOMAIN list = 1 .. Len(list) /\ Len(list) \in Nat
        /\ curr \in 1 .. Len(list) + 1 /\ list' = Linked /\ UNCHANGED timeouts
        /\ node.time \in Nat /\ node.due \in Nat
    BY DEF TypeOK, Link, IInv, NodeAgrees
  <1>2. /\ node.seq \in SeqNos /\ node.due \in Delays
        /\ node.time = node.due - DueBefore(curr)
    BY DEF Link, IInv, NodeAgrees
  <1>3. /\ Len(Pending) = Len(list)
        /\ \A j \in 1 .. Len(list) : Pending[j] = [seq |-> list[j].seq, due |-> list[j].due]
        /\ \A j \in 1 .. Len(list) : Pending[j].due = list[j].due
    BY <1>1, PendingIs
  <1>4. /\ DOMAIN list' = 1 .. Len(list) + 1
        /\ \A j \in 1 .. Len(list) + 1 :
             /\ list'[j].due = (IF j < curr THEN list[j].due
                                ELSE IF j = curr THEN node.due ELSE list[j - 1].due)
             /\ list'[j].seq = (IF j < curr THEN list[j].seq
                                ELSE IF j = curr THEN node.seq ELSE list[j - 1].seq)
    BY <1>1, LinkedIs
  <1>5. curr > 1 => Pending[curr - 1].due <= node.due
    <2> SUFFICES ASSUME curr > 1
                 PROVE  Pending[curr - 1].due <= node.due
      OBVIOUS
    <2>1. curr - 1 \in 1 .. Len(list) /\ curr # 1
      BY <1>1
    <2>2. list[curr - 1].due \in Int
      BY <1>1, <2>1, TimerFields
    <2>3. node.time = node.due - list[curr - 1].due
      BY <1>2, <2>1 DEF DueBefore
    <2>4. Pending[curr - 1].due = list[curr - 1].due
      BY <1>3, <2>1
    <2> QED
      BY <1>1, <2>2, <2>3, <2>4
  <1>6. curr <= Len(Pending) => node.due <= Pending[curr].due
    <2> SUFFICES ASSUME curr <= Len(Pending)
                 PROVE  node.due <= Pending[curr].due
      OBVIOUS
    <2>1. curr \in DOMAIN list /\ curr \in 1 .. Len(list)
      BY <1>1, <1>3
    <2>2. Pending[curr].due = list[curr].due
      BY <1>3, <2>1
    <2>3. /\ list[curr].time = list[curr].due - DueBefore(curr)
          /\ list[curr].time \in Int /\ list[curr].due \in Int /\ DueBefore(curr) \in Int
      BY <1>1, <2>1, DeltaIs DEF IInv
    <2>4. node.time <= list[curr].time
      BY <1>1, <2>1, <2>3 DEF Link, WalkOn
    <2> QED
      BY <1>1, <1>2, <2>2, <2>3, <2>4
  <1>7. Pending' = [j \in 1 .. Len(Pending) + 1 |->
                      IF j < curr THEN Pending[j]
                      ELSE IF j = curr THEN [seq |-> node.seq, due |-> node.due]
                      ELSE Pending[j - 1]]
    <2>1. Pending' = [j \in 1 .. Len(list) + 1 |->
                        [seq |-> list'[j].seq, due |-> list'[j].due]]
      BY <1>4 DEF Pending
    <2>2. ASSUME NEW j \in 1 .. Len(list) + 1
          PROVE  [seq |-> list'[j].seq, due |-> list'[j].due]
                   = (IF j < curr THEN Pending[j]
                      ELSE IF j = curr THEN [seq |-> node.seq, due |-> node.due]
                      ELSE Pending[j - 1])
      <3>1. CASE j < curr
        <4>1. j \in 1 .. Len(list)
          BY <1>1, <3>1
        <4> QED
          BY <1>3, <1>4, <3>1, <4>1
      <3>2. CASE j = curr
        BY <1>1, <1>4, <3>2
      <3>3. CASE j > curr
        <4>1. j - 1 \in 1 .. Len(list) /\ ~(j < curr) /\ j # curr
          BY <1>1, <3>3
        <4> QED
          BY <1>3, <1>4, <4>1
      <3> QED
        BY <1>1, <3>1, <3>2, <3>3
    <2> QED
      BY <1>3, <2>1, <2>2
  <1>8. curr \in 1 .. Len(Pending) + 1
    BY <1>1, <1>3
  <1>9. \E n \in SeqNos, t \in Delays, i \in 1 .. Len(Pending) + 1 :
          /\ i > 1 => Pending[i - 1].due <= t
          /\ i <= Len(Pending) => t <= Pending[i].due
          /\ Pending' = [j \in 1 .. Len(Pending) + 1 |->
                           IF j < i THEN Pending[j]
                           ELSE IF j = i THEN [seq |-> n, due |-> t]
                           ELSE Pending[j - 1]]
    <2> USE <1>2, <1>8
    <2> WITNESS node.seq \in SeqNos, node.due \in Delays, curr \in 1 .. Len(Pending) + 1
    <2> QED
      BY <1>5, <1>6, <1>7
  <1> QED
    BY <1>1, <1>9 DEF Alarm!Set

(* A cancellation drops the first alarm of its number, if there is one. *)
LEMMA TakeDeleteDrops ==
  ASSUME TypeOK, IInv, TakeDelete
  PROVE  Alarm!Drop \/ UNCHANGED <<Pending, timeouts>>
  <1>1. UNCHANGED timeouts /\ list \in Seq(Timer)
    BY DEF TypeOK, TakeDelete
  <1>2. CASE \E i \in First(requests[1].seq) : list' = Removed(i)
    <2>1. PICK i \in DOMAIN list : /\ list' = Removed(i)
                                   /\ \A j \in 1 .. i - 1 : list[j].seq # list[i].seq
      BY <1>2 DEF First
    <2>2. Pending' = Alarm!Without(i)
      BY <2>1, RemovedIsWithout
    <2>3. /\ DOMAIN Pending = DOMAIN list /\ DOMAIN list = 1 .. Len(list) /\ Len(list) \in Nat
          /\ \A j \in DOMAIN list : Pending[j].seq = list[j].seq
      BY <1>1, PendingIs
    <2>4. \A j \in 1 .. i - 1 : Pending[j].seq # Pending[i].seq
      BY <2>1, <2>3
    <2> QED
      BY <1>1, <2>1, <2>2, <2>3, <2>4 DEF Alarm!Drop
  <1>3. CASE UNCHANGED list
    BY <1>1, <1>3 DEF Pending
  <1> QED
    BY <1>2, <1>3 DEF TakeDelete

(* Other steps change no alarm. *)
LEMMA OthersStutter ==
  ASSUME TypeOK,
         \/ \E e \in 0 .. MaxPass : Busy(e)
         \/ ExpiryEnds \/ TakeAdd \/ Walk
         \/ \E seq \in SeqNos : (\E t \in Delays : Start(seq, t)) \/ Cancel(seq)
         \/ UNCHANGED vars
  PROVE  UNCHANGED <<Pending, timeouts>>
  <1>1. CASE \E e \in 0 .. MaxPass : Busy(e)
    <2>1. PICK e \in 0 .. MaxPass : Busy(e)
      BY <1>1
    <2>2. list \in Seq(Timer) /\ list' = UncountedTime(e) /\ UNCHANGED timeouts /\ e \in Nat
      BY <2>1, MaxPassAssumption DEF TypeOK, Busy
    <2>3. /\ DOMAIN list' = DOMAIN list
          /\ \A i \in DOMAIN list : list'[i].due = list[i].due /\ list'[i].seq = list[i].seq
      BY <2>2, UncountedTimeIs
    <2> QED
      BY <2>2, <2>3 DEF Pending
  <1>2. CASE ExpiryEnds \/ TakeAdd \/ Walk
    BY <1>2 DEF ExpiryEnds, TakeAdd, Walk, Pending
  <1>3. CASE \E seq \in SeqNos : (\E t \in Delays : Start(seq, t)) \/ Cancel(seq)
    BY <1>3 DEF Start, Cancel, Pending
  <1>4. CASE UNCHANGED vars
    BY <1>4 DEF vars, Pending
  <1> QED
    BY <1>1, <1>2, <1>3, <1>4

(* timer.c's delta list implements alarms that each have their own time. *)
THEOREM Refinement == Spec => ImplementsAlarms
  <1>1. Init => Alarm!Init
    <2> SUFFICES ASSUME Init PROVE Pending = <<>> /\ timeouts = <<>>
      BY DEF Alarm!Init
    <2>1. list = <<>> /\ timeouts = <<>> /\ list \in Seq(Timer)
      BY DEF Init
    <2>2. Pending \in Seq([seq : Nat, due : Int]) /\ Len(Pending) = 0
      BY <2>1, PendingIs
    <2> QED
      BY <2>1, <2>2
  <1>2. TypeOK /\ IInv /\ [Next]_vars => [Alarm!Next]_(Alarm!alarmVars)
    <2> SUFFICES ASSUME TypeOK, IInv, [Next]_vars
                 PROVE  Alarm!Next \/ UNCHANGED <<Pending, timeouts>>
      BY DEF Alarm!alarmVars
    <2>1. CASE \E e \in 0 .. MaxPass : Select(e)
      BY <2>1, SelectPasses DEF Alarm!Next
    <2>2. CASE Expire
      BY <2>2, ExpireRings DEF Alarm!Next
    <2>3. CASE Link
      BY <2>3, LinkSets DEF Alarm!Next
    <2>4. CASE TakeDelete
      BY <2>4, TakeDeleteDrops DEF Alarm!Next
    <2>5. CASE Read
      BY <2>5 DEF Read, Pending, Alarm!Next, Alarm!Hear
    <2>6. CASE \/ \E e \in 0 .. MaxPass : Busy(e)
               \/ ExpiryEnds \/ TakeAdd \/ Walk
               \/ \E seq \in SeqNos : (\E t \in Delays : Start(seq, t)) \/ Cancel(seq)
               \/ UNCHANGED vars
      BY <2>6, OthersStutter
    <2> QED
      BY <2>1, <2>2, <2>3, <2>4, <2>5, <2>6 DEF Next, HandleStep, DaemonStep
  <1> QED
    BY <1>1, <1>2, Invariance, PTL DEF Spec, ImplementsAlarms, Alarm!Spec

-------------------------------------------------------------------------------
(* The numbers in the list after a removal: only the removed timer's may go. *)
LEMMA RemovedNumbers ==
  ASSUME TypeOK, NEW i \in DOMAIN list, list' = Removed(i)
  PROVE  Listed' \cup {list[i].seq} = Listed
  <1>0. list \in Seq(Timer) /\ DOMAIN list = 1 .. Len(list) /\ Len(list) \in Nat
    BY DEF TypeOK
  <1>1. /\ DOMAIN list = 1 .. Len(list) /\ Len(list) \in Nat
        /\ DOMAIN list' = 1 .. Len(list) - 1
        /\ \A j \in 1 .. Len(list) - 1 :
             list'[j].seq = IF j < i THEN list[j].seq ELSE list[j + 1].seq
    BY <1>0, RemovedIs
  <1>2. ASSUME NEW j \in DOMAIN list', j < i
        PROVE  list'[j].seq \in Listed
    <2>1. j \in DOMAIN list /\ list'[j].seq = list[j].seq
      BY <1>1, <1>2
    <2> QED
      BY <2>1 DEF Listed
  <1>3. ASSUME NEW j \in DOMAIN list', ~(j < i)
        PROVE  list'[j].seq \in Listed
    <2>1. j + 1 \in DOMAIN list /\ list'[j].seq = list[j + 1].seq
      BY <1>1, <1>3
    <2> QED
      BY <2>1 DEF Listed
  <1>4. ASSUME NEW j \in DOMAIN list, j < i
        PROVE  list[j].seq \in Listed'
    <2>1. j \in DOMAIN list' /\ list'[j].seq = list[j].seq
      BY <1>1, <1>4
    <2> QED
      BY <2>1 DEF Listed
  <1>5. ASSUME NEW j \in DOMAIN list, j > i
        PROVE  list[j].seq \in Listed'
    <2>1. j - 1 \in DOMAIN list' /\ ~(j - 1 < i) /\ j - 1 + 1 = j
      BY <1>1, <1>5
    <2>2. list'[j - 1].seq = list[j].seq
      BY <1>1, <2>1
    <2> QED
      BY <2>1, <2>2 DEF Listed
  <1>6. \A j \in DOMAIN list : j < i \/ j = i \/ j > i
    BY <1>1
  <1>7. Listed' \subseteq Listed
    BY <1>2, <1>3 DEF Listed
  <1>8. Listed \subseteq Listed' \cup {list[i].seq}
    BY <1>4, <1>5, <1>6 DEF Listed
  <1>9. list[i].seq \in Listed
    BY DEF Listed
  <1> QED
    BY <1>7, <1>8, <1>9

(* The numbers in the list after an insertion: the node's has come. *)
LEMMA LinkedNumbers ==
  ASSUME TypeOK, curr \in 1 .. Len(list) + 1, list' = Linked
  PROVE  Listed' = Listed \cup {node.seq}
  <1>1. /\ list \in Seq(Timer) /\ DOMAIN list = 1 .. Len(list) /\ Len(list) \in Nat
        /\ DOMAIN list' = 1 .. Len(list) + 1
        /\ \A j \in 1 .. Len(list) + 1 :
             list'[j].seq = IF j < curr THEN list[j].seq
                            ELSE IF j = curr THEN node.seq ELSE list[j - 1].seq
    BY LinkedIs DEF TypeOK
  <1>2. ASSUME NEW j \in DOMAIN list'
        PROVE  list'[j].seq \in Listed \cup {node.seq}
    <2>1. CASE j < curr
      <3>1. j \in DOMAIN list /\ list'[j].seq = list[j].seq
        BY <1>1, <2>1
      <3> QED
        BY <3>1 DEF Listed
    <2>2. CASE j = curr
      BY <1>1, <2>2
    <2>3. CASE j > curr
      <3>1. j - 1 \in DOMAIN list /\ list'[j].seq = list[j - 1].seq
        BY <1>1, <2>3
      <3> QED
        BY <3>1 DEF Listed
    <2> QED
      BY <1>1, <2>1, <2>2, <2>3
  <1>3. ASSUME NEW j \in DOMAIN list
        PROVE  list[j].seq \in Listed'
    <2>1. CASE j < curr
      <3>1. j \in DOMAIN list' /\ list'[j].seq = list[j].seq
        BY <1>1, <2>1
      <3> QED
        BY <3>1 DEF Listed
    <2>2. CASE ~(j < curr)
      <3>1. j + 1 \in DOMAIN list' /\ ~(j + 1 < curr) /\ j + 1 # curr /\ j + 1 - 1 = j
        BY <1>1, <2>2
      <3>2. list'[j + 1].seq = list[j].seq
        BY <1>1, <3>1
      <3> QED
        BY <3>1, <3>2 DEF Listed
    <2> QED
      BY <2>1, <2>2
  <1>4. node.seq \in Listed'
    <2>1. curr \in DOMAIN list' /\ list'[curr].seq = node.seq
      BY <1>1
    <2> QED
      BY <2>1 DEF Listed
  <1>5. Listed' \subseteq Listed \cup {node.seq}
    BY <1>2 DEF Listed
  <1>6. Listed \subseteq Listed'
    BY <1>3 DEF Listed
  <1> QED
    BY <1>4, <1>5, <1>6

(* A queue from which the first element is taken, and one that grows. *)
LEMMA TailIs ==
  ASSUME NEW S, NEW q \in Seq(S), q # <<>>
  PROVE  /\ 1 \in DOMAIN q /\ DOMAIN q = 1 .. Len(q) /\ Len(q) \in Nat
         /\ DOMAIN Tail(q) = 1 .. Len(q) - 1
         /\ \A i \in 1 .. Len(q) - 1 : Tail(q)[i] = q[i + 1]
  BY HeadTailProperties, EmptySeq, LenProperties

LEMMA AppendIs ==
  ASSUME NEW S, NEW q \in Seq(S), NEW x \in S
  PROVE  /\ DOMAIN q = 1 .. Len(q) /\ Len(q) \in Nat
         /\ DOMAIN Append(q, x) = 1 .. Len(q) + 1
         /\ \A i \in 1 .. Len(q) : Append(q, x)[i] = q[i]
         /\ Append(q, x)[Len(q) + 1] = x
  BY AppendProperties, LenProperties

(* The numbers whose timers are still asked for when a request is taken. *)
LEMMA TakenNumbers ==
  ASSUME requests \in Seq(Request), requests # <<>>, requests' = Tail(requests)
  PROVE  /\ requests[1].type = 0 => Requested' \cup {requests[1].seq} = Requested
         /\ requests[1].type # 0 => Requested' = Requested
  <1>1. /\ 1 \in DOMAIN requests /\ DOMAIN requests = 1 .. Len(requests)
        /\ Len(requests) \in Nat /\ DOMAIN requests' = 1 .. Len(requests) - 1
        /\ \A i \in 1 .. Len(requests) - 1 : requests'[i] = requests[i + 1]
    BY TailIs
  <1>2. ASSUME NEW i \in DOMAIN requests', requests'[i].type = 0
        PROVE  requests'[i].seq \in Requested
    <2>1. i + 1 \in DOMAIN requests /\ requests'[i] = requests[i + 1]
      BY <1>1
    <2> QED
      BY <1>2, <2>1 DEF Requested
  <1>3. ASSUME NEW i \in DOMAIN requests, requests[i].type = 0, i # 1
        PROVE  requests[i].seq \in Requested'
    <2>1. i - 1 \in DOMAIN requests' /\ i - 1 + 1 = i
      BY <1>1, <1>3
    <2>2. requests'[i - 1] = requests[i]
      BY <1>1, <2>1
    <2> QED
      BY <1>3, <2>1, <2>2 DEF Requested
  <1>4. Requested' \subseteq Requested
    BY <1>2 DEF Requested
  <1>5. Requested \subseteq Requested' \cup {requests[1].seq}
    BY <1>3 DEF Requested
  <1>6. requests[1].type # 0 => Requested \subseteq Requested'
    BY <1>3 DEF Requested
  <1>7. requests[1].type = 0 => requests[1].seq \in Requested
    BY <1>1 DEF Requested
  <1> QED
    BY <1>4, <1>5, <1>6, <1>7

(* Waiting changes no number. *)
LEMMA WaitingNumbers ==
  ASSUME TypeOK, NEW e \in Nat, Select(e) \/ Busy(e)
  PROVE  UNCHANGED Armed
  <1>1. list \in Seq(Timer) /\ requests \in Seq(Request)
    BY DEF TypeOK
  <1>2. /\ DOMAIN list' = DOMAIN list
        /\ \A i \in DOMAIN list : list'[i].seq = list[i].seq
    BY <1>1, CountedTimeIs, UncountedTimeIs DEF Select, Busy
  <1>3. /\ DOMAIN requests' = DOMAIN requests
        /\ \A i \in DOMAIN requests :
             requests'[i].type = requests[i].type /\ requests'[i].seq = requests[i].seq
    BY <1>1, RequestsLaterIs DEF Select, Busy
  <1>4. Listed' = Listed
    BY <1>2 DEF Listed
  <1>5. Requested' = Requested
    BY <1>3 DEF Requested
  <1>6. Walking' = Walking /\ Ringing' = Ringing
    <2>1. CASE Select(e)
      BY <2>1 DEF Select, Walking, Ringing
    <2>2. CASE Busy(e)
      <3>1. node'.seq = node.seq
        BY <2>2 DEF Busy, TypeOK
      <3> QED
        BY <2>2, <3>1 DEF Busy, Walking, Ringing
    <2> QED
      BY <2>1, <2>2
  <1> QED
    BY <1>4, <1>5, <1>6 DEF Armed

(* A timer that rings is still armed: its timeout has not been read. *)
LEMMA ExpireNumbers ==
  ASSUME TypeOK, Expire
  PROVE  UNCHANGED Armed
  <1>1. /\ list \in Seq(Timer) /\ timeouts \in Seq(Nat) /\ 1 \in DOMAIN list
        /\ list' = Removed(1) /\ timeouts' = Append(timeouts, list[1].seq)
        /\ UNCHANGED <<pc, node, requests>>
    BY DEF TypeOK, Expire, Expired
  <1>2. Listed' \cup {list[1].seq} = Listed
    BY <1>1, RemovedNumbers
  <1>3. list[1].seq \in Nat
    BY <1>1, TimerFields
  <1>4. Ringing' = Ringing \cup {list[1].seq}
    <2>1. /\ DOMAIN timeouts = 1 .. Len(timeouts) /\ Len(timeouts) \in Nat
          /\ DOMAIN timeouts' = 1 .. Len(timeouts) + 1
          /\ \A i \in 1 .. Len(timeouts) : timeouts'[i] = timeouts[i]
          /\ timeouts'[Len(timeouts) + 1] = list[1].seq
      BY <1>1, <1>3, AppendIs
    <2>2. \A i \in DOMAIN timeouts' : i \in DOMAIN timeouts \/ i = Len(timeouts) + 1
      BY <2>1
    <2>3. DOMAIN timeouts \subseteq DOMAIN timeouts' /\ Len(timeouts) + 1 \in DOMAIN timeouts'
      BY <2>1
    <2> QED
      BY <2>1, <2>2, <2>3 DEF Ringing
  <1>5. Walking' = Walking /\ Requested' = Requested
    BY <1>1 DEF Walking, Requested
  <1> QED
    BY <1>2, <1>4, <1>5 DEF Armed

(* insert_node brings a number from the request to the list. *)
LEMMA InsertNumbers ==
  ASSUME TypeOK, IInv, TakeAdd \/ Walk \/ Link
  PROVE  UNCHANGED Armed
  <1>1. CASE TakeAdd
    <2>1. /\ requests \in Seq(Request) /\ requests # <<>> /\ requests[1].type = 0
          /\ requests' = Tail(requests) /\ node'.seq = requests[1].seq
          /\ pc # "walk" /\ pc' = "walk" /\ UNCHANGED <<list, timeouts>>
      BY <1>1 DEF TypeOK, TakeAdd
    <2>2. Requested' \cup {requests[1].seq} = Requested
      BY <2>1, TakenNumbers
    <2>3. Walking' = {requests[1].seq} /\ Walking = {}
      BY <2>1 DEF Walking
    <2>4. Listed' = Listed /\ Ringing' = Ringing
      BY <2>1 DEF Listed, Ringing
    <2> QED
      BY <2>2, <2>3, <2>4 DEF Armed
  <1>2. CASE Walk
    <2>1. node'.seq = node.seq
      BY <1>2 DEF Walk, TypeOK
    <2> QED
      BY <1>2, <2>1 DEF Walk, Armed, Listed, Requested, Walking, Ringing
  <1>3. CASE Link
    <2>1. /\ pc = "walk" /\ pc' = "select" /\ curr \in 1 .. Len(list) + 1
          /\ list' = Linked /\ UNCHANGED <<requests, timeouts>>
      BY <1>3 DEF Link, IInv, NodeAgrees
    <2>2. Listed' = Listed \cup {node.seq}
      BY <2>1, LinkedNumbers
    <2>3. Walking = {node.seq} /\ Walking' = {}
      BY <2>1 DEF Walking
    <2>4. Requested' = Requested /\ Ringing' = Ringing
      BY <2>1 DEF Requested, Ringing
    <2> QED
      BY <2>2, <2>3, <2>4 DEF Armed
  <1> QED
    BY <1>1, <1>2, <1>3

(* remove_node disarms no number but the one that is cancelled. *)
LEMMA DeleteCancels ==
  ASSUME TypeOK, TakeDelete
  PROVE  Cancels /\ Service!canceltimer(requests[1].seq)
  <1>1. /\ requests \in Seq(Request) /\ requests # <<>> /\ requests[1].type = 1
        /\ requests' = Tail(requests) /\ pc # "walk" /\ pc' # "walk" /\ UNCHANGED timeouts
    BY DEF TypeOK, TakeDelete
  <1>2. Requested' = Requested
    BY <1>1, TakenNumbers
  <1>3. Walking' = Walking /\ Ringing' = Ringing
    BY <1>1 DEF Walking, Ringing
  <1>4. Listed' \cup {requests[1].seq} = Listed \/ Listed' = Listed
    <2>1. CASE \E i \in First(requests[1].seq) : list' = Removed(i)
      <3>1. PICK i \in First(requests[1].seq) : list' = Removed(i)
        BY <2>1
      <3>2. i \in DOMAIN list /\ list[i].seq = requests[1].seq
        BY DEF First
      <3> QED
        BY <3>1, <3>2, RemovedNumbers
    <2>2. CASE UNCHANGED list
      BY <2>2 DEF Listed
    <2> QED
      BY <2>1, <2>2 DEF TakeDelete
  <1>5. Armed' \in {Armed, Armed \ {requests[1].seq}}
    BY <1>2, <1>3, <1>4 DEF Armed
  <1> QED
    BY <1>1, <1>5 DEF Cancels, Service!canceltimer

(* A request arms its number if it is for a timer. *)
LEMMA RequestArms ==
  ASSUME TypeOK, NEW r \in Request, requests' = Append(requests, r),
         UNCHANGED <<list, pc, node, timeouts>>
  PROVE  Armed' = IF r.type = 0 THEN Armed \cup {r.seq} ELSE Armed
  <1>1. /\ DOMAIN requests = 1 .. Len(requests) /\ Len(requests) \in Nat
        /\ DOMAIN requests' = 1 .. Len(requests) + 1
        /\ \A i \in 1 .. Len(requests) : requests'[i] = requests[i]
        /\ requests'[Len(requests) + 1] = r
    BY AppendIs DEF TypeOK
  <1>2. \A i \in DOMAIN requests' : i \in DOMAIN requests \/ i = Len(requests) + 1
    BY <1>1
  <1>3. DOMAIN requests \subseteq DOMAIN requests' /\ Len(requests) + 1 \in DOMAIN requests'
    BY <1>1
  <1>4. Requested' = IF r.type = 0 THEN Requested \cup {r.seq} ELSE Requested
    BY <1>1, <1>2, <1>3 DEF Requested
  <1>5. Listed' = Listed /\ Walking' = Walking /\ Ringing' = Ringing
    BY DEF Listed, Walking, Ringing
  <1> QED
    BY <1>4, <1>5 DEF Armed

(* The daemon reads the timeout of a number that is armed. *)
LEMMA ReadDisarms ==
  ASSUME TypeOK, Read
  PROVE  Reads /\ timeouts[1] \in Service!Timeouts /\ Service!TimeoutRead(timeouts[1])
  <1>1. /\ timeouts \in Seq(Nat) /\ timeouts # <<>> /\ timeouts' = Tail(timeouts)
        /\ UNCHANGED <<list, pc, node, requests>>
    BY DEF TypeOK, Read
  <1>2. /\ 1 \in DOMAIN timeouts /\ DOMAIN timeouts = 1 .. Len(timeouts)
        /\ Len(timeouts) \in Nat /\ DOMAIN timeouts' = 1 .. Len(timeouts) - 1
        /\ \A i \in 1 .. Len(timeouts) - 1 : timeouts'[i] = timeouts[i + 1]
    BY <1>1, TailIs
  <1>3. \A i \in DOMAIN timeouts' : i + 1 \in DOMAIN timeouts /\ timeouts'[i] = timeouts[i + 1]
    BY <1>2
  <1>4. \A i \in DOMAIN timeouts :
          i # 1 => i - 1 \in DOMAIN timeouts' /\ timeouts'[i - 1] = timeouts[i]
    <2> SUFFICES ASSUME NEW i \in DOMAIN timeouts, i # 1
                 PROVE  i - 1 \in DOMAIN timeouts' /\ timeouts'[i - 1] = timeouts[i]
      OBVIOUS
    <2>1. i - 1 \in 1 .. Len(timeouts) - 1 /\ i - 1 + 1 = i
      BY <1>2
    <2> QED
      BY <1>2, <2>1
  <1>5. Ringing' \cup {timeouts[1]} = Ringing
    BY <1>2, <1>3, <1>4 DEF Ringing
  <1>6. Listed' = Listed /\ Walking' = Walking /\ Requested' = Requested
    BY <1>1 DEF Listed, Walking, Requested
  <1>7. timeouts[1] \in Armed
    BY <1>5 DEF Armed
  <1>8. Armed' \in {Armed, Armed \ {timeouts[1]}}
    BY <1>5, <1>6 DEF Armed
  <1> QED
    BY <1>1, <1>7, <1>8 DEF Reads, Service!Timeouts, Service!TimeoutRead

(* timer.c is the service that the client daemon reckons with: its list neither
   loses a number nor makes one up. *)
THEOREM ServiceRefinement == Spec => ImplementsService
  <1> DEFINE Serves ==
        \/ \E seq \in SeqNos : Starts(seq) /\ Service!starttimer(seq)
        \/ Cancels /\ Service!canceltimer(requests[1].seq)
        \/ Reads /\ timeouts[1] \in Service!Timeouts /\ Service!TimeoutRead(timeouts[1])
        \/ UNCHANGED Armed
  <1>1. ASSUME TypeOK, IInv, Next
        PROVE  Serves
    <2>1. CASE \E e \in 0 .. MaxPass : Select(e) \/ Busy(e)
      BY <1>1, <2>1, WaitingNumbers, MaxPassAssumption
    <2>2. CASE Expire \/ TakeAdd \/ Walk \/ Link
      BY <1>1, <2>2, ExpireNumbers, InsertNumbers
    <2>3. CASE ExpiryEnds
      BY <2>3 DEF ExpiryEnds, Armed, Listed, Requested, Walking, Ringing
    <2>4. CASE TakeDelete
      BY <1>1, <2>4, DeleteCancels
    <2>5. ASSUME NEW seq \in SeqNos, NEW t \in Delays, Start(seq, t)
          PROVE  Serves
      <3> DEFINE r == [type |-> 0, seq |-> seq, time |-> t, left |-> t]
      <3>1. r \in Request /\ r.type = 0 /\ r.seq = seq
        BY SeqNosAssumption, DelaysAssumption DEF Request
      <3>2. requests' = Append(requests, r) /\ UNCHANGED <<list, pc, node, timeouts>>
        BY <2>5 DEF Start
      <3>3. Starts(seq)
        BY <3>2 DEF Starts
      <3> HIDE DEF r
      <3>4. Service!starttimer(seq)
        BY <1>1, <3>1, <3>2, RequestArms DEF Service!starttimer
      <3> QED
        BY <3>3, <3>4
    <2>6. ASSUME NEW seq \in SeqNos, Cancel(seq)
          PROVE  Serves
      <3> DEFINE r == [type |-> 1, seq |-> seq, time |-> 0, left |-> 0]
      <3>1. r \in Request /\ r.type # 0
        BY SeqNosAssumption DEF Request
      <3>2. requests' = Append(requests, r) /\ UNCHANGED <<list, pc, node, timeouts>>
        BY <2>6 DEF Cancel
      <3> HIDE DEF r
      <3> QED
        BY <1>1, <3>1, <3>2, RequestArms
    <2>7. CASE Read
      BY <1>1, <2>7, ReadDisarms
    <2> HIDE DEF Serves
    <2> QED
      BY <1>1, <2>1, <2>2, <2>3, <2>4, <2>5, <2>6, <2>7 DEF Next, HandleStep, DaemonStep
  <1>2. TypeOK /\ IInv /\ [Next]_vars => [Serves]_vars
    BY <1>1
  <1> QED
    BY <1>2, Invariance, PTL DEF Spec, ImplementsService
===============================================================================
