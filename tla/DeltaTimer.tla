------------------------------ MODULE DeltaTimer ------------------------------
(***************************************************************************)
(* timer.c: the timer process.  Its list keeps with each timer the time    *)
(* between it and the one before it.  The endless loop waits in select,    *)
(* takes the time spent there off the first timer, reports the timers that *)
(* have run out, and handles one request if select found one.              *)
(*                                                                         *)
(* Time is counted in ticks of any length.  Only time spent in select is   *)
(* counted by the code; the rest is the action Busy.  Beside the time of   *)
(* the code each timer carries two that only the properties read: due, the *)
(* counted time until it should ring, and left, what is left of its time   *)
(* since the daemon sent the request.                                      *)
(*                                                                         *)
(* Insertion walks the list; a step of the walk is an action.  Left out:   *)
(* the links back (prev), the port, which nothing reads, the exits when    *)
(* a system call fails, and the 50 ms that select waits at most: Linux     *)
(* leaves the remaining time in wait_timer, nobody sets it again, and the  *)
(* time that one select takes is left open here.                           *)
(***************************************************************************)
EXTENDS Integers, Sequences

CONSTANTS
  SeqNos,      \* the sequence numbers the daemon starts timers for
  Delays,      \* the values of rto
  MaxPass,     \* bound: the ticks that pass in one step
  MaxRequests, \* bound: requests waiting
  MaxTimers    \* bound: timers, requests and timeouts together

ASSUME SeqNosAssumption == SeqNos \subseteq Nat
ASSUME DelaysAssumption == Delays \subseteq Nat \ {0}
ASSUME MaxPassAssumption == MaxPass \in Nat
ASSUME MaxRequestsAssumption == MaxRequests \in Nat
ASSUME MaxTimersAssumption == MaxTimers \in Nat

VARIABLES
  list,        \* the delta list
  pc,          \* where the loop is
  ready,       \* select found a request on the socket
  node,        \* insert_node's node on its way along the list
  curr,        \* and the position of curr_node
  requests,    \* requests waiting on the timer's socket
  timeouts     \* timeouts waiting on the daemon's timerSocket

vars == <<list, pc, ready, node, curr, requests, timeouts>>

NoTimer == [time |-> 0, seq |-> 0, due |-> 0, left |-> 0]

Init ==
  /\ list = <<>>
  /\ pc = "select"
  /\ ready = FALSE
  /\ node = NoTimer
  /\ curr = 0
  /\ requests = <<>>
  /\ timeouts = <<>>

(***************************************************************************)
(* The passing of time.                                                    *)
(***************************************************************************)
Less(left, e) == IF left > e THEN left - e ELSE 0

RequestsLater(e) == [i \in DOMAIN requests |-> [requests[i] EXCEPT !.left = Less(@, e)]]

\* head->time -= elapsed.
CountedTime(e) ==
  [i \in DOMAIN list |->
     [list[i] EXCEPT !.time = IF i = 1 THEN @ - e ELSE @,
                     !.due = @ - e, !.left = Less(@, e)]]

Select(e) ==
  /\ pc = "select"
  /\ list' = CountedTime(e)
  /\ requests' = RequestsLater(e)
  /\ ready' = (requests # <<>>)
  /\ pc' = "expire"
  /\ UNCHANGED <<node, curr, timeouts>>

\* Time that passes outside of select.
UncountedTime(e) == [i \in DOMAIN list |-> [list[i] EXCEPT !.left = Less(@, e)]]

Busy(e) ==
  /\ pc # "select"
  /\ list' = UncountedTime(e)
  /\ node' = [node EXCEPT !.left = Less(@, e)]
  /\ requests' = RequestsLater(e)
  /\ UNCHANGED <<pc, ready, curr, timeouts>>

(***************************************************************************)
(* remove_node: the first timer of the number goes, and the one after it   *)
(* gets its time.                                                          *)
(***************************************************************************)
\* Mutant of Removed: the time is lost.
RemovedUncarried(i) ==
  [j \in 1 .. Len(list) - 1 |-> IF j < i THEN list[j] ELSE list[j + 1]]

\* Mutant of Removed: the list is not mended.
RemovedUnmended(i) == SubSeq(list, 1, i - 1)

Removed(i) ==
  [j \in 1 .. Len(list) - 1 |->
     IF j < i THEN list[j]
     ELSE IF j = i THEN [list[i + 1] EXCEPT !.time = @ + list[i].time]
     ELSE list[j + 1]]

First(seq) ==
  {i \in DOMAIN list : list[i].seq = seq /\ \A j \in 1 .. i - 1 : list[j].seq # seq}

(***************************************************************************)
(* The timers that have run out.                                           *)
(***************************************************************************)
\* Mutant of Expired: a timer rings one round late.
ExpiredStrict == list # <<>> /\ list[1].time < 0

Expired == list # <<>> /\ list[1].time <= 0

Expire ==
  /\ pc = "expire"
  /\ Expired
  /\ timeouts' = Append(timeouts, list[1].seq)
  /\ list' = Removed(1)
  /\ UNCHANGED <<pc, ready, node, curr, requests>>

ExpiryEnds ==
  /\ pc = "expire"
  /\ ~Expired
  /\ pc' = IF ready THEN "request" ELSE "select"
  /\ UNCHANGED <<list, ready, node, curr, requests, timeouts>>

(***************************************************************************)
(* A request.                                                              *)
(***************************************************************************)
TakeAdd ==
  /\ pc = "request"
  /\ requests # <<>>
  /\ requests[1].type = 0
  /\ node' = [time |-> requests[1].time, seq |-> requests[1].seq,
              due |-> requests[1].time, left |-> requests[1].left]
  /\ curr' = 1
  /\ requests' = Tail(requests)
  /\ pc' = "walk"
  /\ UNCHANGED <<list, ready, timeouts>>

\* Mutant of WalkOn: new timers go to the end of the list.
WalkToEnd == curr <= Len(list)

WalkOn == curr <= Len(list) /\ node.time > list[curr].time

Walk ==
  /\ pc = "walk"
  /\ WalkOn
  /\ node' = [node EXCEPT !.time = @ - list[curr].time]
  /\ curr' = curr + 1
  /\ UNCHANGED <<list, pc, ready, requests, timeouts>>

\* Mutant of Linked: the timer that comes after keeps its time.
LinkedUncarried ==
  [j \in 1 .. Len(list) + 1 |->
     IF j < curr THEN list[j] ELSE IF j = curr THEN node ELSE list[j - 1]]

Linked ==
  [j \in 1 .. Len(list) + 1 |->
     IF j < curr THEN list[j]
     ELSE IF j = curr THEN node
     ELSE IF j = curr + 1 THEN [list[curr] EXCEPT !.time = @ - node.time]
     ELSE list[j - 1]]

Link ==
  /\ pc = "walk"
  /\ ~WalkOn
  /\ list' = Linked
  /\ node' = NoTimer
  /\ curr' = 0
  /\ pc' = "select"
  /\ UNCHANGED <<ready, requests, timeouts>>

TakeDelete ==
  /\ pc = "request"
  /\ requests # <<>>
  /\ requests[1].type = 1
  /\ \/ \E i \in First(requests[1].seq) : list' = Removed(i)
     \/ First(requests[1].seq) = {} /\ UNCHANGED list
  /\ requests' = Tail(requests)
  /\ pc' = "select"
  /\ UNCHANGED <<ready, node, curr, timeouts>>

(***************************************************************************)
(* The client daemon: starttimer, canceltimer and the read of a timeout.   *)
(***************************************************************************)
Room ==
  /\ Len(requests) < MaxRequests
  /\ Len(list) + Len(requests) + Len(timeouts) < MaxTimers

Start(seq, t) ==
  /\ Room
  /\ requests' = Append(requests, [type |-> 0, seq |-> seq, time |-> t, left |-> t])
  /\ UNCHANGED <<list, pc, ready, node, curr, timeouts>>

Cancel(seq) ==
  /\ Room
  /\ requests' = Append(requests, [type |-> 1, seq |-> seq, time |-> 0, left |-> 0])
  /\ UNCHANGED <<list, pc, ready, node, curr, timeouts>>

Read ==
  /\ timeouts # <<>>
  /\ timeouts' = Tail(timeouts)
  /\ UNCHANGED <<list, pc, ready, node, curr, requests>>

HandleStep ==
  Expire \/ ExpiryEnds \/ TakeAdd \/ Walk \/ Link \/ TakeDelete

DaemonStep ==
  \/ \E seq \in SeqNos : (\E t \in Delays : Start(seq, t)) \/ Cancel(seq)
  \/ Read

Next ==
  \/ \E e \in 0 .. MaxPass : Select(e) \/ Busy(e)
  \/ HandleStep
  \/ DaemonStep

Spec == Init /\ [][Next]_vars

(***************************************************************************)
(* Fairness: the process is scheduled, and the clock does not stand still  *)
(* for all the selects there are.                                          *)
(***************************************************************************)
Fairness ==
  /\ WF_vars(HandleStep)
  /\ WF_vars(\E e \in 0 .. MaxPass : Select(e))
  /\ SF_vars(\E e \in 1 .. MaxPass : Select(e))

FairSpec == Spec /\ Fairness

-------------------------------------------------------------------------------
(* Every variable has a value of the kind the code gives it. *)
Timer == [time : Int, seq : Nat, due : Int, left : Nat]

Request == [type : {0, 1}, seq : Nat, time : Nat, left : Nat]

TypeOK ==
  /\ list \in Seq(Timer)
  /\ pc \in {"select", "expire", "request", "walk"}
  /\ ready \in BOOLEAN
  /\ node \in [time : Nat, seq : Nat, due : Nat, left : Nat]
  /\ curr \in IF pc = "walk" THEN 1 .. Len(list) + 1 ELSE {0}
  /\ requests \in Seq(Request)
  /\ timeouts \in Seq(Nat)

(* However timers are inserted and removed, the times in the list add up to
   the counted time each timer has left: the first is the time of the first
   timer, each other the difference to the one before it, which is never
   negative. *)
DeltasAgree ==
  \A i \in DOMAIN list :
    IF i = 1 THEN list[1].time = list[1].due
    ELSE /\ list[i].time = list[i].due - list[i - 1].due
         /\ list[i].time >= 0

(* A timer never rings early: when it does, all of its time has passed since
   the daemon sent the request, counted or not. *)
NeverEarly == [][Len(timeouts') > Len(timeouts) => list[1].left = 0]_vars

Pending == [i \in DOMAIN list |-> [seq |-> list[i].seq, due |-> list[i].due]]

Alarm ==
  INSTANCE AlarmClock
    WITH Numbers <- SeqNos, Times <- Delays, Passes <- 0 .. MaxPass,
         pending <- Pending, rung <- timeouts

(* The delta list behaves as a set of alarms each with its own time: those
   that are due ring at once and in the order of their times, and no request
   changes the time of any timer but its own. *)
ImplementsAlarms == Alarm!Spec

(* The numbers that may come back as a timeout. *)
Listed == {list[i].seq : i \in DOMAIN list}

Requested == {requests[i].seq : i \in {j \in DOMAIN requests : requests[j].type = 0}}

Walking == IF pc = "walk" THEN {node.seq} ELSE {}

Ringing == {timeouts[i] : i \in DOMAIN timeouts}

Armed == Requested \cup Walking \cup Listed \cup Ringing

Service == INSTANCE TimerService WITH armed <- Armed

\* The step sends a request for a timer, handles a cancellation, reads a timeout.
Starts(seq) ==
  \E t \in Delays :
    requests' = Append(requests, [type |-> 0, seq |-> seq, time |-> t, left |-> t])

Cancels == requests # <<>> /\ requests[1].type = 1 /\ requests' = Tail(requests)

Reads == timeouts # <<>> /\ timeouts' = Tail(timeouts)

(* The timer process is the service that the client daemon reckons with: no
   number is lost and none is made up on the way through the request queue, the
   list and the timeout queue.  It is armed by its own starttimer and disarmed
   by its own canceltimer or its own timeout, whatever the list does meanwhile. *)
ImplementsService ==
  [][\/ \E seq \in SeqNos : Starts(seq) /\ Service!starttimer(seq)
     \/ Cancels /\ Service!canceltimer(requests[1].seq)
     \/ Reads /\ timeouts[1] \in Service!Timeouts /\ Service!TimeoutRead(timeouts[1])
     \/ UNCHANGED Armed]_vars

(* If a timer of some number runs, one rings in the end, unless a request comes
   that cancels one. *)
Running(seq) == \E i \in DOMAIN list : list[i].seq = seq

Rung(seq) == \E i \in DOMAIN timeouts : timeouts[i] = seq

CancelWaits(seq) == \E i \in DOMAIN requests : requests[i].type = 1 /\ requests[i].seq = seq

Rings == \A seq \in SeqNos : Running(seq) ~> (Rung(seq) \/ CancelWaits(seq))

-------------------------------------------------------------------------------
(***************************************************************************)
(* The inductive invariant behind these properties.                        *)
(***************************************************************************)
\* The counted time of the timer before position i.
DueBefore(i) == IF i = 1 THEN 0 ELSE list[i - 1].due

\* What insert_node has left of its node's time is the difference to the timer
\* it stands behind.
NodeAgrees ==
  pc = "walk" =>
    /\ curr \in 1 .. Len(list) + 1
    /\ node.seq \in SeqNos /\ node.due \in Delays /\ node.left <= node.due
    /\ node.time = node.due - DueBefore(curr)

\* A timer has no more time left than is still to be counted.
LeftIsCounted == \A i \in DOMAIN list : list[i].left > 0 => list[i].left <= list[i].due

RequestsHold ==
  \A i \in DOMAIN requests :
    requests[i].type = 0 =>
      /\ requests[i].seq \in SeqNos /\ requests[i].time \in Delays
      /\ requests[i].left <= requests[i].time

\* Timers that have run out are removed before the loop goes on.
HeadRuns == pc # "expire" /\ list # <<>> => list[1].time > 0

(* The inductive invariant: the times add up, the node on its way along the
   list included, and outside of the expiry loop the first timer still runs. *)
IInv == DeltasAgree /\ NodeAgrees /\ LeftIsCounted /\ RequestsHold /\ HeadRuns
===============================================================================
