------------------------------ MODULE AlarmClock ------------------------------
(***************************************************************************)
(* What the delta timer promises: a timer that is set for some time rings  *)
(* when it has passed, no later timer before an earlier one, and setting   *)
(* or dropping one leaves the time of all others alone.                    *)
(***************************************************************************)
EXTENDS Integers, Sequences

CONSTANTS
  Numbers,     \* what tells timers apart, though several may share a number
  Times,       \* the times a timer may be set for
  Passes       \* the times that may pass at once

VARIABLES
  pending,     \* the timers, earliest first: seq and the time due until it rings
  rung         \* the numbers that rang and were not heard yet

alarmVars == <<pending, rung>>

Init == pending = <<>> /\ rung = <<>>

\* Time does not pass by a timer that is due.
Pass ==
  /\ pending # <<>> => pending[1].due > 0
  /\ \E e \in Passes :
       pending' = [i \in DOMAIN pending |-> [pending[i] EXCEPT !.due = @ - e]]
  /\ UNCHANGED rung

\* Among timers due at the same time the place is open.
Set ==
  /\ \E n \in Numbers, t \in Times, i \in 1 .. Len(pending) + 1 :
       /\ i > 1 => pending[i - 1].due <= t
       /\ i <= Len(pending) => t <= pending[i].due
       /\ pending' = [j \in 1 .. Len(pending) + 1 |->
                        IF j < i THEN pending[j]
                        ELSE IF j = i THEN [seq |-> n, due |-> t]
                        ELSE pending[j - 1]]
  /\ UNCHANGED rung

Without(i) ==
  [j \in 1 .. Len(pending) - 1 |-> IF j < i THEN pending[j] ELSE pending[j + 1]]

\* The earliest timer of a number is dropped.
Drop ==
  /\ \E i \in DOMAIN pending :
       /\ \A j \in 1 .. i - 1 : pending[j].seq # pending[i].seq
       /\ pending' = Without(i)
  /\ UNCHANGED rung

Ring ==
  /\ pending # <<>>
  /\ pending[1].due <= 0
  /\ rung' = Append(rung, pending[1].seq)
  /\ pending' = Without(1)

Hear == rung # <<>> /\ rung' = Tail(rung) /\ UNCHANGED pending

Next == Pass \/ Set \/ Drop \/ Ring \/ Hear

Spec == Init /\ [][Next]_alarmVars
===============================================================================
