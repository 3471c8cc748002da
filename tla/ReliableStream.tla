---------------------------- MODULE ReliableStream ----------------------------
(***************************************************************************)
(* What the daemons promise between them: the datagrams that one side      *)
(* hands over come out on the other, unchanged, in order, each once.       *)
(***************************************************************************)
EXTENDS Naturals, Sequences

CONSTANT Messages

VARIABLES
  sent,        \* the datagrams handed over
  received     \* the datagrams that came out

streamVars == <<sent, received>>

Init == sent = <<>> /\ received = <<>>

HandOver ==
  /\ \E m \in Messages : sent' = Append(sent, m)
  /\ UNCHANGED received

Deliver ==
  /\ Len(received) < Len(sent)
  /\ received' = Append(received, sent[Len(received) + 1])
  /\ UNCHANGED sent

Next == HandOver \/ Deliver

Spec == Init /\ [][Next]_streamVars

\* What was handed over comes out.
FairSpec == Spec /\ WF_streamVars(Deliver)
===============================================================================
