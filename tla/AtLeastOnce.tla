----------------------------- MODULE AtLeastOnce -----------------------------
(***************************************************************************)
(* What mq-dr-flow's producer promises the drills, with no queue manager,  *)
(* connection or unit of work in sight: messages are made one at a time    *)
(* and in order; the one in flight may be delivered any number of times;   *)
(* it is acknowledged once, and only after it was delivered; no other is   *)
(* made, delivered or acknowledged meanwhile.                              *)
(***************************************************************************)
EXTENDS Integers

CONSTANT Last   \* the last message made

VARIABLES
  made,    \* messages made so far
  cur,     \* the message in flight, 0 when there is none
  wire,    \* how often each message was delivered
  acked    \* how often each message was acknowledged

vars == <<made, cur, wire, acked>>

Ids == 1..Last

Init ==
  /\ made = 0 /\ cur = 0
  /\ wire = [k \in Ids |-> 0] /\ acked = [k \in Ids |-> 0]

Make ==
  /\ cur = 0 /\ made < Last
  /\ made' = made + 1 /\ cur' = made + 1
  /\ UNCHANGED <<wire, acked>>

Deliver ==
  /\ cur # 0
  /\ wire' = [wire EXCEPT ![cur] = @ + 1]
  /\ UNCHANGED <<made, cur, acked>>

Acknowledge ==
  /\ cur # 0 /\ wire[cur] > 0
  /\ acked' = [acked EXCEPT ![cur] = @ + 1] /\ cur' = 0
  /\ UNCHANGED <<made, wire>>

Next == Make \/ Deliver \/ Acknowledge

Spec == Init /\ [][Next]_vars
=============================================================================
