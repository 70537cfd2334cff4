---------------------------- MODULE AtLeastOnce ----------------------------
(***************************************************************************)
(* What store_and_forward.py promises to the publishers of messages: a     *)
(* durable queue with at-least-once delivery.  Messages are numbers, in    *)
(* the order they are stored; the broker may receive one several times,    *)
(* also after it has left the queue.                                       *)
(***************************************************************************)
EXTENDS Integers

CONSTANT Items  \* the messages that may be stored

VARIABLES
  made,    \* those stored so far
  stored,  \* those still in the queue
  got      \* those the broker has received at least once

vars == <<made, stored, got>>

Init ==
  /\ made = {}
  /\ stored = {}
  /\ got = {}

Store ==
  /\ \E m \in Items :
       /\ \A n \in made : n < m
       /\ made' = made \cup {m}
       /\ stored' = stored \cup {m}
  /\ UNCHANGED got

Receive ==
  /\ \E m \in made : got' = got \cup {m}
  /\ UNCHANGED <<made, stored>>

\* A message leaves the queue only when the broker has it.
Forget ==
  /\ \E m \in stored \cap got : stored' = stored \ {m}
  /\ UNCHANGED <<made, got>>

Next == Store \/ Receive \/ Forget

Spec == Init /\ [][Next]_vars
=============================================================================
