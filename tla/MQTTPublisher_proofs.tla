----------------------- MODULE MQTTPublisher_proofs -----------------------
(***************************************************************************)
(* Proofs about MQTTPublisher for any number of messages, reconnect        *)
(* threads, lost links and crashes: its type, the reconnect flag, that it  *)
(* implements the at-least-once queue (a stored QoS 1 message leaves the   *)
(* outbox only after the broker has received it, whatever else is          *)
(* published) and that the broker receives the stored messages in order.   *)
(* And of MQTTSubscriber, for any topics, calls and outages: the broker    *)
(* has the recorded subscriptions again.                                   *)
(***************************************************************************)
EXTENDS MQTTPublisher, TLAPS

-----------------------------------------------------------------------------
(* Type correctness *)

ThreadRecord == [pc : {"stopped", "test", "try", "mark", "select",
                       "publish", "wait", "dequeue", "finally"},
                 row : Messages \cup {NoRow},
                 todo : SUBSET Messages]

\* The part of TypeOK that the steps of a reconnect thread change.
ThreadOK ==
  /\ thread \in [Threads -> ThreadRecord]
  /\ \A t \in Threads :
       thread[t].pc \in {"publish", "wait", "dequeue"} => thread[t].row # NoRow

\* Moving a thread to a step that needs no row, or that it has a row for.
LEMMA GoType ==
  ASSUME ThreadOK, NEW t \in Threads,
         NEW pc \in {"stopped", "test", "try", "mark", "select",
                     "publish", "wait", "dequeue", "finally"},
         pc \in {"publish", "wait", "dequeue"} => thread[t].row # NoRow,
         Go(t, pc)
  PROVE  ThreadOK'
BY DEF ThreadOK, ThreadRecord, Go

\* Taking the next row, or ending the drain.
LEMMA TakeType ==
  ASSUME ThreadOK, NEW t \in Threads, NEW rows \in SUBSET Messages, Take(t, rows)
  PROVE  ThreadOK'
<1>1. CASE thread' = [thread EXCEPT ![t] = [Stopped EXCEPT !.pc = "finally"]]
  BY <1>1 DEF ThreadOK, ThreadRecord, Stopped
<1>2. ASSUME NEW m \in rows,
             thread' = [thread EXCEPT ![t] = [pc |-> "publish", row |-> m, todo |-> rows \ {m}]]
      PROVE  ThreadOK'
  <2>1. m # NoRow
    BY PublisherAssumption DEF Messages, NoRow
  <2>2. QED BY <1>2, <2>1 DEF ThreadOK, ThreadRecord
<1>3. QED BY <1>1, <1>2 DEF Take

\* The rest of TypeOK.
PlainOK ==
  /\ app \in {"new", "linking", "up", "stopping", "closing", "closed"}
  /\ link \in {"up", "down"}
  /\ callback \in {"none", "clear", "start"}
  /\ connected \in BOOLEAN
  /\ reconnecting \in BOOLEAN
  /\ outbox \subseteq Messages
  /\ inflight \in Seq(Entry)
  /\ received \in Seq(Messages)
  /\ next \in 1..(MaxMsg + 1)
  /\ faults \in Nat

LEMMA TypeParts == TypeOK <=> ThreadOK /\ PlainOK
BY DEF TypeOK, ThreadOK, PlainOK, ThreadRecord

LEMMA ThreadStep ==
  ASSUME TypeOK, [Next]_vars
  PROVE  ThreadOK'
<1>0. ThreadOK /\ outbox \in SUBSET Messages
  BY TypeParts DEF PlainOK
<1>1. CASE UNCHANGED thread
  BY <1>0, <1>1 DEF ThreadOK
<1>2. CASE StartReconnect
  <2>1. CASE reconnecting
    BY <1>1, <1>2, <2>1 DEF StartReconnect
  <2>2. CASE ~reconnecting
    <3>1. PICK t \in Threads : Go(t, "test")
      BY <1>2, <2>2 DEF StartReconnect, Go
    <3>2. QED BY <1>0, <3>1, GoType
  <2>3. QED BY <2>1, <2>2
<1>3. CASE Restart
  BY <1>3 DEF Restart, ThreadOK, ThreadRecord, Stopped
<1>4. ASSUME NEW t \in Threads, ReconnectStep(t) PROVE ThreadOK'
  <2>1. CASE TestConnected(t)
    <3>1. CASE connected
      BY <1>0, <2>1, <3>1, GoType DEF TestConnected
    <3>2. CASE ~connected
      BY <1>0, <2>1, <3>2, GoType DEF TestConnected
    <3>3. QED BY <3>1, <3>2
  <2>2. CASE ReconnectFails(t)
    BY <1>0, <2>2, GoType DEF ReconnectFails
  <2>3. CASE ReconnectSucceeds(t)
    BY <1>0, <2>3, GoType DEF ReconnectSucceeds
  <2>4. CASE SetConnected(t)
    BY <1>0, <2>4, GoType DEF SetConnected
  <2>5. CASE Finally(t)
    BY <1>0, <2>5 DEF Finally, ThreadOK, ThreadRecord, Stopped
  <2>6. CASE SelectRows(t)
    BY <1>0, <2>6, TakeType DEF SelectRows
  <2>7. ASSUME At(t, "publish") \/ At(t, "dequeue"), NextRow(t) PROVE ThreadOK'
    <3>1. thread[t].todo \in SUBSET Messages
      BY <1>0 DEF ThreadOK, ThreadRecord
    <3>2. QED BY <1>0, <2>7, <3>1, TakeType DEF NextRow
  <2>8. CASE PublishRefused(t) \/ PublishUnlinked(t) \/ Dequeue(t)
    BY <2>7, <2>8 DEF PublishRefused, PublishUnlinked, Dequeue
  <2>9. ASSUME At(t, "publish") \/ At(t, "wait"), Go(t, "wait") \/ Go(t, "dequeue")
        PROVE  ThreadOK'
    <3>1. thread[t].row # NoRow
      BY <1>0, <2>9 DEF ThreadOK, At
    <3>2. QED BY <1>0, <2>9, <3>1, GoType
  <2>10. CASE PublishQos0(t) \/ PublishSent(t) \/ Acknowledged(t)
    BY <2>9, <2>10 DEF PublishQos0, PublishSent, Acknowledged
  <2>11. QED
    BY <1>4, <2>1, <2>2, <2>3, <2>4, <2>5, <2>6, <2>8, <2>10 DEF ReconnectStep, Drain
<1>5. CASE ClearConnected
  BY <1>1, <1>5 DEF ClearConnected
<1>6. CASE LoseLink \/ Relink \/ Puback \/ LosePuback
  BY <1>1, <1>6 DEF LoseLink, Relink, Puback, LosePuback
<1>7. CASE Connect \/ ConnectDone \/ Enqueue \/ PublishDirect
  BY <1>1, <1>7 DEF Connect, ConnectDone, Enqueue, PublishDirect
<1>8. CASE Disconnect \/ DisconnectClient \/ DisconnectDone
  BY <1>1, <1>8 DEF Disconnect, DisconnectClient, DisconnectDone
<1>9. CASE UNCHANGED vars
  BY <1>1, <1>9 DEF vars
<1>10. QED
  BY <1>2, <1>3, <1>4, <1>5, <1>6, <1>7, <1>8, <1>9 DEF Next, Callback, Application

\* Elements of the two histories stay in their sets.
LEMMA PlainStep ==
  ASSUME TypeOK, [Next]_vars
  PROVE  PlainOK'
<1>0. ThreadOK /\ PlainOK
  BY TypeParts
<1> USE PublisherAssumption DEF PlainOK, Messages
<1>1. ASSUME NEW t \in Threads, ReconnectStep(t) PROVE PlainOK'
  <2>0. At(t, "publish") => Row(t) \in Messages
    BY <1>0 DEF ThreadOK, ThreadRecord, At, Row
  <2>1. CASE TestConnected(t)
    BY <1>0, <2>1 DEF TestConnected, program, paho
  <2>2. CASE ReconnectFails(t)
    BY <1>0, <2>2 DEF ReconnectFails, program
  <2>3. CASE ReconnectSucceeds(t)
    BY <1>0, <2>3 DEF ReconnectSucceeds, program
  <2>4. CASE SetConnected(t)
    BY <1>0, <2>4 DEF SetConnected, program, paho
  <2>5. CASE Finally(t)
    BY <1>0, <2>5 DEF Finally, program, paho
  <2>6. CASE SelectRows(t)
    BY <1>0, <2>6 DEF SelectRows, program, paho
  <2>7. CASE PublishRefused(t)
    BY <1>0, <2>7 DEF PublishRefused, program, paho
  <2>8. CASE PublishQos0(t)
    <3>1. Append(received, Row(t)) \in Seq(Messages)
      BY <1>0, <2>0, <2>8 DEF PublishQos0
    <3>2. received' \in Seq(Messages)
      BY <1>0, <2>8, <3>1 DEF PublishQos0
    <3>3. QED BY <1>0, <2>8, <3>2 DEF PublishQos0, program
  <2>9. CASE PublishUnlinked(t)
    <3>1. [msg |-> Row(t), waiter |-> NoThread] \in Entry
      BY <2>0, <2>9 DEF PublishUnlinked, Entry
    <3>2. inflight' \in Seq(Entry)
      BY <1>0, <2>9, <3>1 DEF PublishUnlinked
    <3>3. QED BY <1>0, <2>9, <3>2 DEF PublishUnlinked, program
  <2>10. CASE PublishSent(t)
    <3>1. [msg |-> Row(t), waiter |-> t] \in Entry
      BY <2>0, <2>10 DEF PublishSent, Entry
    <3>2. inflight' \in Seq(Entry)
      BY <1>0, <2>10, <3>1 DEF PublishSent
    <3>3. QED BY <1>0, <2>10, <3>2 DEF PublishSent, program
  <2>11. CASE Acknowledged(t)
    BY <1>0, <2>11 DEF Acknowledged, program, paho
  <2>12. CASE Dequeue(t)
    BY <1>0, <2>12 DEF Dequeue, program, paho
  <2>13. QED
    BY <1>1, <2>1, <2>2, <2>3, <2>4, <2>5, <2>6, <2>7, <2>8, <2>9, <2>10, <2>11, <2>12
       DEF ReconnectStep, Drain
<1>2. CASE LoseLink
  BY <1>0, <1>2 DEF LoseLink, program
<1>3. CASE Relink
  BY <1>0, <1>3 DEF Relink, program
<1>4. CASE Puback
  <2>1. Head(inflight) \in Entry /\ Tail(inflight) \in Seq(Entry)
    BY <1>0, <1>4 DEF Puback
  <2>2. Append(received, Head(inflight).msg) \in Seq(Messages)
    BY <1>0, <2>1 DEF Entry
  <2>3. QED BY <1>0, <1>4, <2>1, <2>2 DEF Puback, program
<1>5. CASE LosePuback
  <2>1. Head(inflight) \in Entry
    BY <1>0, <1>5 DEF LosePuback
  <2>2. Append(received, Head(inflight).msg) \in Seq(Messages)
    BY <1>0, <2>1 DEF Entry
  <2>3. QED BY <1>0, <1>5, <2>2 DEF LosePuback, program
<1>6. CASE ClearConnected
  BY <1>0, <1>6 DEF ClearConnected, program, paho
<1>7. CASE StartReconnect
  BY <1>0, <1>7 DEF StartReconnect, program, paho
<1>8. CASE Connect
  BY <1>0, <1>8 DEF Connect
<1>9. CASE ConnectDone
  BY <1>0, <1>9 DEF ConnectDone, paho
<1>10. CASE Enqueue
  BY <1>0, <1>10 DEF Enqueue, paho
<1>11. CASE PublishDirect
  <2>1. [msg |-> next, waiter |-> NoThread] \in Entry
    BY <1>0, <1>11 DEF PublishDirect, Entry
  <2>2. inflight' \in Seq(Entry)
    BY <1>0, <1>11, <2>1 DEF PublishDirect
  <2>3. QED BY <1>0, <1>11, <2>2 DEF PublishDirect
<1>12. CASE Disconnect
  BY <1>0, <1>12 DEF Disconnect, paho
<1>13. CASE DisconnectClient
  BY <1>0, <1>13 DEF DisconnectClient
<1>14. CASE DisconnectDone
  BY <1>0, <1>14 DEF DisconnectDone, paho
<1>15. CASE Restart
  <2>1. inflight' \in Seq(Entry) /\ faults' \in Nat
    BY <1>0, <1>15 DEF Restart
  <2>2. UNCHANGED <<outbox, received, next>>
    BY <1>15 DEF Restart
  <2>3. QED BY <1>0, <1>15, <2>1, <2>2 DEF Restart
<1>16. CASE UNCHANGED vars
  BY <1>0, <1>16 DEF vars
<1>17. QED
  BY <1>1, <1>2, <1>3, <1>4, <1>5, <1>6, <1>7, <1>8, <1>9, <1>10, <1>11, <1>12, <1>13,
     <1>14, <1>15, <1>16 DEF Next, Callback, Application

LEMMA TypeInit == Init => TypeOK
<1> SUFFICES ASSUME Init PROVE TypeOK
  OBVIOUS
<1>1. inflight \in Seq(Entry) /\ received \in Seq(Messages)
  BY DEF Init
<1>2. next \in 1..(MaxMsg + 1) /\ faults \in Nat
  BY PublisherAssumption DEF Init
<1>3. ThreadOK
  BY DEF Init, ThreadOK, ThreadRecord, Stopped, NoRow
<1>4. QED BY <1>1, <1>2, <1>3, TypeParts DEF Init, PlainOK

LEMMA TypeStep == TypeOK /\ [Next]_vars => TypeOK'
<1> SUFFICES ASSUME TypeOK, [Next]_vars PROVE TypeOK'
  OBVIOUS
<1>1. ThreadOK' /\ PlainOK'
  BY ThreadStep, PlainStep
<1>2. QED BY <1>1 DEF TypeOK, ThreadOK, PlainOK, ThreadRecord

\* Every variable keeps its type, and a reconnect thread that publishes, waits
\* or deletes has a row to do it with.
THEOREM TypeCorrect == Spec => []TypeOK
BY TypeInit, TypeStep, PTL DEF Spec

-----------------------------------------------------------------------------
(* One reconnect thread at a time *)

\* The flag is set while a thread is at work: what makes the test in
\* _on_disconnect see it.
FlagSet == \A t \in Threads : thread[t].pc # "stopped" => reconnecting

ReconnectorInv == ThreadOK /\ FlagSet /\ OneReconnector

\* A step that moves a thread already at work, and leaves the flag alone.
LEMMA MovesOneThread ==
  ASSUME ReconnectorInv, ThreadOK', NEW t \in Threads, thread[t].pc # "stopped",
         \A u \in Threads \ {t} : thread'[u] = thread[u], UNCHANGED reconnecting
  PROVE  ReconnectorInv'
BY DEF ReconnectorInv, FlagSet, OneReconnector

LEMMA ReconnectorStep == TypeOK /\ ReconnectorInv /\ [Next]_vars => ReconnectorInv'
<1> SUFFICES ASSUME TypeOK, ReconnectorInv, [Next]_vars PROVE ReconnectorInv'
  OBVIOUS
<1>0. ThreadOK' /\ thread \in [Threads -> ThreadRecord]
  BY ThreadStep DEF ReconnectorInv, ThreadOK
<1>1. CASE UNCHANGED <<thread, reconnecting>>
  BY <1>0, <1>1 DEF ReconnectorInv, FlagSet, OneReconnector
<1>2. CASE StartReconnect
  <2>1. CASE reconnecting
    BY <1>1, <1>2, <2>1 DEF StartReconnect
  <2>2. CASE ~reconnecting
    <3>1. \A u \in Threads : thread[u].pc = "stopped"
      BY <2>2 DEF ReconnectorInv, FlagSet
    <3>2. PICK t \in Threads : thread' = [thread EXCEPT ![t].pc = "test"]
      BY <1>2, <2>2 DEF StartReconnect
    <3>3. \A u \in Threads \ {t} : thread'[u].pc = "stopped"
      BY <1>0, <3>1, <3>2
    <3>4. reconnecting'
      BY <1>2, <2>2 DEF StartReconnect
    <3>5. QED BY <1>0, <3>3, <3>4 DEF ReconnectorInv, FlagSet, OneReconnector
  <2>3. QED BY <2>1, <2>2
<1>3. CASE Restart
  BY <1>0, <1>3 DEF Restart, Stopped, ReconnectorInv, FlagSet, OneReconnector
<1>4. ASSUME NEW t \in Threads, ReconnectStep(t) PROVE ReconnectorInv'
  <2>1. CASE Finally(t)
    <3>1. \A u \in Threads \ {t} : thread[u].pc = "stopped"
      BY <2>1 DEF Finally, At, ReconnectorInv, OneReconnector
    <3>2. \A u \in Threads : thread'[u].pc = "stopped"
      BY <1>0, <2>1, <3>1 DEF Finally, Stopped
    <3>3. QED BY <1>0, <3>2 DEF ReconnectorInv, FlagSet, OneReconnector
  <2>2. CASE ~Finally(t)
    <3>1. \A pc : Go(t, pc) => \A u \in Threads \ {t} : thread'[u] = thread[u]
      BY <1>0 DEF Go
    <3>2. \A rows : Take(t, rows) => \A u \in Threads \ {t} : thread'[u] = thread[u]
      BY <1>0 DEF Take
    <3>3. thread[t].pc # "stopped" /\ UNCHANGED reconnecting
      BY <1>4, <2>2
         DEF ReconnectStep, TestConnected, ReconnectFails, ReconnectSucceeds, SetConnected, Drain,
             SelectRows, PublishRefused, PublishQos0, PublishUnlinked, PublishSent,
             Acknowledged, Dequeue, At
    <3>4. \A u \in Threads \ {t} : thread'[u] = thread[u]
      BY <1>4, <2>2, <3>1, <3>2
         DEF ReconnectStep, TestConnected, ReconnectFails, ReconnectSucceeds, SetConnected, Drain,
             SelectRows, PublishRefused, PublishQos0, PublishUnlinked, PublishSent,
             Acknowledged, Dequeue, NextRow
    <3>5. QED BY <1>0, <3>3, <3>4, MovesOneThread
  <2>3. QED BY <2>1, <2>2
<1>5. CASE ClearConnected
  BY <1>1, <1>5 DEF ClearConnected
<1>6. CASE LoseLink \/ Relink \/ Puback \/ LosePuback
  BY <1>1, <1>6 DEF LoseLink, Relink, Puback, LosePuback
<1>7. CASE Connect \/ ConnectDone \/ Enqueue \/ PublishDirect
  BY <1>1, <1>7 DEF Connect, ConnectDone, Enqueue, PublishDirect
<1>8. CASE Disconnect \/ DisconnectClient \/ DisconnectDone
  BY <1>1, <1>8 DEF Disconnect, DisconnectClient, DisconnectDone
<1>9. CASE UNCHANGED vars
  BY <1>1, <1>9 DEF vars
<1>10. QED
  BY <1>2, <1>3, <1>4, <1>5, <1>6, <1>7, <1>8, <1>9 DEF Next, Callback, Application

\* However links break and disconnect callbacks interleave with a thread that is
\* finishing, two reconnect threads are never at work together.
THEOREM SingleReconnector == Spec => []OneReconnector
<1>1. Init => ReconnectorInv
  BY TypeInit, TypeParts DEF Init, ReconnectorInv, FlagSet, OneReconnector, Stopped
<1>2. ReconnectorInv => OneReconnector
  BY DEF ReconnectorInv
<1>3. QED BY <1>1, <1>2, TypeInit, TypeStep, ReconnectorStep, PTL DEF Spec

-----------------------------------------------------------------------------
(* Sequences as the sets of their elements *)

Elems(s) == {s[i] : i \in 1..Len(s)}

\* Appending adds one element.
LEMMA ElemsAppend ==
  ASSUME NEW S, NEW s \in Seq(S), NEW e \in S
  PROVE  Elems(Append(s, e)) = Elems(s) \cup {e}
<1>1. /\ Len(Append(s, e)) = Len(s) + 1
      /\ \A i \in 1..Len(s) : Append(s, e)[i] = s[i]
      /\ Append(s, e)[Len(s) + 1] = e
  OBVIOUS
<1>2. 1..(Len(s) + 1) = 1..Len(s) \cup {Len(s) + 1}
  OBVIOUS
<1>3. QED BY <1>1, <1>2 DEF Elems

\* The head and the elements of the tail are the elements.
LEMMA ElemsTail ==
  ASSUME NEW S, NEW s \in Seq(S), s # <<>>
  PROVE  Head(s) \in S /\ Tail(s) \in Seq(S) /\ Elems(s) = Elems(Tail(s)) \cup {Head(s)}
<1>1. /\ Len(Tail(s)) = Len(s) - 1 /\ Len(s) >= 1 /\ Head(s) = s[1]
      /\ \A i \in 1..(Len(s) - 1) : Tail(s)[i] = s[i + 1]
      /\ Head(s) \in S /\ Tail(s) \in Seq(S)
  OBVIOUS
<1>2. Elems(Tail(s)) \cup {Head(s)} \subseteq Elems(s)
  BY <1>1 DEF Elems
<1>3. ASSUME NEW i \in 1..Len(s) PROVE s[i] \in Elems(Tail(s)) \cup {Head(s)}
  <2>1. CASE i = 1
    BY <1>1, <2>1
  <2>2. CASE i # 1
    <3>1. i - 1 \in 1..(Len(s) - 1) /\ Tail(s)[i - 1] = s[i]
      BY <1>1, <2>2
    <3>2. QED BY <1>1, <3>1 DEF Elems
  <2>3. QED BY <2>1, <2>2
<1>4. Elems(s) \subseteq Elems(Tail(s)) \cup {Head(s)}
  BY <1>3 DEF Elems
<1>5. QED BY <1>1, <1>2, <1>4

-----------------------------------------------------------------------------
(* The invariant *)

InFlight == Elems(inflight)

\* A thread about to delete its row has seen the PUBACK, unless none is due; a
\* thread waiting for it still has the message in flight, or the broker has it.
RowsDelivered ==
  \A t \in Threads :
    /\ thread[t].pc = "dequeue" => thread[t].row \in Received \cup BestEffort
    /\ thread[t].pc = "wait" =>
         thread[t].row \in Received \/ \E e \in InFlight : e.waiter = t

\* An entry somebody waits for is that thread's row.
WaitersAgree ==
  \A e \in InFlight : e.waiter # NoThread =>
    thread[e.waiter].pc = "wait" /\ thread[e.waiter].row = e.msg

\* Nothing is anywhere before it is made.
MadeFirst ==
  /\ outbox \subseteq 1..(next - 1)
  /\ Received \subseteq 1..(next - 1)
  /\ \A e \in InFlight : e.msg \in 1..(next - 1)
  /\ \A t \in Threads :
       thread[t].row \in 0..(next - 1) /\ thread[t].todo \subseteq 1..(next - 1)

\* A message made for the queue is always in the outbox or with the broker.
NothingLost == \A m \in Durable \cap 1..(next - 1) : m \in outbox \cup Received

DeliveryInv == TypeOK /\ RowsDelivered /\ WaitersAgree /\ MadeFirst /\ NothingLost

\* What the invariant knows of types.
LEMMA DeliveryTypes ==
  ASSUME DeliveryInv
  PROVE  /\ thread \in [Threads -> ThreadRecord]
         /\ \A t \in Threads : At(t, "publish") => thread[t].row \in Messages
         /\ inflight \in Seq(Entry)
         /\ received \in Seq(Messages)
         /\ next \in Nat \ {0}
         /\ Received = Elems(received)
BY TypeParts, PublisherAssumption
   DEF DeliveryInv, ThreadOK, ThreadRecord, PlainOK, Messages, At, Received, Elems

\* A step of one thread that neither sends nor deletes, and does not start a
\* wait or a deletion.
LEMMA ThreadMoves ==
  ASSUME DeliveryInv, TypeOK', NEW t \in Threads,
         UNCHANGED <<outbox, inflight, received, next>>,
         \A u \in Threads \ {t} : thread'[u] = thread[u],
         thread[t].pc # "wait", thread'[t].pc \notin {"wait", "dequeue"},
         thread'[t].row \in 0..(next - 1), thread'[t].todo \subseteq 1..(next - 1)
  PROVE  DeliveryInv'
<1>1. RowsDelivered'
  BY DEF DeliveryInv, RowsDelivered, InFlight, Received
<1>2. WaitersAgree'
  <2> SUFFICES ASSUME NEW e \in InFlight, e.waiter # NoThread
               PROVE  thread'[e.waiter].pc = "wait" /\ thread'[e.waiter].row = e.msg
    BY DEF WaitersAgree, InFlight
  <2>1. e \in Entry
    <3>1. inflight \in Seq(Entry)
      BY DeliveryTypes
    <3>2. QED BY <3>1 DEF InFlight, Elems
  <2>2. e.waiter \in Threads /\ thread[e.waiter].pc = "wait"
    BY <2>1 DEF Entry, DeliveryInv, WaitersAgree
  <2>3. QED BY <2>2 DEF DeliveryInv, WaitersAgree
<1>3. MadeFirst'
  BY DEF DeliveryInv, MadeFirst, InFlight, Received
<1>4. NothingLost'
  BY DEF DeliveryInv, NothingLost, Received
<1>5. QED BY <1>1, <1>2, <1>3, <1>4 DEF DeliveryInv

\* Where drain goes after a row.
LEMMA TakeMoves ==
  ASSUME DeliveryInv, NEW t \in Threads, NEW rows, rows \subseteq 1..(next - 1), Take(t, rows)
  PROVE  /\ \A u \in Threads \ {t} : thread'[u] = thread[u]
         /\ thread'[t].pc \in {"publish", "finally"}
         /\ thread'[t].row \in 0..(next - 1) /\ thread'[t].todo \subseteq 1..(next - 1)
<1>1. thread \in [Threads -> ThreadRecord] /\ next \in Nat \ {0}
  BY DeliveryTypes
<1>2. CASE thread' = [thread EXCEPT ![t] = [Stopped EXCEPT !.pc = "finally"]]
  BY <1>1, <1>2 DEF Stopped, NoRow
<1>3. ASSUME NEW m \in rows,
             thread' = [thread EXCEPT ![t] = [pc |-> "publish", row |-> m, todo |-> rows \ {m}]]
      PROVE  /\ \A u \in Threads \ {t} : thread'[u] = thread[u]
             /\ thread'[t].pc \in {"publish", "finally"}
             /\ thread'[t].row \in 0..(next - 1) /\ thread'[t].todo \subseteq 1..(next - 1)
  <2>1. thread'[t] = [pc |-> "publish", row |-> m, todo |-> rows \ {m}]
        /\ \A u \in Threads \ {t} : thread'[u] = thread[u]
    BY <1>1, <1>3
  <2>2. m \in 0..(next - 1) /\ rows \ {m} \subseteq 1..(next - 1)
    BY <1>1
  <2>3. QED BY <2>1, <2>2
<1>4. QED BY <1>2, <1>3 DEF Take

\* Moving to another step keeps the row.
LEMMA GoMoves ==
  ASSUME DeliveryInv, NEW t \in Threads, NEW pc, Go(t, pc)
  PROVE  /\ \A u \in Threads \ {t} : thread'[u] = thread[u]
         /\ thread'[t].pc = pc /\ thread'[t].row = thread[t].row
         /\ thread'[t].todo = thread[t].todo
         /\ thread[t].row \in 0..(next - 1) /\ thread[t].todo \subseteq 1..(next - 1)
<1>1. thread \in [Threads -> ThreadRecord]
  BY DeliveryTypes
<1>2. QED BY <1>1 DEF Go, ThreadRecord, DeliveryInv, MadeFirst

-----------------------------------------------------------------------------
(* Induction *)

LEMMA DeliveryInit == Init => DeliveryInv
<1> SUFFICES ASSUME Init PROVE DeliveryInv
  OBVIOUS
<1>1. InFlight = {} /\ Received = {} /\ outbox = {} /\ next = 1
  BY DEF Init, InFlight, Elems, Received
<1>2. \A t \in Threads : thread[t] = Stopped
  BY DEF Init
<1>3. QED
  BY <1>1, <1>2, TypeInit
     DEF DeliveryInv, RowsDelivered, WaitersAgree, MadeFirst, NothingLost, Stopped, NoRow

\* A step that touches neither threads, messages nor outbox.
LEMMA DeliveryQuiet ==
  ASSUME DeliveryInv, TypeOK', UNCHANGED <<thread, outbox, inflight, received, next>>
  PROVE  DeliveryInv'
BY DEF DeliveryInv, RowsDelivered, WaitersAgree, MadeFirst, NothingLost, InFlight, Received

\* The broker receives the message at the head of paho's queue, which stays
\* there or leaves.
LEMMA DeliveryReceive ==
  ASSUME DeliveryInv, TypeOK', inflight # <<>>,
         received' = Append(received, Head(inflight).msg),
         inflight' = Tail(inflight) \/ inflight' = inflight,
         UNCHANGED <<thread, outbox, next>>
  PROVE  DeliveryInv' /\ \E m \in 1..(next - 1) : Received' = Received \cup {m}
<1> DEFINE e == Head(inflight)
<1>1. /\ inflight \in Seq(Entry) /\ received \in Seq(Messages)
      /\ Received = Elems(received) /\ Received' = Elems(received')
  BY DeliveryTypes DEF Received, Elems
<1>2. e \in Entry /\ InFlight = Elems(Tail(inflight)) \cup {e}
  BY <1>1, ElemsTail DEF InFlight
<1>3. Received' = Received \cup {e.msg}
  <2>1. e.msg \in Messages
    BY <1>2 DEF Entry
  <2>2. QED BY <1>1, <2>1, ElemsAppend
<1>4. e.msg \in 1..(next - 1)
  BY <1>2 DEF DeliveryInv, MadeFirst
<1>5. InFlight' \subseteq InFlight /\ InFlight \subseteq InFlight' \cup {e}
  BY <1>2 DEF InFlight
<1> HIDE DEF e
<1>6. RowsDelivered'
  <2> SUFFICES ASSUME NEW t \in Threads, thread[t].pc = "wait", thread[t].row \notin Received'
               PROVE  \E f \in InFlight' : f.waiter = t
    BY <1>3 DEF DeliveryInv, RowsDelivered
  <2>1. PICK f \in InFlight : f.waiter = t
    BY <1>3 DEF DeliveryInv, RowsDelivered
  <2>2. t # NoThread
    BY PublisherAssumption
  <2>3. f # e
    BY <1>3, <2>1, <2>2 DEF DeliveryInv, WaitersAgree
  <2>4. QED BY <1>5, <2>1, <2>3
<1>7. WaitersAgree'
  BY <1>5 DEF DeliveryInv, WaitersAgree
<1>8. MadeFirst'
  BY <1>3, <1>4, <1>5 DEF DeliveryInv, MadeFirst
<1>9. NothingLost'
  BY <1>3 DEF DeliveryInv, NothingLost
<1>10. QED BY <1>3, <1>4, <1>6, <1>7, <1>8, <1>9 DEF DeliveryInv

\* paho takes a message of thread t, which waits for it or goes on.
LEMMA DeliverySend ==
  ASSUME DeliveryInv, TypeOK', NEW t \in Threads, At(t, "publish"),
         NEW w \in {t, NoThread},
         inflight' = Append(inflight, [msg |-> Row(t), waiter |-> w]),
         UNCHANGED <<outbox, received, next>>,
         \/ w = t /\ Go(t, "wait")
         \/ w = NoThread /\ NextRow(t)
  PROVE  DeliveryInv'
<1> DEFINE e == [msg |-> Row(t), waiter |-> w]
<1>1. /\ inflight \in Seq(Entry) /\ thread[t].row \in Messages
      /\ thread \in [Threads -> ThreadRecord] /\ next \in Nat \ {0}
  BY DeliveryTypes
<1>2. e \in Entry
  BY <1>1 DEF Entry, Row
<1>3. InFlight' = InFlight \cup {e}
  BY <1>1, <1>2, ElemsAppend DEF InFlight
<1>4. /\ \A u \in Threads \ {t} : thread'[u] = thread[u]
      /\ thread'[t].row \in 0..(next - 1) /\ thread'[t].todo \subseteq 1..(next - 1)
      /\ w = t => thread'[t].pc = "wait" /\ thread'[t].row = Row(t)
      /\ w = NoThread => thread'[t].pc \in {"publish", "finally"}
  <2>1. thread[t].todo \subseteq 1..(next - 1)
    BY DEF DeliveryInv, MadeFirst
  <2>2. t # NoThread
    BY PublisherAssumption
  <2>3. QED BY <2>1, <2>2, TakeMoves, GoMoves DEF NextRow, Row
<1>5. \A f \in InFlight : f.waiter # NoThread => f.waiter \in Threads \ {t}
  <2>1. InFlight \subseteq Entry
    BY <1>1 DEF InFlight, Elems
  <2>2. QED BY <2>1 DEF Entry, DeliveryInv, WaitersAgree, At
<1>6. e.waiter = w /\ e.msg = Row(t)
  OBVIOUS
<1>7. Row(t) \in 1..(next - 1)
  BY <1>1, PublisherAssumption DEF DeliveryInv, MadeFirst, Row, Messages
<1> HIDE DEF e
<1>8. RowsDelivered'
  <2>1. ASSUME NEW u \in Threads \ {t}
        PROVE  /\ thread'[u].pc = "dequeue" => thread'[u].row \in Received' \cup BestEffort
               /\ thread'[u].pc = "wait" =>
                    thread'[u].row \in Received' \/ \E f \in InFlight' : f.waiter = u
    BY <1>3, <1>4 DEF DeliveryInv, RowsDelivered, Received
  <2>2. thread'[t].pc # "dequeue" /\ (thread'[t].pc = "wait" => \E f \in InFlight' : f.waiter = t)
    BY <1>3, <1>4, <1>6
  <2>3. QED BY <2>1, <2>2 DEF RowsDelivered
<1>9. WaitersAgree'
  <2> SUFFICES ASSUME NEW f \in InFlight', f.waiter # NoThread
               PROVE  thread'[f.waiter].pc = "wait" /\ thread'[f.waiter].row = f.msg
    BY DEF WaitersAgree
  <2>1. CASE f = e
    BY <1>4, <1>6, <2>1
  <2>2. CASE f \in InFlight
    BY <1>4, <1>5, <2>2 DEF DeliveryInv, WaitersAgree
  <2>3. QED BY <1>3, <2>1, <2>2
<1>10. MadeFirst'
  BY <1>3, <1>4, <1>6, <1>7 DEF DeliveryInv, MadeFirst, Received
<1>11. NothingLost'
  BY DEF DeliveryInv, NothingLost, Received
<1>12. QED BY <1>8, <1>9, <1>10, <1>11 DEF DeliveryInv

\* Deleting a row the broker has.
LEMMA DeliveryDelete ==
  ASSUME DeliveryInv, TypeOK', NEW t \in Threads, Dequeue(t)
  PROVE  /\ DeliveryInv'
         /\ outbox' = outbox \ {Row(t)} /\ Row(t) \in Received \cup BestEffort
<1>1. Row(t) \in Received \cup BestEffort /\ thread[t].todo \subseteq 1..(next - 1)
  BY DEF DeliveryInv, RowsDelivered, MadeFirst, Dequeue, At, Row
<1>2. /\ outbox' = outbox \ {Row(t)} /\ UNCHANGED <<inflight, received, next>>
      /\ At(t, "dequeue") /\ Take(t, thread[t].todo)
  BY DEF Dequeue, NextRow, program, paho
<1>3. /\ \A u \in Threads \ {t} : thread'[u] = thread[u]
      /\ thread'[t].pc \in {"publish", "finally"}
      /\ thread'[t].row \in 0..(next - 1) /\ thread'[t].todo \subseteq 1..(next - 1)
  BY <1>1, <1>2, TakeMoves
<1>4. RowsDelivered'
  BY <1>2, <1>3 DEF DeliveryInv, RowsDelivered, InFlight, Received
<1>5. WaitersAgree'
  <2> SUFFICES ASSUME NEW e \in InFlight, e.waiter # NoThread
               PROVE  thread'[e.waiter].pc = "wait" /\ thread'[e.waiter].row = e.msg
    BY <1>2 DEF WaitersAgree, InFlight
  <2>1. inflight \in Seq(Entry)
    BY DeliveryTypes
  <2>2. e.waiter \in Threads \ {t}
    <3>1. e \in Entry
      BY <2>1 DEF InFlight, Elems
    <3>2. e.waiter \in Threads
      BY <3>1 DEF Entry
    <3>3. thread[e.waiter].pc = "wait" /\ thread[t].pc = "dequeue"
      BY <1>2 DEF DeliveryInv, WaitersAgree, At
    <3>4. QED BY <3>2, <3>3
  <2>3. QED BY <1>3, <2>2 DEF DeliveryInv, WaitersAgree
<1>6. MadeFirst'
  BY <1>2, <1>3 DEF DeliveryInv, MadeFirst, InFlight, Received
<1>7. NothingLost'
  BY <1>1, <1>2 DEF DeliveryInv, NothingLost, Received, Durable
<1>8. QED BY <1>1, <1>2, <1>4, <1>5, <1>6, <1>7 DEF DeliveryInv

\* A step of the queue, or one it does not see.
QueueStep == Queue!Next \/ UNCHANGED Queue!vars

\* What the queue does not see.
LEMMA QueueQuiet ==
  ASSUME UNCHANGED <<outbox, next>>, Received' = Received
  PROVE  QueueStep
BY DEF QueueStep, Queue!vars

\* The broker receives a message.
LEMMA QueueReceives ==
  ASSUME UNCHANGED <<outbox, next>>,
         NEW m \in 1..(next - 1), Received' = Received \cup {m}
  PROVE  QueueStep
<1>1. CASE m \in Durable
  <2>1. Durable \cap Received' = (Durable \cap Received) \cup {m}
    BY <1>1
  <2>2. Queue!Receive
    BY <1>1, <2>1 DEF Queue!Receive
  <2>3. QED BY <2>2 DEF QueueStep, Queue!Next
<1>2. CASE m \notin Durable
  <2>1. Durable \cap Received' = Durable \cap Received
    BY <1>2
  <2>2. QED BY <2>1 DEF QueueStep, Queue!vars
<1>3. QED BY <1>1, <1>2

\* The next message is numbered.
LEMMA NextGrows ==
  ASSUME next \in Nat \ {0}, next' = next + 1
  PROVE  /\ 1..(next' - 1) = 1..(next - 1) \cup {next}
         /\ 0..(next - 1) \subseteq 0..(next' - 1)
OBVIOUS

\* A stored message.
LEMMA DeliveryStore ==
  ASSUME DeliveryInv, TypeOK', Enqueue
  PROVE  DeliveryInv' /\ QueueStep
<1>1. /\ next' = next + 1 /\ outbox' = outbox \cup {next}
      /\ UNCHANGED <<thread, inflight, received>> /\ next \in Nat \ {0}
  BY DeliveryTypes DEF Enqueue, paho
<1>2. 1..(next' - 1) = 1..(next - 1) \cup {next} /\ 0..(next - 1) \subseteq 0..(next' - 1)
  BY <1>1, NextGrows
<1>3. RowsDelivered' /\ WaitersAgree'
  BY <1>1 DEF DeliveryInv, RowsDelivered, WaitersAgree, InFlight, Received
<1>4. MadeFirst'
  BY <1>1, <1>2 DEF DeliveryInv, MadeFirst, InFlight, Received
<1>5. NothingLost'
  BY <1>1, <1>2 DEF DeliveryInv, NothingLost, Received
<1>6. CASE next \in Durable
  <2>1. /\ Durable \cap 1..(next' - 1) = (Durable \cap 1..(next - 1)) \cup {next}
        /\ Durable \cap outbox' = (Durable \cap outbox) \cup {next}
        /\ UNCHANGED (Durable \cap Received)
    BY <1>1, <1>2, <1>6 DEF Received
  <2>2. \A n \in Durable \cap 1..(next - 1) : n < next
    BY <1>1
  <2>3. Queue!Store
    BY <1>6, <2>1, <2>2 DEF Queue!Store
  <2>4. QED BY <1>3, <1>4, <1>5, <2>3 DEF DeliveryInv, QueueStep, Queue!Next
<1>7. CASE next \notin Durable
  <2>1. /\ Durable \cap 1..(next' - 1) = Durable \cap 1..(next - 1)
        /\ Durable \cap outbox' = Durable \cap outbox
        /\ UNCHANGED (Durable \cap Received)
    BY <1>1, <1>2, <1>7 DEF Received
  <2>2. UNCHANGED Queue!vars
    BY <2>1 DEF Queue!vars
  <2>3. QED BY <1>3, <1>4, <1>5, <2>2 DEF DeliveryInv, QueueStep
<1>8. QED BY <1>6, <1>7

\* A message published past the outbox.
LEMMA DeliveryDirect ==
  ASSUME DeliveryInv, TypeOK', PublishDirect
  PROVE  DeliveryInv' /\ QueueStep
<1> DEFINE e == [msg |-> next, waiter |-> NoThread]
<1>1. /\ next' = next + 1 /\ next \in Direct /\ next \in Nat \ {0} /\ next \in Messages
      /\ inflight' = Append(inflight, e) /\ inflight \in Seq(Entry)
      /\ UNCHANGED <<thread, outbox, received>>
  BY DeliveryTypes, PublisherAssumption DEF PublishDirect
<1>2. 1..(next' - 1) = 1..(next - 1) \cup {next} /\ 0..(next - 1) \subseteq 0..(next' - 1)
  BY <1>1, NextGrows
<1>3. e \in Entry /\ e.waiter = NoThread /\ e.msg = next
  BY <1>1 DEF Entry
<1>4. InFlight' = InFlight \cup {e}
  BY <1>1, <1>3, ElemsAppend DEF InFlight
<1> HIDE DEF e
<1>5. RowsDelivered'
  BY <1>1, <1>4 DEF DeliveryInv, RowsDelivered, Received
<1>6. WaitersAgree'
  BY <1>1, <1>3, <1>4 DEF DeliveryInv, WaitersAgree
<1>7. MadeFirst'
  BY <1>1, <1>2, <1>3, <1>4 DEF DeliveryInv, MadeFirst, Received
<1>8. next \notin Durable
  BY <1>1 DEF Durable
<1>9. NothingLost'
  BY <1>1, <1>2, <1>8 DEF DeliveryInv, NothingLost, Received
<1>10. Durable \cap 1..(next' - 1) = Durable \cap 1..(next - 1)
  BY <1>2, <1>8
<1>11. UNCHANGED Queue!vars
  BY <1>1, <1>10 DEF Queue!vars, Received
<1>12. QED BY <1>5, <1>6, <1>7, <1>9, <1>11 DEF DeliveryInv, QueueStep

\* A row published with QoS 0: the broker may have received it, and the row is
\* deleted next.
LEMMA DeliveryQos0 ==
  ASSUME DeliveryInv, TypeOK', NEW t \in Threads, PublishQos0(t)
  PROVE  DeliveryInv' /\ QueueStep
<1>1. /\ UNCHANGED <<outbox, inflight, next>> /\ Go(t, "dequeue") /\ At(t, "publish")
      /\ Row(t) \in BestEffort
      /\ received' = Append(received, Row(t)) \/ received' = received
  BY DEF PublishQos0, program
<1>2. /\ received \in Seq(Messages) /\ Received = Elems(received) /\ Received' = Elems(received')
      /\ thread[t].row \in Messages /\ next \in Nat \ {0}
      /\ InFlight \subseteq Entry
  BY <1>1, DeliveryTypes DEF Received, Elems, InFlight
<1>3. Row(t) \in 1..(next - 1)
  BY <1>2, PublisherAssumption DEF DeliveryInv, MadeFirst, Row, Messages
<1>4. Received' = Received \/ Received' = Received \cup {Row(t)}
  <2>1. Row(t) \in Messages
    BY <1>2 DEF Row
  <2>2. Elems(Append(received, Row(t))) = Elems(received) \cup {Row(t)}
    BY <1>2, <2>1, ElemsAppend
  <2>3. QED BY <1>1, <1>2, <2>2
<1>5. /\ \A u \in Threads \ {t} : thread'[u] = thread[u]
      /\ thread'[t].pc = "dequeue" /\ thread'[t].row = Row(t)
      /\ thread'[t].row \in 0..(next - 1) /\ thread'[t].todo \subseteq 1..(next - 1)
  BY <1>1, GoMoves DEF Row
<1>6. RowsDelivered'
  BY <1>1, <1>4, <1>5 DEF DeliveryInv, RowsDelivered, InFlight
<1>7. WaitersAgree'
  BY <1>1, <1>2, <1>5 DEF DeliveryInv, WaitersAgree, InFlight, Entry, At
<1>8. MadeFirst'
  BY <1>1, <1>3, <1>4, <1>5 DEF DeliveryInv, MadeFirst, InFlight
<1>9. NothingLost'
  BY <1>1, <1>4 DEF DeliveryInv, NothingLost
<1>10. QueueStep
  BY <1>1, <1>3, <1>4, QueueQuiet, QueueReceives
<1>11. QED BY <1>6, <1>7, <1>8, <1>9, <1>10 DEF DeliveryInv

LEMMA DeliveryStep ==
  ASSUME DeliveryInv, [Next]_vars
  PROVE  DeliveryInv' /\ QueueStep
<1>0. TypeOK'
  BY TypeStep DEF DeliveryInv
<1>1. ASSUME UNCHANGED <<outbox, received, next>> PROVE QueueStep
  BY <1>1, QueueQuiet DEF Received
<1>2. CASE Puback \/ LosePuback
  <2>1. DeliveryInv' /\ \E m \in 1..(next - 1) : Received' = Received \cup {m}
    BY <1>0, <1>2, DeliveryReceive DEF Puback, LosePuback, program
  <2>2. UNCHANGED <<outbox, next>>
    BY <1>2 DEF Puback, LosePuback, program
  <2>3. QED BY <2>1, <2>2, QueueReceives
<1>3. CASE LoseLink \/ Relink \/ ClearConnected
  BY <1>0, <1>1, <1>3, DeliveryQuiet DEF LoseLink, Relink, ClearConnected, program, paho
<1>4. CASE Connect \/ ConnectDone \/ Disconnect \/ DisconnectClient \/ DisconnectDone
  BY <1>0, <1>1, <1>4, DeliveryQuiet
     DEF Connect, ConnectDone, Disconnect, DisconnectClient, DisconnectDone, paho
<1>5. CASE UNCHANGED vars
  BY <1>0, <1>1, <1>5, DeliveryQuiet DEF vars
<1>6. CASE PublishDirect
  BY <1>0, <1>6, DeliveryDirect
<1>7. CASE Enqueue
  BY <1>0, <1>7, DeliveryStore
<1>8. CASE StartReconnect
  <2>1. UNCHANGED <<outbox, inflight, received, next>>
    BY <1>8 DEF StartReconnect, program, paho
  <2>2. CASE UNCHANGED thread
    BY <1>0, <1>1, <2>1, <2>2, DeliveryQuiet
  <2>3. ASSUME NEW t \in Threads, thread[t].pc = "stopped", Go(t, "test")
        PROVE  DeliveryInv' /\ QueueStep
    BY <1>0, <1>1, <2>1, <2>3, GoMoves, ThreadMoves
  <2>4. QED BY <1>8, <2>2, <2>3 DEF StartReconnect, Go
<1>9. CASE Restart
  <2>1. /\ UNCHANGED <<outbox, received, next>> /\ inflight' = <<>>
        /\ \A t \in Threads : thread'[t] = Stopped
    BY <1>9 DEF Restart
  <2>2. InFlight' = {} /\ Received' = Received
    BY <2>1 DEF InFlight, Elems, Received
  <2>3. RowsDelivered' /\ WaitersAgree'
    BY <2>1, <2>2 DEF RowsDelivered, WaitersAgree, Stopped
  <2>4. next \in Nat \ {0}
    BY DeliveryTypes
  <2>5. MadeFirst' /\ NothingLost'
    BY <2>1, <2>2, <2>4 DEF DeliveryInv, MadeFirst, NothingLost, Stopped, NoRow
  <2>6. QED BY <1>0, <1>1, <2>1, <2>3, <2>5 DEF DeliveryInv
<1>10. ASSUME NEW t \in Threads, ReconnectStep(t) PROVE DeliveryInv' /\ QueueStep
  <2>1. ASSUME UNCHANGED <<outbox, inflight, received, next>>, thread[t].pc # "wait",
               NEW pc \in {"finally", "test", "try", "mark", "select"}, Go(t, pc)
        PROVE  DeliveryInv' /\ QueueStep
    BY <1>0, <1>1, <2>1, GoMoves, ThreadMoves
  <2>2. ASSUME UNCHANGED <<outbox, inflight, received, next>>, thread[t].pc # "wait",
               NEW rows, rows \subseteq 1..(next - 1), Take(t, rows)
        PROVE  DeliveryInv' /\ QueueStep
    BY <1>0, <1>1, <2>2, TakeMoves, ThreadMoves
  <2>3. CASE TestConnected(t)
    <3>1. CASE connected
      BY <2>1, <2>3, <3>1 DEF TestConnected, At, program, paho
    <3>2. CASE ~connected
      BY <2>1, <2>3, <3>2 DEF TestConnected, At, program, paho
    <3>3. QED BY <3>1, <3>2
  <2>4. CASE ReconnectFails(t) \/ ReconnectSucceeds(t) \/ SetConnected(t)
    BY <2>1, <2>4 DEF ReconnectFails, ReconnectSucceeds, SetConnected, At, program, paho
  <2>5. CASE Finally(t)
    <3>1. /\ UNCHANGED <<outbox, inflight, received, next>> /\ thread[t].pc # "wait"
          /\ thread' = [thread EXCEPT ![t] = Stopped]
      BY <2>5 DEF Finally, At, program, paho
    <3>2. thread \in [Threads -> ThreadRecord] /\ next \in Nat \ {0}
      BY DeliveryTypes
    <3>3. thread'[t] = Stopped /\ \A u \in Threads \ {t} : thread'[u] = thread[u]
      BY <3>1, <3>2
    <3>4. /\ Stopped.pc = "stopped" /\ Stopped.row \in 0..(next - 1)
          /\ Stopped.todo \subseteq 1..(next - 1)
      BY <3>2 DEF Stopped, NoRow
    <3>5. QED BY <1>0, <1>1, <3>1, <3>3, <3>4, ThreadMoves
  <2>6. CASE SelectRows(t)
    <3>1. outbox \subseteq 1..(next - 1)
      BY DEF DeliveryInv, MadeFirst
    <3>2. QED BY <2>2, <2>6, <3>1 DEF SelectRows, At, program, paho
  <2>7. CASE PublishRefused(t)
    <3>1. thread[t].todo \subseteq 1..(next - 1)
      BY DEF DeliveryInv, MadeFirst
    <3>2. QED BY <2>2, <2>7, <3>1 DEF PublishRefused, NextRow, At, program, paho
  <2>8. CASE PublishQos0(t)
    BY <1>0, <2>8, DeliveryQos0
  <2>9. CASE PublishUnlinked(t)
    BY <1>0, <1>1, <2>9, DeliverySend DEF PublishUnlinked, program
  <2>10. CASE PublishSent(t)
    BY <1>0, <1>1, <2>10, DeliverySend DEF PublishSent, program
  <2>11. CASE Acknowledged(t)
    <3>1. /\ UNCHANGED <<outbox, inflight, received, next>> /\ Go(t, "dequeue")
          /\ thread[t].pc = "wait" /\ \A e \in InFlight : e.waiter # t
      BY <2>11 DEF Acknowledged, At, InFlight, Elems, program, paho
    <3>2. thread[t].row \in Received \cup BestEffort
      BY <3>1 DEF DeliveryInv, RowsDelivered
    <3>3. /\ \A u \in Threads \ {t} : thread'[u] = thread[u]
          /\ thread'[t].pc = "dequeue" /\ thread'[t].row = thread[t].row
          /\ thread'[t].todo = thread[t].todo
      BY <3>1, GoMoves
    <3>4. RowsDelivered'
      BY <3>1, <3>2, <3>3 DEF DeliveryInv, RowsDelivered, InFlight, Received
    <3>5. InFlight \subseteq Entry
      BY DeliveryTypes DEF InFlight, Elems
    <3>6. WaitersAgree'
      BY <3>1, <3>3, <3>5 DEF DeliveryInv, WaitersAgree, InFlight, Entry
    <3>7. MadeFirst' /\ NothingLost'
      BY <3>1, <3>3 DEF DeliveryInv, MadeFirst, NothingLost, InFlight, Received
    <3>8. QED BY <1>0, <1>1, <3>1, <3>4, <3>6, <3>7 DEF DeliveryInv
  <2>12. CASE Dequeue(t)
    <3>1. DeliveryInv' /\ outbox' = outbox \ {Row(t)} /\ Row(t) \in Received \cup BestEffort
      BY <1>0, <2>12, DeliveryDelete
    <3>2. UNCHANGED next /\ Received' = Received
      BY <2>12 DEF Dequeue, program, paho, Received
    <3>3. CASE Row(t) \in Durable \cap outbox
      <4>1. Row(t) \in (Durable \cap outbox) \cap (Durable \cap Received)
        BY <3>1, <3>3 DEF Durable
      <4>2. Durable \cap outbox' = (Durable \cap outbox) \ {Row(t)}
        BY <3>1
      <4>3. Queue!Forget
        BY <3>2, <4>1, <4>2 DEF Queue!Forget
      <4>4. QED BY <3>1, <4>3 DEF QueueStep, Queue!Next
    <3>4. CASE Row(t) \notin Durable \cap outbox
      <4>1. Durable \cap outbox' = Durable \cap outbox
        BY <3>1, <3>4
      <4>2. QED BY <3>1, <3>2, <4>1 DEF QueueStep, Queue!vars
    <3>5. QED BY <3>3, <3>4
  <2>13. QED
    BY <1>10, <2>3, <2>4, <2>5, <2>6, <2>7, <2>8, <2>9, <2>10, <2>11, <2>12
       DEF ReconnectStep, Drain
<1>11. QED
  BY <1>2, <1>3, <1>4, <1>5, <1>6, <1>7, <1>8, <1>9, <1>10 DEF Next, Callback, Application

-----------------------------------------------------------------------------
\* A message stored to be sent with QoS 1 is in the outbox or with the broker at
\* every moment, whatever links, threads and crashes do.
THEOREM StoredNotLost == Spec => []NothingLost
<1>1. DeliveryInv => NothingLost
  BY DEF DeliveryInv
<1>2. DeliveryInv /\ [Next]_vars => DeliveryInv'
  BY DeliveryStep
<1>3. QED BY <1>1, <1>2, DeliveryInit, PTL DEF Spec

\* The publisher with its outbox implements the at-least-once queue: the step
\* that deletes the row of a QoS 1 message is a Forget of one the broker has.
THEOREM QueueImplemented == Spec => ImplementsQueue
<1>1. Init => Queue!Init
  <2> SUFFICES ASSUME Init PROVE Queue!Init
    OBVIOUS
  <2>1. next = 1 /\ outbox = {} /\ Received = {}
    BY DEF Init, Received
  <2>2. QED BY <2>1 DEF Queue!Init
<1>2. DeliveryInv /\ [Next]_vars => DeliveryInv' /\ [Queue!Next]_(Queue!vars)
  BY DeliveryStep DEF QueueStep
<1>3. QED BY <1>1, <1>2, DeliveryInit, PTL DEF Spec, ImplementsQueue, Queue!Spec

-----------------------------------------------------------------------------
(* First in, first out *)

\* What has been handed to paho or received: it is not overtaken any more.
Reached == Received \cup {e.msg : e \in InFlight}

\* A thread in the loop of drain, and the rows it has before it.
Draining(t) == thread[t].pc \in {"publish", "wait", "dequeue"}
Rows(t) == {thread[t].row} \cup thread[t].todo

\* When the link outlives connect(), no thread is at work before it has returned.
AtWorkOnlyUp ==
  app \in {"new", "linking"} => callback = "none" /\ \A t \in Threads : thread[t].pc = "stopped"

\* The rows are taken by age.
OldestFirst == \A t \in Threads : Draining(t) => \A m \in thread[t].todo : thread[t].row < m

\* As long as the publisher is connected, a drain has passed over no row: the
\* message of each has reached paho or is still before it.
DrainComplete ==
  \A t \in Threads : Draining(t) /\ connected =>
    \A m \in Rows(t), n \in Durable : n < m => n \in Rows(t) \cup Reached

\* What is in flight has everything older before it.
FlightInOrder ==
  \A p \in 1..Len(inflight), n \in Durable :
    inflight[p].msg \in Durable /\ n < inflight[p].msg =>
      n \in Received \/ \E q \in 1..(p - 1) : inflight[q].msg = n

OrderInv == AtWorkOnlyUp /\ OldestFirst /\ DrainComplete /\ FlightInOrder /\ InOrder

\* The rows that a drain takes up.
LEMMA TakeRows ==
  ASSUME thread \in [Threads -> ThreadRecord], NEW t \in Threads,
         NEW rows \in SUBSET Messages, Take(t, rows), Draining(t)'
  PROVE  /\ Rows(t)' = rows
         /\ \A m \in thread'[t].todo : thread'[t].row < m
<1>1. CASE thread' = [thread EXCEPT ![t] = [Stopped EXCEPT !.pc = "finally"]]
  <2>1. thread'[t].pc = "finally"
    BY <1>1 DEF Stopped
  <2>2. QED BY <2>1 DEF Draining
<1>2. ASSUME NEW m \in rows, \A n \in rows : m <= n,
             thread' = [thread EXCEPT ![t] = [pc |-> "publish", row |-> m, todo |-> rows \ {m}]]
      PROVE  Rows(t)' = rows /\ \A n \in thread'[t].todo : thread'[t].row < n
  <2>1. thread'[t].row = m /\ thread'[t].todo = rows \ {m}
    BY <1>2
  <2>2. \A n \in rows \ {m} : m < n
    BY <1>2, PublisherAssumption DEF Messages
  <2>3. QED BY <2>1, <2>2 DEF Rows
<1>3. QED BY <1>1, <1>2 DEF Take

\* A thread that goes on in the loop with the row it has.
LEMMA GoRows ==
  ASSUME thread \in [Threads -> ThreadRecord], NEW t \in Threads, NEW pc, Go(t, pc)
  PROVE  thread'[t].pc = pc /\ thread'[t].row = thread[t].row /\ thread'[t].todo = thread[t].todo
         /\ Rows(t)' = Rows(t)
<1>1. thread'[t].pc = pc /\ thread'[t].row = thread[t].row /\ thread'[t].todo = thread[t].todo
  BY DEF Go, ThreadRecord
<1>2. QED BY <1>1 DEF Rows

\* A thread that drains after a step of its own was draining, or selects.
LEMMA DrainingSteps ==
  ASSUME DeliveryInv, NEW t \in Threads, ReconnectStep(t), Draining(t)'
  PROVE  /\ UNCHANGED connected
         /\ \/ SelectRows(t)
            \/ Draining(t) /\ Drain(t)
<1>1. thread \in [Threads -> ThreadRecord]
  BY DeliveryTypes
<1>2. ASSUME NEW pc \in {"test", "try", "mark", "select", "finally"}, Go(t, pc) PROVE FALSE
  BY <1>1, <1>2, GoRows DEF Draining
<1>3. ~TestConnected(t)
  BY <1>2 DEF TestConnected
<1>4. ~ReconnectFails(t) /\ ~ReconnectSucceeds(t) /\ ~SetConnected(t)
  BY <1>2 DEF ReconnectFails, ReconnectSucceeds, SetConnected
<1>5. ~Finally(t)
  <2>1. Finally(t) => thread'[t].pc = "stopped"
    BY <1>1 DEF Finally, Stopped
  <2>2. QED BY <2>1 DEF Draining
<1>6. Drain(t)
  BY <1>3, <1>4, <1>5 DEF ReconnectStep
<1>7. QED
  BY <1>6
     DEF Drain, SelectRows, PublishRefused, PublishQos0, PublishUnlinked, PublishSent,
         Acknowledged, Dequeue, At, Draining

\* Every step but a crash keeps what has been reached.
LEMMA ReachedGrows ==
  ASSUME DeliveryInv, [Next]_vars, ~Restart
  PROVE  Reached \subseteq Reached'
<1>1. inflight \in Seq(Entry) /\ received \in Seq(Messages) /\ Received = Elems(received)
      /\ Received' = Elems(received')
  BY DeliveryTypes DEF Received, Elems
<1>2. CASE UNCHANGED <<inflight, received>>
  BY <1>2 DEF Reached, InFlight, Received
<1>3. ASSUME NEW e \in Entry, inflight' = Append(inflight, e), UNCHANGED received
      PROVE  Reached \subseteq Reached'
  <2>1. InFlight \subseteq InFlight'
    BY <1>1, <1>3, ElemsAppend DEF InFlight
  <2>2. QED BY <1>3, <2>1 DEF Reached, Received
<1>4. CASE Puback \/ LosePuback
  <2>1. Received' = Received \cup {Head(inflight).msg}
    <3>1. inflight # <<>> /\ received' = Append(received, Head(inflight).msg)
      BY <1>4 DEF Puback, LosePuback
    <3>2. Head(inflight) \in Entry
      BY <1>1, <3>1, ElemsTail
    <3>3. Head(inflight).msg \in Messages
      BY <3>2 DEF Entry
    <3>4. QED BY <1>1, <3>1, <3>3, ElemsAppend
  <2>2. InFlight \subseteq InFlight' \cup {Head(inflight)}
    BY <1>1, <1>4, ElemsTail DEF Puback, LosePuback, InFlight
  <2>3. QED BY <2>1, <2>2 DEF Reached
<1>5. CASE PublishDirect
  <2>1. [msg |-> next, waiter |-> NoThread] \in Entry
    BY <1>5, PublisherAssumption DEF PublishDirect, Entry
  <2>2. QED BY <1>3, <1>5, <2>1 DEF PublishDirect
<1>6. ASSUME NEW t \in Threads, ReconnectStep(t) PROVE Reached \subseteq Reached'
  <2>1. CASE PublishUnlinked(t) \/ PublishSent(t)
    <3>1. Row(t) \in Messages
      BY <2>1, DeliveryTypes DEF PublishUnlinked, PublishSent, Row
    <3>2. [msg |-> Row(t), waiter |-> NoThread] \in Entry /\ [msg |-> Row(t), waiter |-> t] \in Entry
      BY <3>1 DEF Entry
    <3>3. QED BY <1>3, <2>1, <3>2 DEF PublishUnlinked, PublishSent
  <2>2. CASE PublishQos0(t)
    <3>1. Row(t) \in Messages
      BY <2>2, DeliveryTypes DEF PublishQos0, Row
    <3>2. Elems(Append(received, Row(t))) = Received \cup {Row(t)}
      BY <1>1, <3>1, ElemsAppend
    <3>3. Received \subseteq Received' /\ InFlight' = InFlight
      BY <1>1, <2>2, <3>2 DEF PublishQos0, InFlight
    <3>4. QED BY <3>3 DEF Reached
  <2>3. QED
    BY <1>2, <1>6, <2>1, <2>2
       DEF ReconnectStep, Drain, TestConnected, ReconnectFails, ReconnectSucceeds, SetConnected,
           Finally, SelectRows, PublishRefused, Acknowledged, Dequeue, program, paho
<1>7. CASE LoseLink \/ Relink \/ Callback
  BY <1>2, <1>7 DEF LoseLink, Relink, Callback, ClearConnected, StartReconnect, paho
<1>8. CASE Connect \/ ConnectDone \/ Enqueue \/ Disconnect \/ DisconnectClient \/ DisconnectDone
  BY <1>2, <1>8 DEF Connect, ConnectDone, Enqueue, Disconnect, DisconnectClient, DisconnectDone, paho
<1>9. CASE UNCHANGED vars
  BY <1>2, <1>9 DEF vars
<1>10. QED
  BY <1>4, <1>5, <1>6, <1>7, <1>8, <1>9 DEF Next, Application

LEMMA AtWorkStep ==
  ASSUME EarlyOutage = FALSE, DeliveryInv, AtWorkOnlyUp, [Next]_vars
  PROVE  AtWorkOnlyUp'
<1>1. thread \in [Threads -> ThreadRecord]
  BY DeliveryTypes
<1>2. ASSUME NEW t \in Threads, ReconnectStep(t) PROVE AtWorkOnlyUp'
  <2>1. thread[t].pc # "stopped"
    BY <1>2
       DEF ReconnectStep, TestConnected, ReconnectFails, ReconnectSucceeds, SetConnected, Finally,
           Drain, SelectRows, PublishRefused, PublishQos0, PublishUnlinked, PublishSent,
           Acknowledged, Dequeue, At
  <2>2. UNCHANGED app
    BY <1>2
       DEF ReconnectStep, TestConnected, ReconnectFails, ReconnectSucceeds, SetConnected, Finally,
           Drain, SelectRows, PublishRefused, PublishQos0, PublishUnlinked, PublishSent,
           Acknowledged, Dequeue, program
  <2>3. QED BY <2>1, <2>2 DEF AtWorkOnlyUp
<1>3. CASE LoseLink \/ LosePuback
  BY <1>3 DEF LoseLink, LosePuback, MayBreak, program, AtWorkOnlyUp
<1>4. CASE Relink \/ Puback
  BY <1>4 DEF Relink, Puback, program, AtWorkOnlyUp
<1>5. CASE Callback
  BY <1>5 DEF Callback, ClearConnected, StartReconnect, program, AtWorkOnlyUp
<1>6. CASE Restart
  BY <1>6 DEF Restart, Stopped, AtWorkOnlyUp
<1>7. CASE Connect \/ ConnectDone \/ Enqueue \/ PublishDirect
  BY <1>7 DEF Connect, ConnectDone, Enqueue, PublishDirect, AtWorkOnlyUp
<1>8. CASE Disconnect \/ DisconnectClient \/ DisconnectDone
  BY <1>8 DEF Disconnect, DisconnectClient, DisconnectDone, AtWorkOnlyUp
<1>9. CASE UNCHANGED vars
  BY <1>9 DEF vars, AtWorkOnlyUp
<1>10. QED
  BY <1>2, <1>3, <1>4, <1>5, <1>6, <1>7, <1>8, <1>9 DEF Next, Application

\* A thread that does not move of itself is where it was, or leaves the drain, or
\* has just been started.
LEMMA OthersDrain ==
  ASSUME DeliveryInv, ReconnectorInv, NEW t \in Threads, [Next]_vars, Draining(t)',
         ~ReconnectStep(t)
  PROVE  thread'[t] = thread[t] /\ Draining(t) /\ ~Restart
         /\ \A u \in Threads : ~ReconnectStep(u)
<1>1. thread \in [Threads -> ThreadRecord]
  BY DeliveryTypes
<1>2. ~Restart
  BY DEF Restart, Stopped, Draining
<1>3. ASSUME NEW u \in Threads, ReconnectStep(u) PROVE FALSE
  <2>1. u # t /\ thread[u].pc # "stopped"
    BY <1>3
       DEF ReconnectStep, TestConnected, ReconnectFails, ReconnectSucceeds, SetConnected, Finally,
           Drain, SelectRows, PublishRefused, PublishQos0, PublishUnlinked, PublishSent,
           Acknowledged, Dequeue, At
  <2>2. thread[t].pc = "stopped"
    BY <2>1 DEF ReconnectorInv, OneReconnector
  <2>3. \A pc : Go(u, pc) => thread'[t] = thread[t]
    BY <1>1, <2>1 DEF Go
  <2>4. \A rows : Take(u, rows) => thread'[t] = thread[t]
    BY <1>1, <2>1 DEF Take
  <2>5. Finally(u) => thread'[t] = thread[t]
    BY <1>1, <2>1 DEF Finally
  <2>6. thread'[t] = thread[t]
    BY <1>3, <2>3, <2>4, <2>5
       DEF ReconnectStep, TestConnected, ReconnectFails, ReconnectSucceeds, SetConnected,
           Drain, SelectRows, PublishRefused, PublishQos0, PublishUnlinked, PublishSent,
           Acknowledged, Dequeue, NextRow
  <2>7. QED BY <2>2, <2>6 DEF Draining
<1>4. CASE StartReconnect
  <2>1. CASE UNCHANGED thread
    BY <1>2, <1>3, <2>1 DEF Draining
  <2>2. ASSUME NEW u \in Threads, thread[u].pc = "stopped", Go(u, "test")
        PROVE  thread'[t] = thread[t] /\ Draining(t)
    <3>1. u # t
      BY <1>1, <2>2, GoRows DEF Draining
    <3>2. thread'[t] = thread[t]
      BY <1>1, <2>2, <3>1 DEF Go
    <3>3. QED BY <3>2 DEF Draining
  <2>3. QED BY <1>2, <1>3, <1>4, <2>1, <2>2 DEF StartReconnect, Go
<1>5. CASE UNCHANGED thread
  BY <1>2, <1>3, <1>5 DEF Draining
<1>6. CASE LoseLink \/ Relink \/ Puback \/ LosePuback \/ ClearConnected
  BY <1>5, <1>6 DEF LoseLink, Relink, Puback, LosePuback, ClearConnected
<1>7. CASE Connect \/ ConnectDone \/ Enqueue \/ PublishDirect
  BY <1>5, <1>7 DEF Connect, ConnectDone, Enqueue, PublishDirect
<1>8. CASE Disconnect \/ DisconnectClient \/ DisconnectDone
  BY <1>5, <1>8 DEF Disconnect, DisconnectClient, DisconnectDone
<1>9. CASE UNCHANGED vars
  BY <1>5, <1>9 DEF vars
<1>10. QED
  BY <1>2, <1>3, <1>4, <1>6, <1>7, <1>8, <1>9 DEF Next, Callback, Application

\* The sets of rows that drain takes rows from.
LEMMA RowSets ==
  ASSUME DeliveryInv
  PROVE  outbox \in SUBSET Messages /\ \A t \in Threads : thread[t].todo \in SUBSET Messages
BY DeliveryTypes, TypeParts DEF DeliveryInv, PlainOK, ThreadRecord

LEMMA OldestStep ==
  ASSUME DeliveryInv, ReconnectorInv, OldestFirst, [Next]_vars
  PROVE  OldestFirst'
<1> SUFFICES ASSUME NEW t \in Threads, Draining(t)'
             PROVE  \A m \in thread'[t].todo : thread'[t].row < m
  BY DEF OldestFirst
<1>1. thread \in [Threads -> ThreadRecord]
  BY DeliveryTypes
<1>2. CASE ReconnectStep(t)
  <2>1. ASSUME NEW rows \in SUBSET Messages, Take(t, rows)
        PROVE  \A m \in thread'[t].todo : thread'[t].row < m
    BY <1>1, <2>1, TakeRows
  <2>2. ASSUME NEW pc, Go(t, pc), Draining(t)
        PROVE  \A m \in thread'[t].todo : thread'[t].row < m
    BY <1>1, <2>2, GoRows DEF OldestFirst
  <2>3. QED
    BY <1>2, <2>1, <2>2, DrainingSteps, RowSets
       DEF Drain, SelectRows, PublishRefused, PublishQos0, PublishUnlinked, PublishSent,
           Acknowledged, Dequeue, NextRow
<1>3. CASE ~ReconnectStep(t)
  BY <1>3, OthersDrain DEF OldestFirst
<1>4. QED BY <1>2, <1>3

LEMMA DrainStep ==
  ASSUME DeliveryInv, ReconnectorInv, AtWorkOnlyUp, DrainComplete, [Next]_vars
  PROVE  DrainComplete'
<1> SUFFICES ASSUME NEW t \in Threads, Draining(t)', connected',
                    NEW m \in Rows(t)', NEW n \in Durable, n < m
             PROVE  n \in Rows(t)' \cup Reached'
  BY DEF DrainComplete, Durable
<1>1. thread \in [Threads -> ThreadRecord]
  BY DeliveryTypes
<1>2. ~Restart
  BY DEF Restart
<1>3. Reached \subseteq Reached'
  BY <1>2, ReachedGrows
<1>4. CASE ReconnectStep(t)
  <2>0. connected
    BY <1>4, DrainingSteps
  <2>1. CASE SelectRows(t)
    <3>1. Rows(t)' = outbox
      BY <1>1, <2>1, RowSets, TakeRows DEF SelectRows
    <3>2. m \in 1..(next - 1) /\ next \in Nat \ {0}
      BY <3>1, DeliveryTypes DEF DeliveryInv, MadeFirst
    <3>3. n \in Nat \ {0}
      BY PublisherAssumption DEF Durable, Messages
    <3>4. n \in Durable \cap 1..(next - 1)
      BY <3>2, <3>3
    <3>5. n \in outbox \cup Received
      BY <3>4 DEF DeliveryInv, NothingLost
    <3>6. QED BY <1>3, <3>1, <3>5 DEF Reached
  <2>2. ASSUME NEW pc, Go(t, pc), Draining(t) PROVE n \in Rows(t)' \cup Reached'
    <3>1. Rows(t)' = Rows(t)
      BY <1>1, <2>2, GoRows
    <3>2. QED BY <1>3, <2>0, <2>2, <3>1 DEF DrainComplete
  <2>3. ASSUME NextRow(t), Draining(t), Row(t) \in Durable => Row(t) \in Reached'
        PROVE  n \in Rows(t)' \cup Reached'
    <3>1. Rows(t)' = thread[t].todo
      BY <1>1, <2>3, RowSets, TakeRows DEF NextRow
    <3>2. n \in Rows(t) \cup Reached
      BY <2>0, <2>3, <3>1 DEF DrainComplete, Rows
    <3>3. QED BY <1>3, <2>3, <3>1, <3>2 DEF Rows, Row
  <2>4. CASE PublishUnlinked(t)
    <3>1. [msg |-> Row(t), waiter |-> NoThread] \in Entry
      BY <2>4, DeliveryTypes DEF PublishUnlinked, Row, Entry
    <3>2. [msg |-> Row(t), waiter |-> NoThread] \in InFlight'
      BY <2>4, <3>1, DeliveryTypes, ElemsAppend DEF PublishUnlinked, InFlight
    <3>3. Row(t) \in Reached'
      BY <3>2 DEF Reached
    <3>4. QED BY <2>3, <2>4, <3>3 DEF PublishUnlinked, At, Draining
  <2>5. CASE Dequeue(t)
    <3>1. Row(t) \in Durable => Row(t) \in Received
      BY <2>5 DEF Dequeue, At, Row, DeliveryInv, RowsDelivered, Durable
    <3>2. QED BY <1>3, <2>3, <2>5, <3>1 DEF Dequeue, At, Draining, Reached
  <2>6. ~PublishRefused(t)
    BY <2>0 DEF PublishRefused
  <2>7. QED
    BY <1>4, <2>1, <2>2, <2>4, <2>5, <2>6, DrainingSteps
       DEF Drain, PublishQos0, PublishSent, Acknowledged
<1>5. CASE ~ReconnectStep(t)
  <2>1. thread'[t] = thread[t] /\ Draining(t) /\ \A u \in Threads : ~ReconnectStep(u)
    BY <1>5, OthersDrain
  <2>2. connected
    <3>1. ~ConnectDone
      BY <2>1 DEF ConnectDone, AtWorkOnlyUp, Draining
    <3>2. QED
      BY <1>2, <2>1, <3>1
         DEF Next, LoseLink, Relink, Puback, LosePuback, Callback, ClearConnected, StartReconnect,
             Application, Connect, Enqueue, PublishDirect, Disconnect, DisconnectClient,
             DisconnectDone, vars
  <2>3. Rows(t)' = Rows(t)
    BY <2>1 DEF Rows
  <2>4. QED BY <1>3, <2>1, <2>2, <2>3 DEF DrainComplete
<1>6. QED BY <1>4, <1>5

\* paho takes a message, and the broker has or will first get all that is older.
LEMMA FlightSend ==
  ASSUME DeliveryInv, FlightInOrder, NEW e \in Entry,
         inflight' = Append(inflight, e), UNCHANGED received,
         e.msg \in Durable => \A n \in Durable : n < e.msg => n \in Reached
  PROVE  FlightInOrder'
<1>1. inflight \in Seq(Entry)
  BY DeliveryTypes
<1>2. /\ Len(inflight') = Len(inflight) + 1 /\ inflight'[Len(inflight) + 1] = e
      /\ \A i \in 1..Len(inflight) : inflight'[i] = inflight[i]
      /\ Len(inflight) \in Nat
  BY <1>1
<1> SUFFICES ASSUME NEW p \in 1..Len(inflight'), NEW n \in Durable,
                    inflight'[p].msg \in Durable, n < inflight'[p].msg
             PROVE  n \in Received' \/ \E q \in 1..(p - 1) : inflight'[q].msg = n
  BY DEF FlightInOrder, Durable
<1>3. Received' = Received
  BY DEF Received
<1>4. CASE p \in 1..Len(inflight)
  <2>1. n \in Received \/ \E q \in 1..(p - 1) : inflight[q].msg = n
    BY <1>2, <1>4 DEF FlightInOrder
  <2>2. \A q \in 1..(p - 1) : inflight'[q] = inflight[q]
    BY <1>2, <1>4
  <2>3. QED BY <1>3, <2>1, <2>2
<1>5. CASE p = Len(inflight) + 1
  <2>1. n \in Reached
    BY <1>2, <1>5
  <2>2. n \in Received \/ \E q \in 1..Len(inflight) : inflight[q].msg = n
    BY <2>1 DEF Reached, InFlight, Elems
  <2>3. p - 1 = Len(inflight)
    BY <1>2, <1>5
  <2>4. QED BY <1>2, <1>3, <2>2, <2>3
<1>6. QED BY <1>2, <1>4, <1>5

\* The broker receives the head of what is in flight, which stays there or leaves.
LEMMA FlightReceive ==
  ASSUME DeliveryInv, FlightInOrder, inflight # <<>>,
         received' = Append(received, Head(inflight).msg),
         inflight' = Tail(inflight) \/ inflight' = inflight
  PROVE  FlightInOrder'
<1>1. inflight \in Seq(Entry) /\ received \in Seq(Messages) /\ Received = Elems(received)
      /\ Received' = Elems(received')
  BY DeliveryTypes DEF Received, Elems
<1>2. Head(inflight) \in Entry /\ Head(inflight) = inflight[1]
  BY <1>1
<1>3. Received' = Received \cup {inflight[1].msg}
  <2>1. inflight[1].msg \in Messages
    BY <1>2 DEF Entry
  <2>2. QED BY <1>1, <1>2, <2>1, ElemsAppend
<1>4. CASE inflight' = inflight
  BY <1>3, <1>4 DEF FlightInOrder
<1>5. CASE inflight' = Tail(inflight)
  <2>1. /\ Len(inflight') = Len(inflight) - 1 /\ Len(inflight) \in Nat \ {0}
        /\ \A i \in 1..Len(inflight') : inflight'[i] = inflight[i + 1]
    BY <1>1, <1>5
  <2> SUFFICES ASSUME NEW p \in 1..Len(inflight'), NEW n \in Durable,
                      inflight'[p].msg \in Durable, n < inflight'[p].msg
               PROVE  n \in Received' \/ \E q \in 1..(p - 1) : inflight'[q].msg = n
    BY DEF FlightInOrder, Durable
  <2>2. p + 1 \in 1..Len(inflight) /\ inflight[p + 1] = inflight'[p] /\ p \in Nat
    BY <2>1
  <2>3. n \in Received \/ \E q \in 1..p : inflight[q].msg = n
    BY <2>2 DEF FlightInOrder
  <2>4. ASSUME NEW q \in 1..p, inflight[q].msg = n, q # 1
        PROVE  \E r \in 1..(p - 1) : inflight'[r].msg = n
    <3>1. q - 1 \in 1..(p - 1) /\ q - 1 \in 1..Len(inflight') /\ (q - 1) + 1 = q
      BY <2>1, <2>2, <2>4
    <3>2. inflight'[q - 1] = inflight[q]
      BY <2>1, <3>1
    <3>3. QED BY <2>4, <3>1, <3>2
  <2>5. QED BY <1>3, <2>3, <2>4
<1>6. QED BY <1>4, <1>5

\* The broker receives a message, of which it has all that is older.
LEMMA OrderReceive ==
  ASSUME DeliveryInv, InOrder, NEW m \in Messages, received' = Append(received, m),
         m \in Durable => \A n \in Durable : n < m => n \in Received
  PROVE  InOrder'
<1>1. received \in Seq(Messages)
  BY DeliveryTypes
<1>2. /\ Len(received') = Len(received) + 1 /\ received'[Len(received) + 1] = m
      /\ \A i \in 1..Len(received) : received'[i] = received[i]
      /\ Len(received) \in Nat
  BY <1>1
<1> SUFFICES ASSUME NEW i \in 1..Len(received'), NEW n \in Durable,
                    received'[i] \in Durable, n < received'[i]
             PROVE  \E j \in 1..i : received'[j] = n
  BY DEF InOrder, Durable
<1>3. CASE i \in 1..Len(received)
  <2>1. PICK j \in 1..i : received[j] = n
    BY <1>2, <1>3 DEF InOrder
  <2>2. received'[j] = n
    BY <1>2, <1>3, <2>1
  <2>3. QED BY <2>2
<1>4. CASE i = Len(received) + 1
  <2>1. PICK j \in 1..Len(received) : received[j] = n
    BY <1>2, <1>4 DEF Received
  <2>2. j \in 1..i /\ received'[j] = n
    BY <1>2, <1>4, <2>1
  <2>3. QED BY <2>2
<1>5. QED BY <1>2, <1>3, <1>4

LEMMA FlightStep ==
  ASSUME DeliveryInv, OldestFirst, DrainComplete, FlightInOrder, InOrder, [Next]_vars
  PROVE  FlightInOrder' /\ InOrder'
<1>1. inflight \in Seq(Entry)
  BY DeliveryTypes
<1>2. CASE UNCHANGED <<inflight, received>>
  BY <1>2 DEF FlightInOrder, InOrder, Received
<1>3. ASSUME UNCHANGED received PROVE InOrder'
  BY <1>3 DEF InOrder
<1>4. CASE Puback \/ LosePuback
  <2>1. /\ inflight # <<>> /\ received' = Append(received, Head(inflight).msg)
        /\ inflight' = Tail(inflight) \/ inflight' = inflight
    BY <1>4 DEF Puback, LosePuback
  <2>2. Head(inflight) \in Entry /\ Head(inflight) = inflight[1] /\ 1 \in 1..Len(inflight)
    BY <1>1, <2>1
  <2>3. Head(inflight).msg \in Messages
    BY <2>2 DEF Entry
  <2>4. Head(inflight).msg \in Durable =>
          \A n \in Durable : n < Head(inflight).msg => n \in Received
    BY <2>2 DEF FlightInOrder
  <2>5. QED BY <2>1, <2>3, <2>4, FlightReceive, OrderReceive
<1>5. CASE PublishDirect
  <2>1. [msg |-> next, waiter |-> NoThread] \in Entry /\ next \notin Durable
    BY <1>5, PublisherAssumption DEF PublishDirect, Entry, Durable
  <2>2. QED BY <1>3, <1>5, <2>1, FlightSend DEF PublishDirect
<1>6. CASE Restart
  <2>1. inflight' = <<>> /\ UNCHANGED received
    BY <1>6 DEF Restart
  <2>2. QED BY <1>3, <2>1 DEF FlightInOrder
<1>7. ASSUME NEW t \in Threads, ReconnectStep(t) PROVE FlightInOrder' /\ InOrder'
  <2>1. CASE PublishUnlinked(t) \/ PublishSent(t)
    <3>1. /\ connected /\ At(t, "publish") /\ UNCHANGED received
          /\ \E w \in {t, NoThread} : inflight' = Append(inflight, [msg |-> Row(t), waiter |-> w])
      BY <2>1 DEF PublishUnlinked, PublishSent
    <3>2. Row(t) \in Messages /\ thread[t].todo \in SUBSET Messages
      BY <3>1, DeliveryTypes, RowSets DEF Row
    <3>3. ASSUME NEW n \in Durable, n < Row(t) PROVE n \in Reached
      <4>1. n \in Rows(t) \cup Reached
        BY <3>1, <3>3 DEF DrainComplete, Draining, At, Rows, Row
      <4>2. \A r \in Rows(t) : Row(t) <= r
        BY <3>1, <3>2, PublisherAssumption DEF OldestFirst, Draining, At, Rows, Row, Messages
      <4>3. n \notin Rows(t)
        BY <3>2, <3>3, <4>2, PublisherAssumption DEF Messages, Durable
      <4>4. QED BY <4>1, <4>3
    <3>4. PICK w \in {t, NoThread} : inflight' = Append(inflight, [msg |-> Row(t), waiter |-> w])
      BY <3>1
    <3>5. [msg |-> Row(t), waiter |-> w] \in Entry
      BY <3>2 DEF Entry
    <3>6. FlightInOrder'
      BY <3>1, <3>3, <3>4, <3>5, FlightSend
    <3>7. QED BY <1>3, <3>1, <3>6
  <2>2. CASE PublishQos0(t)
    <3>1. Row(t) \in Messages /\ Row(t) \notin Durable /\ UNCHANGED inflight
      BY <2>2, DeliveryTypes DEF PublishQos0, Row, Durable
    <3>2. CASE UNCHANGED received
      BY <1>2, <3>1, <3>2
    <3>3. CASE received' = Append(received, Row(t))
      <4>1. InOrder'
        BY <3>1, <3>3, OrderReceive
      <4>2. Received \subseteq Received'
        BY <2>2, <3>1, <3>3, DeliveryTypes, ElemsAppend DEF Received, Elems
      <4>3. QED BY <3>1, <4>1, <4>2 DEF FlightInOrder
    <3>4. QED BY <2>2, <3>2, <3>3 DEF PublishQos0
  <2>3. QED
    BY <1>2, <1>7, <2>1, <2>2
       DEF ReconnectStep, Drain, TestConnected, ReconnectFails, ReconnectSucceeds, SetConnected,
           Finally, SelectRows, PublishRefused, Acknowledged, Dequeue, program, paho
<1>8. CASE LoseLink \/ Relink \/ Callback
  BY <1>2, <1>8 DEF LoseLink, Relink, Callback, ClearConnected, StartReconnect, paho
<1>9. CASE Connect \/ ConnectDone \/ Enqueue \/ Disconnect \/ DisconnectClient \/ DisconnectDone
  BY <1>2, <1>9 DEF Connect, ConnectDone, Enqueue, Disconnect, DisconnectClient, DisconnectDone, paho
<1>10. CASE UNCHANGED vars
  BY <1>2, <1>10 DEF vars
<1>11. QED
  BY <1>4, <1>5, <1>6, <1>7, <1>8, <1>9, <1>10 DEF Next, Application

LEMMA OrderInit == Init => OrderInv
<1> SUFFICES ASSUME Init PROVE OrderInv
  OBVIOUS
<1>1. inflight = <<>> /\ received = <<>> /\ \A t \in Threads : thread[t].pc = "stopped"
  BY DEF Init, Stopped
<1>2. QED
  BY <1>1
     DEF Init, OrderInv, AtWorkOnlyUp, OldestFirst, DrainComplete, FlightInOrder, InOrder, Draining

\* When connections outlive connect(), the broker receives the stored QoS 1
\* messages in the order they were made, redeliveries apart, for any number of
\* them, of outages, reconnect threads and crashes, and whatever is published
\* past the outbox.
THEOREM FirstInFirstOut ==
  ASSUME EarlyOutage = FALSE
  PROVE  Spec => []InOrder
<1>1. DeliveryInv /\ ReconnectorInv /\ OrderInv /\ [Next]_vars => OrderInv'
  BY AtWorkStep, OldestStep, DrainStep, FlightStep DEF OrderInv
<1>2. DeliveryInv /\ [Next]_vars => DeliveryInv'
  BY DeliveryStep
<1>3. DeliveryInv => TypeOK
  BY DEF DeliveryInv
<1>4. Init => ReconnectorInv
  BY TypeInit, TypeParts DEF Init, ReconnectorInv, FlagSet, OneReconnector, Stopped
<1>5. OrderInv => InOrder
  BY DEF OrderInv
<1>6. QED
  BY <1>1, <1>2, <1>3, <1>4, <1>5, OrderInit, DeliveryInit, ReconnectorStep, PTL DEF Spec

-----------------------------------------------------------------------------
(* The other end of mqtt_client.py: MQTTSubscriber, under its own names but   *)
(* for the variables both modules have                                        *)

CONSTANTS Topics, Calls, Required

VARIABLES client, call, sending, online, busy, callbacks, subscriptions, hook, worker, net, seen,
          socket, session, maker, outages

Sub == INSTANCE MQTTSubscriber WITH
         app <- client, next <- call, connected <- online, reconnecting <- busy, link <- socket,
         faults <- outages

\* What MQTTSubscriber assumes of its constants.
SubscriberConstants == Calls \in Seq(Topics) /\ MayClose \in BOOLEAN /\ MaxFaults \in Nat

\* Recorded by a subscribe() that has not sent it yet, or left to the worker's loop.
Unsent == IF sending THEN {Calls[call]} ELSE {}
Undone == IF worker.pc = "resubscribe" THEN worker.todo ELSE {}

\* The worker's loop is about to raise: a topic came after it began.
Outrun == worker.pc = "resubscribe" /\ worker.seen # subscriptions

\* A connection carries the recorded topics but for those still to be sent.
Carried ==
  /\ client = "new" => subscriptions = {}
  /\ socket = "up" /\ maker = "program" => subscriptions \subseteq session \cup Unsent
  /\ client # "closed" =>
       /\ worker.pc = "resubscribe" => worker.seen \subseteq subscriptions
       /\ socket = "up" /\ maker = "thread" =>
            worker.pc = "mark" \/ Outrun \/ subscriptions \subseteq session \cup Unsent \cup Undone

SubInv == Sub!TypeOK /\ Carried

LEMMA SubInit == ASSUME SubscriberConstants PROVE Sub!Init => SubInv
<1> SUFFICES ASSUME Sub!Init PROVE SubInv
  OBVIOUS
<1> USE DEF Sub!Init, Sub!Resting
<1>1. Len(Calls) \in Nat /\ 1 \in 1..(Len(Calls) + 1) /\ 0 \in 0..MaxFaults
  BY DEF SubscriberConstants
<1>2. Sub!TypeOK
  BY <1>1 DEF Sub!TypeOK
<1>3. Carried
  BY DEF Carried
<1>4. QED BY <1>2, <1>3 DEF SubInv

\* The program connects, subscribes and disconnects.
LEMMA ProgramCarries == ASSUME SubscriberConstants PROVE SubInv /\ Sub!Program => SubInv'
<1> SUFFICES ASSUME SubInv, Sub!Program PROVE SubInv'
  OBVIOUS
<1> USE DEF SubInv, Sub!broker, Sub!network, Sub!flags, Sub!dicts
<1>1. Len(Calls) \in Nat /\ \A i \in 1..Len(Calls) : Calls[i] \in Topics
  BY DEF SubscriberConstants
<1>2. CASE Sub!Connect \/ Sub!ConnectDone
  <2>1. Sub!TypeOK'
    <3>1. CASE Sub!Connect
      BY <3>1 DEF Sub!TypeOK, Sub!Connect, Sub!Linked, Sub!Resting
    <3>2. CASE Sub!ConnectDone
      BY <3>2 DEF Sub!TypeOK, Sub!ConnectDone, Sub!Resting
    <3>3. QED BY <1>2, <3>1, <3>2
  <2>2. Carried'
    BY <1>2 DEF Carried, Unsent, Undone, Outrun, Sub!Connect, Sub!ConnectDone, Sub!Linked
  <2>3. QED BY <2>1, <2>2
<1>3. CASE Sub!SubscribeRaises
  <2>1. call <= Len(Calls) /\ call \in Nat /\ call' = call + 1 /\ ~sending
    BY <1>3 DEF Sub!SubscribeRaises, Sub!MaySubscribe, Sub!TypeOK
  <2>2. Sub!TypeOK'
    BY <1>1, <1>3, <2>1 DEF Sub!TypeOK, Sub!SubscribeRaises, Sub!MaySubscribe
  <2>3. Carried'
    BY <1>3, <2>1 DEF Carried, Unsent, Undone, Outrun, Sub!SubscribeRaises, Sub!MaySubscribe
  <2>4. QED BY <2>2, <2>3
<1>4. CASE Sub!Subscribe
  <2>1. call \in 1..Len(Calls) /\ Calls[call] \in Topics
    BY <1>1, <1>4 DEF Sub!Subscribe, Sub!MaySubscribe, Sub!TypeOK
  <2>2. Sub!TypeOK'
    BY <1>4, <2>1 DEF Sub!TypeOK, Sub!Subscribe, Sub!MaySubscribe
  <2>3. /\ Unsent = {} /\ Unsent' = {Calls[call]} /\ Undone' = Undone
        /\ subscriptions' = subscriptions \cup {Calls[call]}
        /\ UNCHANGED <<client, worker, socket, session, maker>> /\ client = "up"
    BY <1>4 DEF Sub!Subscribe, Sub!MaySubscribe, Unsent, Undone
  <2>4. Outrun /\ worker.seen \subseteq subscriptions => Outrun'
    BY <2>3 DEF Outrun
  <2>5. Carried'
    BY <2>3, <2>4 DEF Carried, Outrun
  <2>6. QED BY <2>2, <2>5
<1>5. CASE Sub!Send
  <2>1. call \in 1..Len(Calls) /\ Calls[call] \in Topics
    BY <1>1, <1>5 DEF Sub!Send, Sub!TypeOK
  <2>2. Sub!TypeOK'
    <3>1. session' \subseteq Topics /\ call' \in 1..(Len(Calls) + 1)
      BY <1>1, <1>5, <2>1 DEF Sub!TypeOK, Sub!Send, Sub!Sent
    <3>2. /\ ~sending' /\ sending' \in BOOLEAN
          /\ UNCHANGED <<client, online, busy, callbacks, subscriptions, hook, worker, net, seen,
                         socket, maker, outages>>
      BY <1>5 DEF Sub!Send
    <3>3. QED BY <3>1, <3>2 DEF Sub!TypeOK
  <2>3. /\ Unsent = {Calls[call]} /\ Unsent' = {} /\ Undone' = Undone /\ (Outrun' <=> Outrun)
        /\ UNCHANGED <<client, worker, socket, subscriptions, maker>>
        /\ socket = "up" => session' = session \cup {Calls[call]}
    BY <1>5 DEF Sub!Send, Sub!Sent, Unsent, Undone, Outrun
  <2>4. Carried'
    BY <2>3 DEF Carried
  <2>5. QED BY <2>2, <2>4
<1>6. CASE Sub!Disconnect \/ Sub!Joined \/ Sub!DisconnectClient \/ Sub!DisconnectDone
  <2>1. Sub!TypeOK'
    <3>1. CASE Sub!Disconnect \/ Sub!Joined
      BY <3>1 DEF Sub!TypeOK, Sub!Disconnect, Sub!Joined, Sub!Resting
    <3>2. CASE Sub!DisconnectClient
      BY <3>2 DEF Sub!TypeOK, Sub!DisconnectClient, Sub!Unlinked, Sub!Resting
    <3>3. CASE Sub!DisconnectDone
      <4>1. /\ client' = "closed" /\ online' = FALSE /\ callbacks' = {} /\ subscriptions' = {}
            /\ UNCHANGED <<call, sending, busy, hook, worker, net, seen, socket, session, maker, outages>>
        BY <3>3 DEF Sub!DisconnectDone, Sub!network, Sub!broker
      <4>2. (~busy => worker = Sub!Resting)'
        BY <4>1 DEF Sub!TypeOK, Sub!Resting
      <4>3. client' \in {"new", "linking", "up", "joining", "stopping", "closing", "closed", "failed"}
            /\ online' \in BOOLEAN /\ callbacks' \subseteq Topics /\ subscriptions' \subseteq Topics
        BY <4>1
      <4>4. UNCHANGED <<call, sending, busy, hook, worker, net, seen, socket, session, maker, outages>>
        BY <4>1
      <4>5. QED BY <4>2, <4>3, <4>4 DEF Sub!TypeOK
    <3>4. QED BY <1>6, <3>1, <3>2, <3>3
  <2>2. /\ client' # "new" /\ UNCHANGED <<call, sending, worker, maker>>
        /\ \/ client' = "closed" /\ subscriptions' = {}
           \/ client # "closed" /\ UNCHANGED subscriptions
        /\ socket' = "up" => socket = "up" /\ session' = session
    BY <1>6 DEF Sub!Disconnect, Sub!Started, Sub!Joined, Sub!DisconnectClient, Sub!DisconnectDone,
                Sub!Unlinked
  <2>3. Unsent' = Unsent /\ Undone' = Undone
    BY <2>2 DEF Unsent, Undone
  <2>4. Carried'
    BY <2>2, <2>3 DEF Carried, Outrun
  <2>5. QED BY <2>1, <2>4
<1>7. QED BY <1>2, <1>3, <1>4, <1>5, <1>6 DEF Sub!Program

\* The connection breaks or is made anew by paho, a message is dispatched, and
\* _on_disconnect runs: no topic is recorded or sent.
LEMMA NetworkCarries ==
  ASSUME SubscriberConstants
  PROVE  SubInv /\ (\/ Sub!Break \/ Sub!Network \/ Sub!RelinkFails \/ Sub!Dispatch
                    \/ Sub!OnDisconnect \/ UNCHANGED Sub!vars)
           => SubInv'
<1> SUFFICES ASSUME SubInv, \/ Sub!Break \/ Sub!Network \/ Sub!RelinkFails \/ Sub!Dispatch
                            \/ Sub!OnDisconnect \/ UNCHANGED Sub!vars
             PROVE  SubInv'
  OBVIOUS
<1> USE DEF SubInv, Sub!program, Sub!broker, Sub!network, Sub!flags, Sub!dicts
<1>1. CASE Sub!Break \/ Sub!Network \/ Sub!RelinkFails \/ Sub!Dispatch \/ UNCHANGED Sub!vars
  <2>1. UNCHANGED <<client, call, sending, worker, subscriptions>>
    BY <1>1 DEF Sub!Break, Sub!Network, Sub!Notice, Sub!NoSocket, Sub!Relink, Sub!RelinkFails,
                Sub!Dispatch, Sub!DispatchGoesOn, Sub!vars
  <2>2. socket' = "up" => maker' = "paho" \/ (UNCHANGED <<socket, session, maker>>)
    BY <1>1 DEF Sub!Break, Sub!Network, Sub!Notice, Sub!NoSocket, Sub!Relink, Sub!RelinkFails,
                Sub!Dispatch, Sub!DispatchGoesOn, Sub!vars, Sub!Linked, Sub!Unlinked
  <2>3. Sub!TypeOK'
    <3>1. CASE Sub!Break
      BY <3>1 DEF Sub!TypeOK, Sub!Break, SubscriberConstants
    <3>2. CASE Sub!Network \/ Sub!RelinkFails
      BY <3>2 DEF Sub!TypeOK, Sub!Network, Sub!Notice, Sub!NoSocket, Sub!Relink, Sub!RelinkFails,
                  Sub!DispatchGoesOn, Sub!Linked, Sub!Unlinked
    <3>3. CASE Sub!Dispatch \/ UNCHANGED Sub!vars
      BY <3>3 DEF Sub!TypeOK, Sub!Dispatch, Sub!vars
    <3>4. QED BY <1>1, <3>1, <3>2, <3>3
  <2>4. Unsent' = Unsent /\ Undone' = Undone /\ (Outrun' <=> Outrun)
    BY <2>1 DEF Unsent, Undone, Outrun
  <2>5. Carried'
    BY <2>1, <2>2, <2>4 DEF Carried
  <2>6. QED BY <2>3, <2>5
<1>2. CASE Sub!OnDisconnect
  <2>1. /\ UNCHANGED <<client, call, sending, subscriptions, socket, session, maker>>
        /\ worker' = worker \/ (worker.pc = "stopped" /\ worker'.pc = "test")
    BY <1>2 DEF Sub!OnDisconnect, Sub!ClearConnected, Sub!StartReconnect, Sub!TypeOK, Sub!Resting
  <2>2. Sub!TypeOK'
    <3>1. CASE Sub!ClearConnected
      <4>1. /\ online' \in BOOLEAN /\ hook' = "start"
            /\ UNCHANGED <<client, call, sending, busy, callbacks, subscriptions, worker, net, seen,
                           socket, session, maker, outages>>
        BY <3>1 DEF Sub!ClearConnected
      <4>2. QED BY <4>1 DEF Sub!TypeOK
    <3>2. CASE Sub!StartReconnect
      <4>1. worker' \in [pc : {"stopped", "test", "try", "mark", "resubscribe", "finally"},
                         todo : SUBSET Topics, seen : SUBSET Topics]
        BY <3>2 DEF Sub!TypeOK, Sub!StartReconnect, Sub!Resting
      <4>2. QED BY <3>2, <4>1 DEF Sub!TypeOK, Sub!StartReconnect
    <3>3. QED BY <1>2, <3>1, <3>2 DEF Sub!OnDisconnect
  <2>3. Unsent' = Unsent /\ Undone' = Undone
    BY <2>1 DEF Unsent, Undone
  <2>4. Carried'
    BY <2>1, <2>3 DEF Carried, Outrun
  <2>5. QED BY <2>2, <2>4
<1>3. QED BY <1>1, <1>2

\* The reconnect thread.
LEMMA WorkerCarries == ASSUME SubscriberConstants PROVE SubInv /\ Sub!ReconnectStep => SubInv'
<1> SUFFICES ASSUME SubInv, Sub!ReconnectStep PROVE SubInv'
  OBVIOUS
<1> USE DEF SubInv, Sub!program, Sub!broker, Sub!network, Sub!flags, Sub!dicts, Sub!Go
<1>1. UNCHANGED <<client, call, sending, subscriptions>> /\ Unsent' = Unsent
  BY DEF Sub!ReconnectStep, Sub!TestConnected, Sub!ReconnectFails, Sub!ReconnectSucceeds,
         Sub!SetConnected, Sub!Resubscribe, Sub!ResubscribeEnds, Sub!Finally, Unsent
<1>2. /\ worker \in [pc : {"stopped", "test", "try", "mark", "resubscribe", "finally"},
                     todo : SUBSET Topics, seen : SUBSET Topics]
      /\ worker.pc # "stopped" => busy
  BY DEF Sub!TypeOK, Sub!Resting
<1>3. CASE Sub!TestConnected \/ Sub!ReconnectFails \/ Sub!ReconnectSucceeds \/ Sub!Finally
  <2>1. Sub!TypeOK'
    <3>1. CASE Sub!TestConnected
      BY <1>2, <3>1 DEF Sub!TypeOK, Sub!TestConnected
    <3>2. CASE Sub!ReconnectFails \/ Sub!ReconnectSucceeds
      BY <1>2, <3>2 DEF Sub!TypeOK, Sub!ReconnectFails, Sub!ReconnectSucceeds, Sub!Linked, Sub!Unlinked
    <3>3. CASE Sub!Finally
      <4>1. /\ busy' \in BOOLEAN /\ worker' = Sub!Resting
            /\ UNCHANGED <<client, call, sending, online, callbacks, subscriptions, hook, net, seen,
                           socket, session, maker, outages>>
        BY <3>3 DEF Sub!Finally
      <4>2. Sub!Resting \in [pc : {"stopped", "test", "try", "mark", "resubscribe", "finally"},
                              todo : SUBSET Topics, seen : SUBSET Topics]
        BY DEF Sub!Resting
      <4>3. QED BY <4>1, <4>2 DEF Sub!TypeOK
    <3>4. QED BY <1>3, <3>1, <3>2, <3>3
  <2>2. /\ worker.pc \notin {"mark", "resubscribe"} /\ worker'.pc # "resubscribe"
        /\ socket' = "up" => \/ UNCHANGED <<socket, session, maker>>
                             \/ maker' = "thread" /\ worker'.pc = "mark"
    BY <1>2, <1>3 DEF Sub!TestConnected, Sub!ReconnectFails, Sub!ReconnectSucceeds, Sub!Finally,
                      Sub!Resting, Sub!Linked, Sub!Unlinked
  <2>3. Undone = {} /\ Undone' = {} /\ ~Outrun
    BY <2>2 DEF Undone, Outrun
  <2>4. Carried'
    BY <1>1, <2>2, <2>3 DEF Carried
  <2>5. QED BY <2>1, <2>4
<1>4. CASE Sub!SetConnected
  <2>1. Sub!TypeOK'
    BY <1>2, <1>4 DEF Sub!TypeOK, Sub!SetConnected
  <2>2. /\ worker.pc = "mark" /\ worker'.pc = "resubscribe" /\ worker'.seen = subscriptions
        /\ Undone' = subscriptions /\ UNCHANGED <<socket, session, maker>>
    BY <1>4 DEF Sub!SetConnected, Undone
  <2>3. Undone = {} /\ ~Outrun
    BY <2>2 DEF Undone, Outrun
  <2>4. Carried'
    BY <1>1, <2>2, <2>3 DEF Carried
  <2>5. QED BY <2>1, <2>4
<1>5. CASE Sub!Resubscribe
  <2>1. PICK t \in worker.todo : /\ worker' = [worker EXCEPT !.todo = @ \ {t}]
                                 /\ session' = IF socket = "up" THEN session \cup {t} ELSE session
    BY <1>5 DEF Sub!Resubscribe, Sub!Sent
  <2>2. /\ worker.pc = "resubscribe" /\ worker.seen = subscriptions
        /\ UNCHANGED <<client, call, sending, online, busy, callbacks, subscriptions, hook, net,
                       seen, socket, maker, outages>>
    BY <1>5 DEF Sub!Resubscribe
  <2>3. /\ worker' \in [pc : {"stopped", "test", "try", "mark", "resubscribe", "finally"},
                        todo : SUBSET Topics, seen : SUBSET Topics]
        /\ worker'.pc = "resubscribe" /\ worker'.seen = subscriptions
        /\ worker'.todo = worker.todo \ {t}
    BY <1>2, <2>1, <2>2
  <2>4. Sub!TypeOK'
    BY <1>2, <2>1, <2>2, <2>3 DEF Sub!TypeOK
  <2>5. Undone = worker.todo /\ Undone' = worker.todo \ {t} /\ ~Outrun /\ ~Outrun'
    BY <2>2, <2>3 DEF Undone, Outrun
  <2>6. Carried'
    BY <1>1, <2>1, <2>2, <2>3, <2>5 DEF Carried
  <2>7. QED BY <2>4, <2>6
<1>6. CASE Sub!ResubscribeEnds
  <2>1. /\ worker.pc = "resubscribe" /\ worker'.pc \in {"test", "finally"}
        /\ UNCHANGED <<socket, session>>
        /\ \/ Outrun /\ maker' # "thread" /\ (maker' = "program" => maker = "program")
           \/ ~Outrun /\ worker.todo = {} /\ UNCHANGED maker
    BY <1>2, <1>6 DEF Sub!ResubscribeEnds, Outrun
  <2>2. Sub!TypeOK'
    BY <1>2, <1>6 DEF Sub!TypeOK, Sub!ResubscribeEnds
  <2>3. Undone' = {} /\ Undone = worker.todo
    BY <2>1 DEF Undone
  <2>4. Carried'
    BY <1>1, <2>1, <2>3 DEF Carried
  <2>5. QED BY <2>2, <2>4
<1>7. QED BY <1>3, <1>4, <1>5, <1>6 DEF Sub!ReconnectStep

LEMMA SubStep == ASSUME SubscriberConstants PROVE SubInv /\ [Sub!Next]_(Sub!vars) => SubInv'
BY ProgramCarries, NetworkCarries, WorkerCarries DEF Sub!Next

\* Types of the subscriber's calls, connection, session and reconnect thread.
THEOREM SubscriberTypes == ASSUME SubscriberConstants PROVE Sub!Spec => []Sub!TypeOK
<1>1. SubInv => Sub!TypeOK
  BY DEF SubInv
<1>2. QED BY SubInit, SubStep, <1>1, PTL DEF Sub!Spec

\* mqtt_client.py _resubscribe: after any outages, early ones too, the broker has
\* every recorded subscription on a connection the program or the reconnect thread
\* made, unless a new subscribe() cut the thread's loop short.
THEOREM SubscriptionsRestored == ASSUME SubscriberConstants PROVE Sub!Spec => []Sub!Restored
<1>1. SubInv => Sub!Restored
  BY DEF SubInv, Carried, Unsent, Undone, Outrun, Sub!TypeOK, Sub!Restored, Sub!Settled, Sub!Started
<1>2. QED BY SubInit, SubStep, <1>1, PTL DEF Sub!Spec
=============================================================================
