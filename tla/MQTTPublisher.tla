--------------------------- MODULE MQTTPublisher ---------------------------
(***************************************************************************)
(* mqtt_client.py MQTTPublisher with store_and_forward.py                  *)
(* StoreAndForwardQueue: the connected flag, the reconnect thread that     *)
(* on_disconnect starts, and the outbox the thread drains.                 *)
(*                                                                         *)
(* Threads: the application's event loop (connect, disconnect, enqueue,    *)
(* publish), paho's network thread (the link, on_disconnect) and the       *)
(* reconnect threads.  paho-mqtt 2.1 is external: with the network thread  *)
(* running it reconnects the link by itself, keeps a QoS 1 message from    *)
(* publish to PUBACK across reconnections, raises out of wait_for_publish  *)
(* when publish found no connection, and calls on_disconnect from          *)
(* disconnect() too.  Backoff delays and timeouts are left out.            *)
(***************************************************************************)
EXTENDS Integers, Sequences

CONSTANTS
  Threads,      \* identities for reconnect threads
  NoThread,     \* nobody waits for the message's PUBACK
  MaxMsg,       \* messages are 1..MaxMsg, in the order the program makes them
  BestEffort,   \* those published with QoS 0; the others with QoS 1
  EarlyOutage,  \* whether the link may break before connect() has returned
  Direct,       \* those the program may publish past the outbox while connected
  MayClose,     \* whether the program calls disconnect()
  MayCrash,     \* whether the process may die and be started again
  MaxFaults     \* bound on lost links and crashes

Messages == 1..MaxMsg

ASSUME PublisherAssumption ==
  /\ NoThread \notin Threads
  /\ MaxMsg \in Nat
  /\ BestEffort \subseteq Messages
  /\ EarlyOutage \in BOOLEAN
  /\ Direct \subseteq Messages
  /\ MayClose \in BOOLEAN
  /\ MayCrash \in BOOLEAN
  /\ MaxFaults \in Nat

VARIABLES
  app,           \* where the application is in connect() and disconnect()
  link,          \* the socket to the broker
  callback,      \* the next step of _on_disconnect, if one is due
  connected,     \* MQTTPublisher._connected
  reconnecting,  \* MQTTPublisher._reconnecting
  thread,        \* the reconnect threads: pc, row of the outbox, rows after it
  outbox,        \* ids of the rows of the outbox table
  inflight,      \* paho's QoS 1 messages without PUBACK, and who waits for it
  received,      \* what the broker has received, in order
  next,          \* the message the program makes next
  faults

paho == <<link, inflight, received>>
program == <<app, next>>
vars == <<app, link, callback, connected, reconnecting, thread, outbox,
          inflight, received, next, faults>>

-----------------------------------------------------------------------------
NoRow == 0

Stopped == [pc |-> "stopped", row |-> NoRow, todo |-> {}]

Entry == [msg : Messages, waiter : Threads \cup {NoThread}]

TypeOK ==
  /\ app \in {"new", "linking", "up", "stopping", "closing", "closed"}
  /\ link \in {"up", "down"}
  /\ callback \in {"none", "clear", "start"}
  /\ connected \in BOOLEAN
  /\ reconnecting \in BOOLEAN
  /\ thread \in [Threads -> [pc : {"stopped", "test", "try", "mark", "select",
                                   "publish", "wait", "dequeue", "finally"},
                             row : Messages \cup {NoRow},
                             todo : SUBSET Messages]]
  /\ \A t \in Threads :
       thread[t].pc \in {"publish", "wait", "dequeue"} => thread[t].row # NoRow
  /\ outbox \subseteq Messages
  /\ inflight \in Seq(Entry)
  /\ received \in Seq(Messages)
  /\ next \in 1..(MaxMsg + 1)
  /\ faults \in Nat

Init ==
  /\ app = "new"
  /\ link = "down"
  /\ callback = "none"
  /\ connected = FALSE
  /\ reconnecting = FALSE
  /\ thread = [t \in Threads |-> Stopped]
  /\ outbox = {}
  /\ inflight = <<>>
  /\ received = <<>>
  /\ next = 1
  /\ faults = 0

-----------------------------------------------------------------------------
(* paho's network thread, which loop_start runs and loop_stop ends *)

NetworkThread == app \in {"linking", "up"}

MayBreak == link = "up" /\ (app = "up" \/ EarlyOutage) /\ faults < MaxFaults

\* The link breaks; on_disconnect is called on the network thread, which does
\* nothing else until it returns.
LoseLink ==
  /\ NetworkThread
  /\ callback = "none"
  /\ MayBreak
  /\ link' = "down"
  /\ callback' = "clear"
  /\ faults' = faults + 1
  /\ UNCHANGED <<program, connected, reconnecting, thread, outbox, inflight, received>>

\* loop_forever reconnects by itself; no callback of this class is called.
Relink ==
  /\ NetworkThread
  /\ link = "down"
  /\ callback = "none"
  /\ link' = "up"
  /\ UNCHANGED <<program, callback, connected, reconnecting, thread, outbox,
                 inflight, received, faults>>

\* The broker receives the oldest message in flight and its PUBACK arrives.
Puback ==
  /\ NetworkThread
  /\ link = "up"
  /\ callback = "none"
  /\ inflight # <<>>
  /\ received' = Append(received, Head(inflight).msg)
  /\ inflight' = Tail(inflight)
  /\ UNCHANGED <<program, link, callback, connected, reconnecting, thread, outbox, faults>>

\* The broker receives it, but the link breaks before the PUBACK: the message
\* stays in flight and is sent again.
LosePuback ==
  /\ NetworkThread
  /\ callback = "none"
  /\ MayBreak
  /\ inflight # <<>>
  /\ received' = Append(received, Head(inflight).msg)
  /\ link' = "down"
  /\ callback' = "clear"
  /\ faults' = faults + 1
  /\ UNCHANGED <<program, connected, reconnecting, thread, outbox, inflight>>

-----------------------------------------------------------------------------
(* _on_disconnect *)

ClearConnected ==
  /\ callback = "clear"
  /\ connected' = FALSE
  /\ callback' = "start"
  /\ UNCHANGED <<program, paho, reconnecting, thread, outbox, faults>>

\* Mutant of StartReconnect: the flag is not looked at.
StartAnyway ==
  /\ callback = "start"
  /\ callback' = "none"
  /\ reconnecting' = TRUE
  /\ \E t \in Threads :
       /\ thread[t].pc = "stopped"
       /\ thread' = [thread EXCEPT ![t].pc = "test"]
  /\ UNCHANGED <<program, paho, connected, outbox, faults>>

\* Under _reconnect_lock: a thread is started unless one is at work.
StartReconnect ==
  /\ callback = "start"
  /\ callback' = "none"
  /\ IF reconnecting
     THEN UNCHANGED <<reconnecting, thread>>
     ELSE /\ reconnecting' = TRUE
          /\ \E t \in Threads :
               /\ thread[t].pc = "stopped"
               /\ thread' = [thread EXCEPT ![t].pc = "test"]
  /\ UNCHANGED <<program, paho, connected, outbox, faults>>

-----------------------------------------------------------------------------
(* _reconnect_loop *)

At(t, pc) == thread[t].pc = pc
Go(t, pc) == thread' = [thread EXCEPT ![t].pc = pc]

\* while not self._connected
TestConnected(t) ==
  /\ At(t, "test")
  /\ Go(t, IF connected THEN "finally" ELSE "try")
  /\ UNCHANGED <<program, paho, callback, connected, reconnecting, outbox, faults>>

\* Mutant of ReconnectFails: the thread gives up at the first failure.
ReconnectGivesUp(t) ==
  /\ At(t, "try")
  /\ link' = "down"
  /\ Go(t, "finally")
  /\ UNCHANGED <<program, inflight, received, callback, connected, reconnecting, outbox, faults>>

\* client.reconnect() drops the socket it has and fails; sleep and retry.
ReconnectFails(t) ==
  /\ At(t, "try")
  /\ link' = "down"
  /\ Go(t, "test")
  /\ UNCHANGED <<program, inflight, received, callback, connected, reconnecting, outbox, faults>>

ReconnectSucceeds(t) ==
  /\ At(t, "try")
  /\ link' = "up"
  /\ Go(t, "mark")
  /\ UNCHANGED <<program, inflight, received, callback, connected, reconnecting, outbox, faults>>

\* Mutant of SetConnected: the outbox is not drained.
SetConnectedOnly(t) ==
  /\ At(t, "mark")
  /\ connected' = TRUE
  /\ Go(t, "finally")
  /\ UNCHANGED <<program, paho, callback, reconnecting, outbox, faults>>

SetConnected(t) ==
  /\ At(t, "mark")
  /\ connected' = TRUE
  /\ Go(t, "select")
  /\ UNCHANGED <<program, paho, callback, reconnecting, outbox, faults>>

\* The thread returns, and another may be started.
Finally(t) ==
  /\ At(t, "finally")
  /\ reconnecting' = FALSE
  /\ thread' = [thread EXCEPT ![t] = Stopped]
  /\ UNCHANGED <<program, paho, callback, connected, outbox, faults>>

-----------------------------------------------------------------------------
(* StoreAndForwardQueue.drain, on the reconnect thread *)

\* Mutant of Take: ORDER BY id DESC.
TakeNewest(t, rows) ==
  \/ /\ rows = {}
     /\ thread' = [thread EXCEPT ![t] = [Stopped EXCEPT !.pc = "finally"]]
  \/ \E m \in rows :
       /\ \A n \in rows : n <= m
       /\ thread' = [thread EXCEPT ![t] = [pc |-> "publish", row |-> m, todo |-> rows \ {m}]]

\* The loop over rows goes on with the oldest, or drain returns.
Take(t, rows) ==
  \/ /\ rows = {}
     /\ thread' = [thread EXCEPT ![t] = [Stopped EXCEPT !.pc = "finally"]]
  \/ \E m \in rows :
       /\ \A n \in rows : m <= n
       /\ thread' = [thread EXCEPT ![t] = [pc |-> "publish", row |-> m, todo |-> rows \ {m}]]

NextRow(t) == Take(t, thread[t].todo)

Row(t) == thread[t].row

\* SELECT ... ORDER BY id
SelectRows(t) ==
  /\ At(t, "select")
  /\ Take(t, outbox)
  /\ UNCHANGED <<program, paho, callback, connected, reconnecting, outbox, faults>>

\* publish raises ConnectionError: the row stays, and drain goes on with the
\* next one.
PublishRefused(t) ==
  /\ At(t, "publish")
  /\ ~connected
  /\ NextRow(t)
  /\ UNCHANGED <<program, paho, callback, connected, reconnecting, outbox, faults>>

\* QoS 0: publish returns whether or not there is a link to send on.
PublishQos0(t) ==
  /\ At(t, "publish")
  /\ connected
  /\ Row(t) \in BestEffort
  /\ received' = IF link = "up" THEN Append(received, Row(t)) ELSE received
  /\ Go(t, "dequeue")
  /\ UNCHANGED <<program, link, inflight, callback, connected, reconnecting, outbox, faults>>

\* QoS 1 without a link that _on_disconnect has not reported yet: paho keeps
\* the message, wait_for_publish raises and the row stays.
PublishUnlinked(t) ==
  /\ At(t, "publish")
  /\ connected
  /\ Row(t) \notin BestEffort
  /\ link = "down"
  /\ inflight' = Append(inflight, [msg |-> Row(t), waiter |-> NoThread])
  /\ NextRow(t)
  /\ UNCHANGED <<program, link, received, callback, connected, reconnecting, outbox, faults>>

\* Mutant of PublishSent: the row is deleted without waiting for the PUBACK.
PublishUnacked(t) ==
  /\ At(t, "publish")
  /\ connected
  /\ Row(t) \notin BestEffort
  /\ link = "up"
  /\ inflight' = Append(inflight, [msg |-> Row(t), waiter |-> t])
  /\ Go(t, "dequeue")
  /\ UNCHANGED <<program, link, received, callback, connected, reconnecting, outbox, faults>>

\* QoS 1 with a link: the thread waits for the PUBACK, without a timeout.
PublishSent(t) ==
  /\ At(t, "publish")
  /\ connected
  /\ Row(t) \notin BestEffort
  /\ link = "up"
  /\ inflight' = Append(inflight, [msg |-> Row(t), waiter |-> t])
  /\ Go(t, "wait")
  /\ UNCHANGED <<program, link, received, callback, connected, reconnecting, outbox, faults>>

\* wait_for_publish returns.
Acknowledged(t) ==
  /\ At(t, "wait")
  /\ \A i \in 1..Len(inflight) : inflight[i].waiter # t
  /\ Go(t, "dequeue")
  /\ UNCHANGED <<program, paho, callback, connected, reconnecting, outbox, faults>>

\* DELETE ... WHERE id = ?
Dequeue(t) ==
  /\ At(t, "dequeue")
  /\ outbox' = outbox \ {Row(t)}
  /\ NextRow(t)
  /\ UNCHANGED <<program, paho, callback, connected, reconnecting, faults>>

-----------------------------------------------------------------------------
(* The application *)

\* connect(): the link is made and the network thread started ...
Connect ==
  /\ app = "new"
  /\ app' = "linking"
  /\ link' = "up"
  /\ UNCHANGED <<callback, connected, reconnecting, thread, outbox, inflight, received,
                 next, faults>>

\* ... and then the flag is set.
ConnectDone ==
  /\ app = "linking"
  /\ app' = "up"
  /\ connected' = TRUE
  /\ UNCHANGED <<paho, callback, reconnecting, thread, outbox, next, faults>>

Enqueue ==
  /\ next <= MaxMsg
  /\ next' = next + 1
  /\ outbox' = outbox \cup {next}
  /\ UNCHANGED <<app, paho, callback, connected, reconnecting, thread, faults>>

\* publish() called by the program for a message it does not store.
PublishDirect ==
  /\ next \in Direct
  /\ connected
  /\ next <= MaxMsg
  /\ next' = next + 1
  /\ inflight' = Append(inflight, [msg |-> next, waiter |-> NoThread])
  /\ UNCHANGED <<app, link, received, callback, connected, reconnecting, thread, outbox, faults>>

\* disconnect(): loop_stop waits for the network thread to return from the
\* callback it may be in ...
Disconnect ==
  /\ MayClose
  /\ app = "up"
  /\ connected
  /\ callback = "none"
  /\ app' = "stopping"
  /\ UNCHANGED <<paho, callback, connected, reconnecting, thread, outbox, next, faults>>

\* ... client.disconnect() closes the socket and calls on_disconnect ...
DisconnectClient ==
  /\ app = "stopping"
  /\ app' = "closing"
  /\ link' = "down"
  /\ callback' = IF link = "up" THEN "clear" ELSE callback
  /\ UNCHANGED <<connected, reconnecting, thread, outbox, inflight, received, next, faults>>

\* ... and the flag is cleared.
DisconnectDone ==
  /\ app = "closing"
  /\ callback = "none"
  /\ app' = "closed"
  /\ connected' = FALSE
  /\ UNCHANGED <<paho, callback, reconnecting, thread, outbox, next, faults>>

\* The process dies and is started again on the same outbox file.
Restart ==
  /\ MayCrash
  /\ faults < MaxFaults
  /\ faults' = faults + 1
  /\ app' = "new"
  /\ link' = "down"
  /\ callback' = "none"
  /\ connected' = FALSE
  /\ reconnecting' = FALSE
  /\ thread' = [t \in Threads |-> Stopped]
  /\ inflight' = <<>>
  /\ UNCHANGED <<outbox, received, next>>

-----------------------------------------------------------------------------
Callback == ClearConnected \/ StartReconnect

Drain(t) ==
  \/ SelectRows(t)
  \/ PublishRefused(t)
  \/ PublishQos0(t)
  \/ PublishUnlinked(t)
  \/ PublishSent(t)
  \/ Acknowledged(t)
  \/ Dequeue(t)

ReconnectStep(t) ==
  \/ TestConnected(t)
  \/ ReconnectFails(t)
  \/ ReconnectSucceeds(t)
  \/ SetConnected(t)
  \/ Drain(t)
  \/ Finally(t)

Application ==
  \/ Connect
  \/ ConnectDone
  \/ Enqueue
  \/ PublishDirect
  \/ Disconnect
  \/ DisconnectClient
  \/ DisconnectDone
  \/ Restart

Next ==
  \/ LoseLink
  \/ Relink
  \/ Puback
  \/ LosePuback
  \/ Callback
  \/ \E t \in Threads : ReconnectStep(t)
  \/ Application

Spec == Init /\ [][Next]_vars

\* Threads run, connect() finishes, the broker answers, and one that keeps
\* being tried is reached in the end.
Fairness ==
  /\ WF_vars(Callback)
  /\ WF_vars(ConnectDone)
  /\ WF_vars(Relink)
  /\ WF_vars(Puback)
  /\ \A t \in Threads :
       /\ WF_vars(ReconnectStep(t))
       /\ SF_vars(ReconnectSucceeds(t))

FairSpec == Spec /\ Fairness

-----------------------------------------------------------------------------
(* Properties *)

Received == {received[i] : i \in 1..Len(received)}

\* The messages the queue is for: those the program stores, with QoS 1.
Durable == Messages \ (Direct \cup BestEffort)

\* What the outbox is for: AtLeastOnce's queue, whose Forget may drop only what
\* the broker has.
Queue == INSTANCE AtLeastOnce WITH
  Items <- Durable,
  made <- Durable \cap 1..(next - 1),
  stored <- Durable \cap outbox,
  got <- Durable \cap Received

\* "Successfully published messages are removed from the queue.  Messages that
\* fail to publish remain in the queue" (store_and_forward.py:131-132): whatever
\* links, threads and crashes do, and whatever is published past the outbox or
\* with QoS 0 meanwhile, the steps of the publisher are those of a queue that
\* removes a message only after the broker has received it.
ImplementsQueue == Queue!Spec

\* "On reconnection the queue drains in FIFO order before new messages are
\* published" (store_and_forward.py:5-6): of the messages that go through the
\* outbox at QoS 1 the broker receives none before it has received all that were
\* made earlier, redeliveries apart.  Messages published past the outbox may
\* overtake them.  It needs a connection that outlives connect().
InOrder ==
  \A i \in 1..Len(received) : \A m \in Durable :
    received[i] \in Durable /\ m < received[i] => \E j \in 1..i : received[j] = m

\* The lock and the flag let one reconnect thread at a time run, so two drains
\* never publish the same rows side by side.
OneReconnector ==
  \A t, u \in Threads : thread[t].pc # "stopped" /\ thread[u].pc # "stopped" => t = u

\* "Automatic reconnection with exponential backoff" (mqtt_client.py:138): an
\* outage that a reconnect thread takes on ends with the publisher connected,
\* unless the program closes it or dies.  One that _on_disconnect reports to a
\* thread that has reconnected and not yet returned is taken on by nobody, and
\* _connected stays FALSE.
OutageHeals == (\E t \in Threads : thread[t].pc = "try") ~> connected \/ app # "up"

\* "Store-and-forward queue drain on reconnection" (mqtt_client.py:139): a
\* reconnection that no outage follows brings every stored message to the
\* broker, unless the program closes the publisher.
LastReconnection ==
  /\ \E t \in Threads : thread[t].pc = "mark"
  /\ link = "up"
  /\ callback = "none"
  /\ faults = MaxFaults

OutageDrained ==
  \A m \in Messages :
    LastReconnection /\ m \in outbox ~> m \in Received \/ app # "up"
=============================================================================
