--------------------------- MODULE MQTTSubscriber ---------------------------
(***************************************************************************)
(* mqtt_client.py MQTTSubscriber: the topics the program subscribes to     *)
(* while it starts, the dispatch of messages to their callbacks, and the   *)
(* thread that reconnects and subscribes again after a lost connection.    *)
(*                                                                         *)
(* Threads: the event loop (connect, subscribe, disconnect), paho's        *)
(* network thread (dispatch, on_disconnect) and the reconnect thread.      *)
(* They share two dicts without a lock; Python raises RuntimeError when a  *)
(* dict changes size while it is iterated, which is modelled by comparing  *)
(* its keys with those seen at the start.  paho-mqtt 2.1 is external: its  *)
(* network thread reconnects by itself after every lost connection, whether *)
(* or not somebody has reconnected meanwhile, each connection is a clean   *)
(* session, subscribe() on a missing socket raises nothing, an exception   *)
(* that on_message lets out ends the thread, and disconnect() calls        *)
(* on_disconnect.  Backoff delays are left out.                            *)
(***************************************************************************)
EXTENDS Integers, Sequences

CONSTANTS
  Topics,
  Calls,        \* the topics of the program's subscribe calls, in order
  Required,     \* topics whose failed subscribe() ends the program
  MayClose,     \* whether the program calls disconnect()
  MaxFaults     \* bound on broken connections

ASSUME SubscriberAssumption ==
  /\ Calls \in Seq(Topics)
  /\ Required \subseteq Topics
  /\ MayClose \in BOOLEAN
  /\ MaxFaults \in Nat

VARIABLES
  app,            \* where the program is in connect() and disconnect()
  next,           \* index of the next call of subscribe
  sending,        \* whether that call has recorded the topic and not sent it
  connected,      \* MQTTSubscriber._connected
  reconnecting,   \* MQTTSubscriber._reconnecting
  callbacks,      \* keys of _callbacks
  subscriptions,  \* keys of _subscriptions
  hook,           \* the next step of _on_disconnect, if it is called
  worker,         \* the reconnect thread: pc, topics to do, topics seen
  net,            \* the network thread
  seen,           \* keys of _callbacks when the dispatch in progress began
  link,           \* the socket
  session,        \* the broker's subscriptions of the connection
  maker,          \* history: who made the connection; "cut" if the thread did
                  \* and an exception cut its resubscription short
  faults

program == <<app, next, sending>>
dicts == <<callbacks, subscriptions>>
flags == <<connected, reconnecting>>
broker == <<link, session, maker>>
network == <<net, seen>>
vars == <<app, next, sending, connected, reconnecting, callbacks, subscriptions,
          hook, worker, net, seen, link, session, maker, faults>>

-----------------------------------------------------------------------------
Resting == [pc |-> "stopped", todo |-> {}, seen |-> {}]

TypeOK ==
  /\ app \in {"new", "linking", "up", "joining", "stopping", "closing", "closed", "failed"}
  /\ next \in 1..(Len(Calls) + 1)
  /\ sending \in BOOLEAN
  /\ sending => next <= Len(Calls)
  /\ connected \in BOOLEAN
  /\ reconnecting \in BOOLEAN
  /\ callbacks \subseteq Topics
  /\ subscriptions \subseteq Topics
  /\ hook \in {"none", "clear", "start"}
  /\ worker \in [pc : {"stopped", "test", "try", "mark", "resubscribe", "finally"},
                 todo : SUBSET Topics,
                 seen : SUBSET Topics]
  /\ ~reconnecting => worker = Resting
  /\ net \in {"off", "loop", "handler", "callback", "backoff", "dead"}
  /\ seen \subseteq Topics
  /\ link \in {"up", "broken", "none"}
  /\ session \subseteq Topics
  /\ maker \in {"nobody", "program", "thread", "paho", "cut"}
  /\ faults \in 0..MaxFaults

Init ==
  /\ app = "new"
  /\ next = 1
  /\ sending = FALSE
  /\ connected = FALSE
  /\ reconnecting = FALSE
  /\ callbacks = {}
  /\ subscriptions = {}
  /\ hook = "none"
  /\ worker = Resting
  /\ net = "off"
  /\ seen = {}
  /\ link = "none"
  /\ session = {}
  /\ maker = "nobody"
  /\ faults = 0

\* A new connection is a clean session.
Linked(by) == link' = "up" /\ session' = {} /\ maker' = by

Unlinked == link' = "none" /\ session' = {} /\ UNCHANGED maker

Started == app = "up" /\ next > Len(Calls)

-----------------------------------------------------------------------------
(* The program *)

\* connect(): the executor's client.connect and loop_start ...
Connect ==
  /\ app = "new"
  /\ app' = "linking"
  /\ net' = "loop"
  /\ Linked("program")
  /\ UNCHANGED <<next, sending, flags, dicts, hook, worker, seen, faults>>

\* ... then the flag.
ConnectDone ==
  /\ app = "linking"
  /\ app' = "up"
  /\ connected' = TRUE
  /\ UNCHANGED <<next, sending, reconnecting, dicts, hook, worker, network, broker, faults>>

MaySubscribe == app = "up" /\ ~sending /\ next <= Len(Calls)

\* subscribe() raises; the program goes on without the topic, or ends.
SubscribeRaises ==
  /\ MaySubscribe
  /\ ~connected
  /\ next' = next + 1
  /\ app' = IF Calls[next] \in Required THEN "failed" ELSE app
  /\ UNCHANGED <<sending, flags, dicts, hook, worker, network, broker, faults>>

\* subscribe() records callback and topic ...
Subscribe ==
  /\ MaySubscribe
  /\ connected
  /\ callbacks' = callbacks \cup {Calls[next]}
  /\ subscriptions' = subscriptions \cup {Calls[next]}
  /\ sending' = TRUE
  /\ UNCHANGED <<app, next, flags, hook, worker, network, broker, faults>>

\* What client.subscribe() brings about at the broker.
Sent(t) == session' = IF link = "up" THEN session \cup {t} ELSE session

\* ... and an executor thread sends it.
Send ==
  /\ sending
  /\ Sent(Calls[next])
  /\ sending' = FALSE
  /\ next' = next + 1
  /\ UNCHANGED <<app, flags, dicts, hook, worker, network, link, maker, faults>>

Disconnect ==
  /\ MayClose
  /\ Started
  /\ connected
  /\ app' = "joining"
  /\ UNCHANGED <<next, sending, flags, dicts, hook, worker, network, broker, faults>>

\* loop_stop() joins the network thread when it is out of callbacks.
Joined ==
  /\ app = "joining"
  /\ net \in {"loop", "backoff", "dead"}
  /\ app' = "stopping"
  /\ net' = "off"
  /\ UNCHANGED <<next, sending, flags, dicts, hook, worker, seen, broker, faults>>

\* client.disconnect() calls on_disconnect if there is a socket.
DisconnectClient ==
  /\ app = "stopping"
  /\ hook = "none"
  /\ app' = "closing"
  /\ hook' = IF link = "none" THEN "none" ELSE "clear"
  /\ Unlinked
  /\ UNCHANGED <<next, sending, flags, dicts, worker, network, faults>>

DisconnectDone ==
  /\ app = "closing"
  /\ hook = "none"
  /\ app' = "closed"
  /\ connected' = FALSE
  /\ callbacks' = {}
  /\ subscriptions' = {}
  /\ UNCHANGED <<next, sending, reconnecting, hook, worker, network, broker, faults>>

-----------------------------------------------------------------------------
(* The connection and paho's network thread *)

Break ==
  /\ link = "up"
  /\ faults < MaxFaults
  /\ link' = "broken"
  /\ session' = {}
  /\ faults' = faults + 1
  /\ UNCHANGED <<program, flags, dicts, hook, worker, network, maker>>

\* The loop finds the connection broken and calls on_disconnect.
Notice ==
  /\ net = "loop"
  /\ link = "broken"
  /\ net' = "callback"
  /\ hook' = "clear"
  /\ Unlinked
  /\ UNCHANGED <<program, flags, dicts, worker, seen, faults>>

\* The loop finds no socket: a reconnect() of the other thread closed it.
NoSocket ==
  /\ net = "loop"
  /\ link = "none"
  /\ net' = "backoff"
  /\ UNCHANGED <<program, flags, dicts, hook, worker, seen, broker, faults>>

\* loop_forever reconnects, on top of any connection made meanwhile.
Relink ==
  /\ net = "backoff"
  /\ net' = "loop"
  /\ Linked("paho")
  /\ UNCHANGED <<program, flags, dicts, hook, worker, seen, faults>>

RelinkFails ==
  /\ net = "backoff"
  /\ Unlinked
  /\ UNCHANGED <<program, flags, dicts, hook, worker, network, faults>>

-----------------------------------------------------------------------------
(* _on_message *)

\* A message arrives; the loop over _callbacks begins.
Dispatch ==
  /\ net = "loop"
  /\ link = "up"
  /\ session # {}
  /\ net' = "handler"
  /\ seen' = callbacks
  /\ UNCHANGED <<program, flags, dicts, hook, worker, broker, faults>>

\* The callback returns (what it raises is caught) and the loop goes on, unless
\* a topic was added: that exception leaves on_message and ends the thread.
DispatchGoesOn ==
  /\ net = "handler"
  /\ net' = IF seen = callbacks THEN "loop" ELSE "dead"
  /\ seen' = {}
  /\ UNCHANGED <<program, flags, dicts, hook, worker, broker, faults>>

-----------------------------------------------------------------------------
(* _on_disconnect *)

ClearConnected ==
  /\ hook = "clear"
  /\ connected' = FALSE
  /\ hook' = "start"
  /\ UNCHANGED <<program, reconnecting, dicts, worker, network, broker, faults>>

\* Under _reconnect_lock: a thread is started unless one is at work.
StartReconnect ==
  /\ hook = "start"
  /\ hook' = "none"
  /\ net' = IF net = "callback" THEN "backoff" ELSE net
  /\ reconnecting' = TRUE
  /\ worker' = IF reconnecting THEN worker ELSE [Resting EXCEPT !.pc = "test"]
  /\ UNCHANGED <<program, connected, dicts, seen, broker, faults>>

-----------------------------------------------------------------------------
(* _reconnect_loop *)

Go(pc) == worker' = [worker EXCEPT !.pc = pc]

TestConnected ==
  /\ worker.pc = "test"
  /\ Go(IF connected THEN "finally" ELSE "try")
  /\ UNCHANGED <<program, flags, dicts, hook, network, broker, faults>>

\* Mutant of ReconnectFails: the thread gives up at the first failure.
ReconnectGivesUp ==
  /\ worker.pc = "try"
  /\ Go("finally")
  /\ Unlinked
  /\ UNCHANGED <<program, flags, dicts, hook, network, faults>>

\* client.reconnect() closes the socket it finds and fails; sleep and retry.
ReconnectFails ==
  /\ worker.pc = "try"
  /\ Go("test")
  /\ Unlinked
  /\ UNCHANGED <<program, flags, dicts, hook, network, faults>>

ReconnectSucceeds ==
  /\ worker.pc = "try"
  /\ Go("mark")
  /\ Linked("thread")
  /\ UNCHANGED <<program, flags, dicts, hook, network, faults>>

\* _resubscribe begins its loop over _subscriptions.
SetConnected ==
  /\ worker.pc = "mark"
  /\ connected' = TRUE
  /\ worker' = [pc |-> "resubscribe", todo |-> subscriptions, seen |-> subscriptions]
  /\ UNCHANGED <<program, reconnecting, dicts, hook, network, broker, faults>>

\* Mutant of Resubscribe: the loop ends after one topic.
ResubscribeOne ==
  /\ worker.pc = "resubscribe"
  /\ worker.seen = subscriptions
  /\ \E t \in worker.todo :
       /\ Sent(t)
       /\ worker' = [worker EXCEPT !.todo = {}]
  /\ UNCHANGED <<program, flags, dicts, hook, network, link, maker, faults>>

Resubscribe ==
  /\ worker.pc = "resubscribe"
  /\ worker.seen = subscriptions
  /\ \E t \in worker.todo :
       /\ Sent(t)
       /\ worker' = [worker EXCEPT !.todo = @ \ {t}]
  /\ UNCHANGED <<program, flags, dicts, hook, network, link, maker, faults>>

\* Done, or a topic was added: that exception is taken for a failed attempt.
ResubscribeEnds ==
  /\ worker.pc = "resubscribe"
  /\ \/ /\ worker.seen # subscriptions
        /\ Go("test")
        /\ maker' = IF maker = "thread" THEN "cut" ELSE maker
     \/ /\ worker.seen = subscriptions
        /\ worker.todo = {}
        /\ Go("finally")
        /\ UNCHANGED maker
  /\ UNCHANGED <<program, flags, dicts, hook, network, link, session, faults>>

\* The thread returns, and another may be started.
Finally ==
  /\ worker.pc = "finally"
  /\ reconnecting' = FALSE
  /\ worker' = Resting
  /\ UNCHANGED <<program, connected, dicts, hook, network, broker, faults>>

-----------------------------------------------------------------------------
Program ==
  \/ Connect
  \/ ConnectDone
  \/ SubscribeRaises
  \/ Subscribe
  \/ Send
  \/ Disconnect
  \/ Joined
  \/ DisconnectClient
  \/ DisconnectDone

Network ==
  \/ Notice
  \/ NoSocket
  \/ Relink
  \/ DispatchGoesOn

OnDisconnect == ClearConnected \/ StartReconnect

ReconnectStep ==
  \/ TestConnected
  \/ ReconnectFails
  \/ ReconnectSucceeds
  \/ SetConnected
  \/ Resubscribe
  \/ ResubscribeEnds
  \/ Finally

Next ==
  \/ Program
  \/ Break
  \/ Network
  \/ RelinkFails
  \/ Dispatch
  \/ OnDisconnect
  \/ ReconnectStep

Spec == Init /\ [][Next]_vars

\* The threads run; an attempt to reconnect that is repeated for ever succeeds
\* some time (the broker comes back), and so does paho's.
Fairness ==
  /\ WF_vars(Network)
  /\ WF_vars(OnDisconnect)
  /\ WF_vars(ReconnectStep)
  /\ SF_vars(ReconnectSucceeds)

FairSpec == Spec /\ Fairness

-----------------------------------------------------------------------------
(* Properties *)

\* The program is started and nobody is at work on the connection.
Settled == Started /\ link = "up" /\ net = "loop" /\ worker.pc = "stopped"

\* "Re-subscription on reconnection" (mqtt_client.py:442): after any outages,
\* early ones too, the broker has every recorded subscription.  Excepted are a
\* connection that paho made by itself, on which nobody subscribes, and one
\* whose resubscription ended with the RuntimeError of a new subscribe().
Restored ==
  Settled /\ maker \in {"program", "thread"} => subscriptions \subseteq session

\* "Automatic reconnection with exponential backoff" (mqtt_client.py:441): an
\* outage that the reconnect thread took on ends with the flag set.
OutageHeals == worker.pc = "try" ~> connected
=============================================================================
