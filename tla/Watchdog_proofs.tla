-------------------------- MODULE Watchdog_proofs --------------------------
(***************************************************************************)
(* Watching the cameras, for any cameras, heartbeats, events, thresholds    *)
(* and interleavings of the network thread with the check loop: the state   *)
(* is well-typed, a camera is called offline only after its silence, and    *)
(* the operator is told of it.                                              *)
(***************************************************************************)
EXTENDS Watchdog, TLAPS

Waiting(c) == \E i \in 1..Len(inbox) : inbox[i] = c
Scheduled(c) == \E i \in 1..Len(tasks) : tasks[i] = c
Restoring(c) == handler.pc = "restore" /\ handler.cam = c

\* The notification that c is back is on its way.
Pending(c) == Scheduled(c) \/ Restoring(c)

\* The sweep is about to read the status of c, to mark it, or to raise the alert
\* for it.
Looking(c) == sweep.pc = "status" /\ sweep.cam = c
Deciding(c) == sweep.pc = "mark" /\ sweep.cam = c
Alerting(c) == sweep.pc = "alert" /\ sweep.cam = c

\* No time passes while a heartbeat is handled or the cameras are swept, nothing
\* lies in the future, and a camera the sweep holds for overdue is overdue or has
\* been heard of during the sweep.
SameInstant ==
  /\ handler.pc \in {"idle", "event"} <=> handler.cam = NoCamera
  /\ handler.pc \notin {"idle", "event"} => handler.now = clock
  /\ sweep.pc # "idle" => running /\ sweep.now = clock
  /\ sweep.pc \in {"status", "mark", "alert"} => sweep.cam \in Cameras /\ lastHb[sweep.cam] # Never
  /\ sweep.pc \in {"status", "mark"} =>
       clock - lastHb[sweep.cam] > Threshold \/ lastHb[sweep.cam] = clock
  /\ handler.pc \in {"online", "restore"} => lastHb[handler.cam] = clock
  /\ \A c \in Cameras : arrivedAt[c] <= clock /\ lastHb[c] <= clock
  /\ \A k \in Cameras \X Kinds : sentAt[k] <= clock

\* The last heartbeat of a camera is recorded, or still on its way to the table.
Heard ==
  \A c \in Cameras :
    \/ arrivedAt[c] <= lastHb[c]
    \/ Waiting(c)
    \/ handler.pc \in {"lookup", "stamp"} /\ handler.cam = c

\* What the sweep and a heartbeat's handler know of the status; a camera whose
\* notification is on its way is online, and has one on its way.
StatusKnown ==
  /\ \A c \in Cameras : Deciding(c) => status[c] # "offline"
  /\ handler.pc \in {"stamp", "online"} /\ handler.was => status[handler.cam] = "offline"
  /\ handler.pc \in {"stamp", "online"} /\ handler.cam \notin raced /\ status[handler.cam] = "offline"
       => handler.was
  /\ \A c \in Cameras \ raced : Pending(c) => status[c] = "online"
  /\ \A c \in Cameras \ raced : Scheduled(c) => ~Restoring(c)
  /\ \A i, j \in 1..Len(tasks) : tasks[i] = tasks[j] /\ tasks[i] \notin raced => i = j

\* AlertSystem does not suppress an alert that was last sent at time t.
LongAgo(t) == t = Never \/ clock - t >= Cooldown

\* An alert about a camera is older than its last heartbeat, or hardly younger ...
HeardSince ==
  \A c \in Cameras \ raced :
    /\ status[c] # "offline" =>
         /\ sentAt[<<c, "restored">>] <= lastHb[c] + (Threshold - Cooldown)
         /\ sentAt[<<c, "offline">>] <= lastHb[c]
    /\ Alerting(c) /\ status[c] # "offline" => lastHb[c] = clock

\* ... so AlertSystem suppresses none about a camera silent for the threshold.
AtStake(c) == Alerting(c) \/ status[c] = "offline" \/ Pending(c)

Unsuppressed ==
  \A c \in Cameras \ raced :
    /\ Looking(c) \/ Deciding(c) =>
         \/ status[c] = "offline" \/ Pending(c)
         \/ LongAgo(sentAt[<<c, "offline">>]) /\ LongAgo(sentAt[<<c, "restored">>])
    /\ Alerting(c) => LongAgo(sentAt[<<c, "offline">>])
    /\ AtStake(c) => LongAgo(sentAt[<<c, "restored">>])

\* What the operator was told of a camera, with what is on its way.
Informed ==
  running => \A c \in Cameras \ raced :
    /\ told[c] = "offline" <=> (status[c] = "offline" \/ Pending(c)) /\ ~Alerting(c)
    /\ Alerting(c) => status[c] = "offline" \/ Pending(c)

WatchInv ==
  /\ TypeOK /\ SameInstant /\ Heard /\ StatusKnown
  /\ Cooldown <= Threshold => HeardSince /\ Unsuppressed /\ Informed

-----------------------------------------------------------------------------
(* Sequences *)

LEMMA Appended ==
  ASSUME NEW S, NEW s \in Seq(S), NEW x \in S
  PROVE  /\ Append(s, x) \in Seq(S)
         /\ Len(Append(s, x)) = Len(s) + 1
         /\ \A i \in 1..Len(s) : Append(s, x)[i] = s[i]
         /\ Append(s, x)[Len(s) + 1] = x
OBVIOUS

LEMMA Taken ==
  ASSUME NEW S, NEW s \in Seq(S), s # <<>>
  PROVE  /\ Head(s) \in S /\ Head(s) = s[1]
         /\ Tail(s) \in Seq(S)
         /\ Len(s) \in Nat \ {0}
         /\ Len(Tail(s)) = Len(s) - 1
         /\ \A i \in 1..Len(Tail(s)) : Tail(s)[i] = s[i + 1]
OBVIOUS

-----------------------------------------------------------------------------
(* Type correctness *)

LEMMA WatchInit == Init => WatchInv
<1> SUFFICES ASSUME Init PROVE WatchInv
  OBVIOUS
<1> USE WatchdogAssumption DEF Init, Never, Kinds, HandlerIdle, SweepIdle
<1>1. TypeOK
  BY DEF TypeOK
<1>2. Len(inbox) = 0 /\ Len(tasks) = 0
  OBVIOUS
<1>3. SameInstant /\ Heard /\ StatusKnown
  BY <1>2 DEF SameInstant, Heard, StatusKnown, Scheduled, Waiting, Deciding, Pending, Restoring
<1>4. ASSUME Cooldown <= Threshold PROVE HeardSince /\ Unsuppressed /\ Informed
  <2>1. \A c \in Cameras : status[c] = "unknown" /\ lastHb[c] = -1
    OBVIOUS
  <2>2. \A c \in Cameras : sentAt[<<c, "restored">>] = -1 /\ sentAt[<<c, "offline">>] = -1
    OBVIOUS
  <2>3. handler.pc = "idle" /\ sweep.pc = "idle" /\ \A c \in Cameras : told[c] = "nothing"
    OBVIOUS
  <2>4. -1 <= -1 + (Threshold - Cooldown)
    BY <1>4
  <2> HIDE DEF Init
  <2>5. \A c \in Cameras : ~Pending(c) /\ ~Looking(c) /\ ~Deciding(c) /\ ~Alerting(c)
    <3>1. \A c : ~Scheduled(c)
      BY <1>2 DEF Scheduled
    <3>2. QED BY <2>3, <3>1 DEF Looking, Deciding, Alerting, Pending, Restoring
  <2>6. ASSUME NEW c \in Cameras
        PROVE  /\ sentAt[<<c, "restored">>] <= lastHb[c] + (Threshold - Cooldown)
               /\ sentAt[<<c, "offline">>] <= lastHb[c]
    BY <2>1, <2>2, <2>4
  <2>7. HeardSince
    BY <2>5, <2>6 DEF HeardSince
  <2>8. Unsuppressed /\ Informed
    BY <2>1, <2>3, <2>5 DEF Unsuppressed, Informed, AtStake
  <2>9. QED BY <2>7, <2>8
<1>5. QED BY <1>1, <1>3, <1>4 DEF WatchInv

LEMMA AlertSent ==
  ASSUME TypeOK, NEW c \in Cameras, NEW kind \in Kinds, SendAlert(c, kind)
  PROVE  /\ sentAt' \in [Cameras \X Kinds -> Nat \cup {Never}]
         /\ told' \in [Cameras -> Kinds \cup {"nothing"}]
         /\ \A k \in Cameras \X Kinds : k # <<c, kind>> => sentAt'[k] = sentAt[k]
         /\ \A d \in Cameras \ {c} : told'[d] = told[d]
         /\ sentAt'[<<c, kind>>] \in {sentAt[<<c, kind>>], clock}
         /\ LongAgo(sentAt[<<c, kind>>]) => sentAt'[<<c, kind>>] = clock /\ told'[c] = kind
<1>1. <<c, kind>> \in Cameras \X Kinds
  OBVIOUS
<1>2. sentAt \in [Cameras \X Kinds -> Nat \cup {Never}] /\ told \in [Cameras -> Kinds \cup {"nothing"}]
      /\ clock \in Nat
  BY DEF TypeOK
<1>3. sentAt[<<c, kind>>] \in Nat \cup {Never}
  BY <1>1, <1>2
<1>4. CASE sentAt[<<c, kind>>] # Never /\ clock - sentAt[<<c, kind>>] < Cooldown
  BY <1>2, <1>3, <1>4, WatchdogAssumption DEF SendAlert, alerts, LongAgo, Never
<1>5. CASE ~(sentAt[<<c, kind>>] # Never /\ clock - sentAt[<<c, kind>>] < Cooldown)
  BY <1>1, <1>2, <1>5 DEF SendAlert
<1>6. QED BY <1>4, <1>5

LEMMA TypeStep == TypeOK /\ SameInstant /\ [Next]_vars => TypeOK'
<1> SUFFICES ASSUME TypeOK, SameInstant, [Next]_vars PROVE TypeOK'
  OBVIOUS
<1> USE WatchdogAssumption DEF TypeOK, camera, alerts, history, HandlerIdle, SweepIdle
<1>1. CASE Tick
  BY <1>1 DEF Tick
<1>2. ASSUME NEW c \in Cameras, Heartbeat(c) PROVE TypeOK'
  BY <1>2 DEF Heartbeat
<1>3. CASE EventMessage
  BY <1>3 DEF EventMessage
<1>4. CASE Dispatch
  <2>1. inbox' \in Seq(Cameras \cup {Event}) /\ Head(inbox) \in Cameras \cup {Event}
    BY <1>4, Taken DEF Dispatch
  <2>2. QED BY <1>4, <2>1 DEF Dispatch
<1>5. CASE EventDone
  BY <1>5 DEF EventDone
<1>6. CASE Lookup
  BY <1>6 DEF Lookup, SameInstant
<1>7. CASE Stamp
  <2>1. handler.cam \in Cameras /\ handler.now \in Nat
    BY <1>7 DEF Stamp, SameInstant
  <2>2. /\ lastHb' \in [Cameras -> Nat \cup {Never}]
        /\ \A c \in Cameras : lastHb'[c] = lastHb[c] \/ lastHb'[c] \in Nat
    BY <1>7, <2>1 DEF Stamp
  <2>3. \A c \in Cameras : status'[c] = "offline" => lastHb'[c] # Never
    BY <1>7, <2>2 DEF Stamp, Never
  <2>4. handler' \in [pc : {"idle", "lookup", "stamp", "online", "restore", "event"},
                      cam : Cameras \cup {NoCamera}, now : Nat, was : BOOLEAN]
    BY <1>7 DEF Stamp
  <2>5. QED BY <1>7, <2>2, <2>3, <2>4 DEF Stamp
<1>8. CASE SetOnline
  BY <1>8 DEF SetOnline, SameInstant
<1>9. CASE ScheduleRestored
  BY <1>9 DEF ScheduleRestored, SameInstant
<1>10. CASE SweepBegin
  BY <1>10 DEF SweepBegin
<1>11. ASSUME NEW c \in Cameras, SweepPass(c) \/ SweepOverdue(c) PROVE TypeOK'
  <2>1. CASE SweepPass(c)
    BY <2>1 DEF SweepPass
  <2>2. CASE SweepOverdue(c)
    BY <2>2 DEF SweepOverdue
  <2>3. QED BY <1>11, <2>1, <2>2
<1>12. CASE SweepMark
  BY <1>12 DEF SweepMark, SameInstant
<1>13. CASE SweepStatus
  BY <1>13 DEF SweepStatus
<1>14. CASE SweepAlert
  <2>1. sweep.cam \in Cameras /\ "offline" \in Kinds
    BY <1>14 DEF SweepAlert, SameInstant, Kinds
  <2>2. QED BY <1>14, <2>1, AlertSent DEF SweepAlert
<1>15. CASE SweepEnd
  BY <1>15 DEF SweepEnd
<1>16. CASE RunRestored
  <2>1. Head(tasks) \in Cameras /\ Tail(tasks) \in Seq(Cameras) /\ "restored" \in Kinds
    BY <1>16, Taken DEF RunRestored, Kinds
  <2>2. raced' \subseteq Cameras
    BY <1>16, <2>1 DEF RunRestored
  <2>3. QED BY <1>16, <2>1, <2>2, AlertSent DEF RunRestored
<1>17. CASE Stop
  BY <1>17 DEF Stop
<1>18. CASE UNCHANGED vars
  BY <1>18 DEF vars
<1>19. QED
  BY <1>1, <1>2, <1>3, <1>4, <1>5, <1>6, <1>7, <1>8, <1>9, <1>10, <1>11, <1>12, <1>14, <1>15, <1>16,
     <1>17, <1>18, <1>13 DEF Next, HandlerStep, SweepStep

-----------------------------------------------------------------------------
(* What waits for the network thread and for the event loop *)

LEMMA InboxGrows ==
  ASSUME TypeOK, NEW m \in Cameras \cup {Event}, inbox' = Append(inbox, m)
  PROVE  Waiting(m)' /\ \A c : Waiting(c) => Waiting(c)'
<1>1. inbox \in Seq(Cameras \cup {Event}) /\ Len(inbox) \in Nat
  BY DEF TypeOK
<1>2. /\ Len(inbox') = Len(inbox) + 1
      /\ \A i \in 1..Len(inbox) : inbox'[i] = inbox[i]
      /\ inbox'[Len(inbox) + 1] = m
  BY <1>1, Appended
<1>3. QED BY <1>1, <1>2 DEF Waiting

LEMMA InboxServed ==
  ASSUME TypeOK, inbox # <<>>, inbox' = Tail(inbox)
  PROVE  \A c : Waiting(c) => Waiting(c)' \/ c = Head(inbox)
<1>1. inbox \in Seq(Cameras \cup {Event})
  BY DEF TypeOK
<1>2. /\ Head(inbox) = inbox[1]
      /\ Len(inbox) \in Nat \ {0}
      /\ Len(inbox') = Len(inbox) - 1
      /\ \A i \in 1..Len(inbox') : inbox'[i] = inbox[i + 1]
  BY <1>1, Taken
<1>3. ASSUME NEW i \in 1..Len(inbox), i # 1
      PROVE i - 1 \in 1..Len(inbox') /\ inbox'[i - 1] = inbox[i]
  BY <1>2, <1>3
<1>4. QED BY <1>2, <1>3 DEF Waiting

LEMMA TaskAdded ==
  ASSUME TypeOK, NEW m \in Cameras, tasks' = Append(tasks, m)
  PROVE  /\ \A c : Scheduled(c)' <=> Scheduled(c) \/ c = m
         /\ StatusKnown /\ (m \notin raced => ~Scheduled(m)) =>
              \A i, j \in 1..Len(tasks') : tasks'[i] = tasks'[j] /\ tasks'[i] \notin raced => i = j
<1>1. tasks \in Seq(Cameras) /\ Len(tasks) \in Nat
  BY DEF TypeOK
<1>2. /\ Len(tasks') = Len(tasks) + 1
      /\ \A i \in 1..Len(tasks) : tasks'[i] = tasks[i]
      /\ tasks'[Len(tasks) + 1] = m
  BY <1>1, Appended
<1>3. 1..Len(tasks') = 1..Len(tasks) \cup {Len(tasks) + 1}
  BY <1>1, <1>2
<1>4. QED BY <1>1, <1>2, <1>3 DEF Scheduled, StatusKnown

LEMMA TaskRun ==
  ASSUME TypeOK, tasks # <<>>, tasks' = Tail(tasks)
  PROVE  /\ Head(tasks) \in Cameras /\ Scheduled(Head(tasks))
         /\ \A c : Scheduled(c) => Scheduled(c)' \/ c = Head(tasks)
         /\ \A c : Scheduled(c)' => Scheduled(c)
         /\ StatusKnown =>
              /\ \A c : c = Head(tasks) /\ c \notin raced => ~Scheduled(c)'
              /\ \A i, j \in 1..Len(tasks') : tasks'[i] = tasks'[j] /\ tasks'[i] \notin raced => i = j
<1>1. tasks \in Seq(Cameras)
  BY DEF TypeOK
<1>2. /\ Head(tasks) \in Cameras /\ Head(tasks) = tasks[1]
      /\ Len(tasks) \in Nat \ {0}
      /\ Len(tasks') = Len(tasks) - 1
      /\ \A i \in 1..Len(tasks') : tasks'[i] = tasks[i + 1]
  BY <1>1, Taken
<1>3. ASSUME NEW i \in 1..Len(tasks), i # 1
      PROVE i - 1 \in 1..Len(tasks') /\ tasks'[i - 1] = tasks[i]
  BY <1>2, <1>3
<1>4. \A i \in 1..Len(tasks') : i + 1 \in 1..Len(tasks) /\ i + 1 # 1
  BY <1>2
<1>5. ASSUME StatusKnown
      PROVE  /\ \A c : c = Head(tasks) /\ c \notin raced => ~Scheduled(c)'
             /\ \A i, j \in 1..Len(tasks') : tasks'[i] = tasks'[j] /\ tasks'[i] \notin raced => i = j
  <2>1. \A i, j \in 1..Len(tasks) : tasks[i] = tasks[j] /\ tasks[i] \notin raced => i = j
    BY <1>5 DEF StatusKnown
  <2>2. 1 \in 1..Len(tasks)
    BY <1>2
  <2>3. \A i \in 1..Len(tasks') : tasks[1] \notin raced => tasks'[i] # tasks[1]
    BY <1>2, <1>4, <2>1, <2>2
  <2>4. ASSUME NEW i \in 1..Len(tasks'), NEW j \in 1..Len(tasks'),
               tasks'[i] = tasks'[j], tasks'[i] \notin raced
        PROVE  i = j
    <3>1. i + 1 = j + 1
      BY <1>2, <1>4, <2>1, <2>4
    <3>2. QED BY <3>1
  <2>5. QED BY <1>2, <2>3, <2>4 DEF Scheduled
<1>6. 1 \in 1..Len(tasks)
  BY <1>2
<1>7. \A c : Scheduled(c) => Scheduled(c)' \/ c = Head(tasks)
  BY <1>2, <1>3 DEF Scheduled
<1>8. \A c : Scheduled(c)' => Scheduled(c)
  BY <1>2, <1>4 DEF Scheduled
<1>9. Scheduled(Head(tasks))
  BY <1>2, <1>6 DEF Scheduled
<1>10. QED BY <1>2, <1>5, <1>7, <1>8, <1>9

-----------------------------------------------------------------------------
(* The invariant *)

LEMMA Numbers ==
  ASSUME TypeOK
  PROVE  /\ clock \in Nat
         /\ \A c \in Cameras : lastHb[c] \in Nat \cup {Never} /\ arrivedAt[c] \in Nat \cup {Never}
         /\ \A c \in Cameras : <<c, "offline">> \in Cameras \X Kinds /\ <<c, "restored">> \in Cameras \X Kinds
         /\ \A k \in Cameras \X Kinds : sentAt[k] \in Nat \cup {Never}
         /\ \A c \in Cameras : /\ sentAt[<<c, "offline">>] \in Nat \cup {Never}
                               /\ sentAt[<<c, "restored">>] \in Nat \cup {Never}
BY DEF TypeOK, Kinds

\* What a step that leaves a sequence alone says of it.
LEMMA Untouched ==
  /\ tasks' = tasks => \A c : Scheduled(c)' <=> Scheduled(c)
  /\ inbox' = inbox => \A c : Waiting(c)' <=> Waiting(c)
BY DEF Scheduled, Waiting

\* A step that sends nothing and makes no camera offline, nor one an alert or a
\* notification is due for that was not.
LEMMA StillUnsuppressed ==
  ASSUME Unsuppressed, clock' = clock, sentAt' = sentAt, raced \subseteq raced',
         \A c \in Cameras \ raced' :
           /\ Alerting(c)' => Alerting(c)
           /\ (Looking(c) \/ Deciding(c))' => Looking(c) \/ Deciding(c)
           /\ AtStake(c)' => AtStake(c)
           /\ status[c] = "offline" \/ Pending(c) => status'[c] = "offline" \/ Pending(c)'
  PROVE  Unsuppressed'
BY DEF Unsuppressed, LongAgo

LEMMA TickKeeps == WatchInv /\ Tick => WatchInv'
<1> SUFFICES ASSUME WatchInv, Tick PROVE WatchInv'
  OBVIOUS
<1> USE WatchdogAssumption, Numbers, Untouched DEF WatchInv, Never, camera, alerts, history
<1>1. TypeOK'
  BY TypeStep DEF Next
<1>2. /\ clock' = clock + 1
      /\ UNCHANGED <<running, inbox, status, lastHb, handler, sweep, tasks, sentAt, told, arrivedAt, raced>>
      /\ handler.pc \in {"idle", "event"} /\ sweep.pc = "idle"
  BY DEF Tick, ClockMay
<1>3. \A c : /\ Pending(c)' <=> Pending(c)
             /\ ~Looking(c)' /\ ~Deciding(c)' /\ ~Alerting(c)' /\ ~Alerting(c)
  BY <1>2 DEF Pending, Restoring, Looking, Deciding, Alerting
<1>4. SameInstant'
  BY <1>1, <1>2 DEF SameInstant
<1>5. Heard' /\ StatusKnown'
  BY <1>2, <1>3 DEF Heard, StatusKnown, Restoring
<1>6. HeardSince => HeardSince'
  BY <1>2, <1>3 DEF HeardSince
<1>7. ASSUME Unsuppressed PROVE Unsuppressed'
  <2>1. \A k \in Cameras \X Kinds : LongAgo(sentAt[k]) => LongAgo(sentAt[k])'
    BY <1>2 DEF LongAgo
  <2>2. \A c \in Cameras : AtStake(c)' <=> AtStake(c)
    BY <1>2, <1>3 DEF AtStake
  <2>3. QED BY <1>2, <1>3, <1>7, <2>1, <2>2 DEF Unsuppressed
<1>8. Informed => Informed'
  BY <1>2, <1>3 DEF Informed
<1>9. QED BY <1>1, <1>4, <1>5, <1>6, <1>7, <1>8

\* A message arrives, or the watchdog is stopped.
LEMMA ArrivalKeeps ==
  WatchInv /\ (EventMessage \/ Stop \/ (\E c \in Cameras : Heartbeat(c)) \/ UNCHANGED vars) => WatchInv'
<1> SUFFICES ASSUME WatchInv,
                    EventMessage \/ Stop \/ (\E c \in Cameras : Heartbeat(c)) \/ UNCHANGED vars
             PROVE  WatchInv'
  OBVIOUS
<1> USE WatchdogAssumption, Numbers, Untouched DEF WatchInv, Never, camera, alerts, history
<1>1. TypeOK'
  BY TypeStep DEF Next
<1>2. /\ UNCHANGED <<clock, status, lastHb, handler, sweep, tasks, sentAt, told, raced>>
      /\ running' => running
      /\ sweep.pc # "idle" => running' = running
  BY DEF EventMessage, Stop, Heartbeat, vars
<1>3. Heard' /\ \A c \in Cameras : arrivedAt'[c] <= clock
  <2>1. CASE EventMessage
    BY <2>1, InboxGrows DEF EventMessage, Heard, SameInstant
  <2>2. ASSUME NEW c \in Cameras, Heartbeat(c)
        PROVE  Heard' /\ \A d \in Cameras : arrivedAt'[d] <= clock
    <3>1. Waiting(c)' /\ \A d \in Cameras : Waiting(d) => Waiting(d)'
      BY <2>2, InboxGrows DEF Heartbeat
    <3>2. arrivedAt' = [arrivedAt EXCEPT ![c] = clock] /\ arrivedAt \in [Cameras -> Nat \cup {Never}]
      BY <2>2 DEF Heartbeat, TypeOK
    <3>3. QED BY <1>2, <3>1, <3>2 DEF Heard, SameInstant
  <2>3. CASE Stop \/ UNCHANGED vars
    BY <2>3 DEF Stop, vars, Heard, SameInstant
  <2>4. QED BY <1>2, <2>1, <2>2, <2>3
<1>4. SameInstant'
  BY <1>2, <1>3 DEF SameInstant
<1>5. StatusKnown' /\ (HeardSince => HeardSince')
  BY <1>2 DEF StatusKnown, HeardSince, Pending, Restoring, Deciding, Alerting
<1>6. Unsuppressed => Unsuppressed'
  BY <1>2, StillUnsuppressed DEF AtStake, Looking, Deciding, Alerting, Pending, Restoring
<1>7. Informed => Informed'
  BY <1>2 DEF Informed, Alerting, Pending, Restoring
<1>8. QED BY <1>1, <1>3, <1>4, <1>5, <1>6, <1>7

LEMMA DispatchKeeps == WatchInv /\ Dispatch => WatchInv'
<1> SUFFICES ASSUME WatchInv, Dispatch PROVE WatchInv'
  OBVIOUS
<1> USE WatchdogAssumption, Numbers, Untouched DEF WatchInv, Never, camera, alerts, history
<1>1. TypeOK'
  BY TypeStep DEF Next, HandlerStep
<1>2. /\ UNCHANGED <<clock, running, status, lastHb, sweep, tasks, sentAt, told, arrivedAt, raced>>
      /\ handler.pc = "idle" /\ inbox # <<>> /\ inbox' = Tail(inbox)
      /\ handler'.pc \in {"event", "lookup"} /\ handler'.now = clock
      /\ handler'.pc = "event" => handler'.cam = NoCamera /\ Head(inbox) = Event
      /\ handler'.pc = "lookup" => handler'.cam = Head(inbox) /\ Head(inbox) \in Cameras
  <2>1. Head(inbox) \in Cameras \cup {Event}
    BY Taken DEF Dispatch, TypeOK
  <2>2. QED BY <2>1 DEF Dispatch, HandlerIdle
<1>3. SameInstant'
  BY <1>2 DEF SameInstant
<1>4. Heard'
  <2>1. \A c \in Cameras : Waiting(c) => Waiting(c)' \/ c = Head(inbox)
    BY <1>2, InboxServed
  <2>2. QED BY <1>2, <2>1 DEF Heard
<1>5. StatusKnown' /\ (HeardSince => HeardSince')
  BY <1>2 DEF StatusKnown, HeardSince, Pending, Restoring, Deciding, Alerting
<1>6. Unsuppressed => Unsuppressed'
  BY <1>2, StillUnsuppressed DEF AtStake, Looking, Deciding, Alerting, Pending, Restoring
<1>7. Informed => Informed'
  BY <1>2 DEF Informed, Alerting, Pending, Restoring
<1>8. QED BY <1>1, <1>3, <1>4, <1>5, <1>6, <1>7

LEMMA EventDoneKeeps == WatchInv /\ EventDone => WatchInv'
<1> SUFFICES ASSUME WatchInv, EventDone PROVE WatchInv'
  OBVIOUS
<1> USE WatchdogAssumption, Numbers, Untouched DEF WatchInv, Never, camera, alerts, history
<1>1. TypeOK'
  BY TypeStep DEF Next, HandlerStep
<1>2. /\ UNCHANGED <<clock, running, inbox, status, lastHb, sweep, tasks, sentAt, told, arrivedAt, raced>>
      /\ handler.pc = "event" /\ handler'.pc = "idle" /\ handler'.cam = NoCamera
  BY DEF EventDone, HandlerIdle
<1>3. SameInstant' /\ Heard'
  BY <1>2 DEF SameInstant, Heard
<1>4. StatusKnown' /\ (HeardSince => HeardSince')
  BY <1>2 DEF StatusKnown, HeardSince, Pending, Restoring, Deciding, Alerting
<1>5. Unsuppressed => Unsuppressed'
  BY <1>2, StillUnsuppressed DEF AtStake, Looking, Deciding, Alerting, Pending, Restoring
<1>6. Informed => Informed'
  BY <1>2 DEF Informed, Alerting, Pending, Restoring
<1>7. QED BY <1>1, <1>3, <1>4, <1>5, <1>6

LEMMA LookupKeeps == WatchInv /\ Lookup => WatchInv'
<1> SUFFICES ASSUME WatchInv, Lookup PROVE WatchInv'
  OBVIOUS
<1> USE WatchdogAssumption, Numbers, Untouched DEF WatchInv, Never, camera, alerts, history
<1> DEFINE c == handler.cam
<1>1. TypeOK'
  BY TypeStep DEF Next, HandlerStep
<1>2. /\ UNCHANGED <<clock, running, inbox, lastHb, sweep, tasks, sentAt, told, arrivedAt, raced>>
      /\ handler.pc = "lookup" /\ c = handler.cam /\ c \in Cameras
      /\ handler'.pc = "stamp" /\ handler'.cam = c /\ handler'.now = handler.now
      /\ handler'.was <=> status[c] = "offline"
      /\ \A d \in Cameras : status'[d] = "offline" <=> status[d] = "offline"
      /\ \A d \in Cameras : status[d] = "online" => status'[d] = "online"
  BY DEF Lookup, SameInstant, TypeOK
<1> HIDE DEF c
<1>3. SameInstant' /\ Heard'
  BY <1>2 DEF SameInstant, Heard
<1>4. StatusKnown' /\ (HeardSince => HeardSince')
  BY <1>2 DEF StatusKnown, HeardSince, Pending, Restoring, Deciding, Alerting
<1>5. Unsuppressed => Unsuppressed'
  BY <1>2, StillUnsuppressed DEF AtStake, Looking, Deciding, Alerting, Pending, Restoring
<1>6. Informed => Informed'
  BY <1>2 DEF Informed, Alerting, Pending, Restoring
<1>7. QED BY <1>1, <1>3, <1>4, <1>5, <1>6

LEMMA StampKeeps == WatchInv /\ Stamp => WatchInv'
<1> SUFFICES ASSUME WatchInv, Stamp PROVE WatchInv'
  OBVIOUS
<1> USE WatchdogAssumption, Numbers, Untouched DEF WatchInv, Never, camera, alerts, history
<1> DEFINE c == handler.cam
<1>1. TypeOK'
  BY TypeStep DEF Next, HandlerStep
<1>2. /\ UNCHANGED <<clock, running, inbox, status, sweep, tasks, sentAt, told, arrivedAt, raced>>
      /\ handler.pc = "stamp" /\ c = handler.cam /\ c \in Cameras /\ handler.now = clock
      /\ handler'.pc = "online" /\ handler'.cam = c /\ handler'.now = clock /\ handler'.was = handler.was
      /\ lastHb'[c] = clock
      /\ \A d \in Cameras : lastHb'[d] = clock \/ lastHb'[d] = lastHb[d]
  BY DEF Stamp, SameInstant, TypeOK
<1> HIDE DEF c
<1>3. SameInstant'
  BY <1>2 DEF SameInstant
<1>4. Heard'
  BY <1>2 DEF SameInstant, Heard
<1>5. StatusKnown'
  BY <1>2 DEF StatusKnown, Pending, Restoring, Deciding
<1>6. ASSUME Cooldown <= Threshold, HeardSince PROVE HeardSince'
  <2>1. \A d \in Cameras : lastHb[d] <= lastHb'[d]
    BY <1>2 DEF SameInstant
  <2>2. \A d \in Cameras : lastHb[d] = clock => lastHb'[d] = clock
    BY <1>2
  <2>3. \A d \in Cameras : lastHb'[d] \in Int /\ lastHb[d] \in Int
    BY <1>2
  <2>4. ASSUME NEW d \in Cameras
        PROVE  sentAt[<<d, "restored">>] \in Int /\ sentAt[<<d, "offline">>] \in Int
    BY Numbers
  <2>5. \A d \in Cameras : Alerting(d)' <=> Alerting(d)
    BY <1>2 DEF Alerting
  <2>6. Threshold - Cooldown \in Int
    OBVIOUS
  <2>7. UNCHANGED <<status, sentAt, raced>>
    BY <1>2
  <2>8. ASSUME NEW d \in Cameras \ raced
        PROVE  /\ status[d] # "offline" =>
                    /\ sentAt[<<d, "restored">>] <= lastHb'[d] + (Threshold - Cooldown)
                    /\ sentAt[<<d, "offline">>] <= lastHb'[d]
               /\ Alerting(d) /\ status[d] # "offline" => lastHb'[d] = clock
    <3>1. lastHb[d] <= lastHb'[d] /\ (lastHb[d] = clock => lastHb'[d] = clock)
      BY <2>1, <2>2
    <3>2. QED BY <1>6, <2>3, <2>4, <2>6, <3>1 DEF HeardSince
  <2>9. QED BY <1>2, <2>5, <2>7, <2>8 DEF HeardSince
<1>7. Unsuppressed => Unsuppressed'
  BY <1>2, StillUnsuppressed DEF AtStake, Looking, Deciding, Alerting, Pending, Restoring
<1>8. Informed => Informed'
  BY <1>2 DEF Informed, Alerting, Pending, Restoring
<1>9. QED BY <1>1, <1>3, <1>4, <1>5, <1>6, <1>7, <1>8

LEMMA SetOnlineKeeps == WatchInv /\ SetOnline => WatchInv'
<1> SUFFICES ASSUME WatchInv, SetOnline PROVE WatchInv'
  OBVIOUS
<1> USE WatchdogAssumption, Numbers, Untouched DEF WatchInv, Never, camera, alerts, history
<1> DEFINE c == handler.cam
<1>1. TypeOK'
  BY TypeStep DEF Next, HandlerStep
<1>2. /\ UNCHANGED <<clock, running, inbox, lastHb, sweep, tasks, sentAt, told, arrivedAt, raced>>
      /\ handler.pc = "online" /\ c = handler.cam /\ c \in Cameras
      /\ lastHb[c] = clock /\ handler.now = clock
      /\ IF handler.was THEN handler'.pc = "restore" /\ handler'.cam = c /\ handler'.now = clock
                        ELSE handler'.pc = "idle" /\ handler'.cam = NoCamera
      /\ status'[c] = "online"
      /\ \A d \in Cameras \ {c} : status'[d] = status[d]
  BY DEF SetOnline, SameInstant, TypeOK, HandlerIdle
<1> HIDE DEF c
<1>3. SameInstant' /\ Heard'
  BY <1>2 DEF SameInstant, Heard
<1>4. StatusKnown'
  BY <1>2 DEF StatusKnown, Pending, Restoring, Deciding
<1>5. ASSUME Cooldown <= Threshold, HeardSince PROVE HeardSince'
  <2>1. sentAt[<<c, "restored">>] <= clock /\ sentAt[<<c, "offline">>] <= clock
    BY <1>2 DEF SameInstant
  <2>2. sentAt[<<c, "restored">>] <= lastHb[c] + (Threshold - Cooldown)
    BY <1>2, <1>5, <2>1
  <2>3. UNCHANGED <<lastHb, sentAt, raced>> /\ \A d \in Cameras : Alerting(d)' <=> Alerting(d)
    BY <1>2 DEF Alerting
  <2>4. QED BY <1>2, <1>5, <2>1, <2>2, <2>3 DEF HeardSince
<1>6. ASSUME NEW d \in Cameras \ raced
      PROVE  (status[d] = "offline" \/ Pending(d)) <=> (status'[d] = "offline" \/ Pending(d)')
  <2>1. CASE d = c
    BY <1>2, <2>1 DEF Pending, Restoring, StatusKnown
  <2>2. CASE d # c
    BY <1>2, <2>2 DEF Pending, Restoring
  <2>3. QED BY <2>1, <2>2
<1>7. Unsuppressed => Unsuppressed'
  BY <1>2, <1>6, StillUnsuppressed DEF AtStake, Looking, Deciding, Alerting
<1>8. Informed => Informed'
  BY <1>2, <1>6 DEF Informed, Alerting
<1>9. QED BY <1>1, <1>3, <1>4, <1>5, <1>8, <1>7

LEMMA ScheduleKeeps == WatchInv /\ ScheduleRestored => WatchInv'
<1> SUFFICES ASSUME WatchInv, ScheduleRestored PROVE WatchInv'
  OBVIOUS
<1> USE WatchdogAssumption, Numbers, Untouched DEF WatchInv, Never, camera, alerts, history
<1>1. TypeOK'
  BY TypeStep DEF Next, HandlerStep
<1> PICK c \in Cameras : c = handler.cam
  BY DEF ScheduleRestored, SameInstant, TypeOK
<1>2. /\ UNCHANGED <<clock, running, inbox, status, lastHb, sweep, sentAt, told, arrivedAt, raced>>
      /\ handler.pc = "restore" /\ Restoring(c) /\ (c \notin raced => ~Scheduled(c))
      /\ lastHb[c] = clock
      /\ handler'.pc = "idle" /\ handler'.cam = NoCamera
  BY DEF ScheduleRestored, SameInstant, StatusKnown, TypeOK, HandlerIdle, Restoring
<1>3. /\ \A d : Scheduled(d)' => Scheduled(d) \/ d = c
      /\ \A d : Scheduled(d) => Scheduled(d)'
      /\ running => Scheduled(c)'
      /\ \A i, j \in 1..Len(tasks') : tasks'[i] = tasks'[j] /\ tasks'[i] \notin raced => i = j
  <2>1. CASE running
    BY <1>2, <2>1, TaskAdded DEF ScheduleRestored
  <2>2. CASE ~running
    BY <2>2 DEF ScheduleRestored, StatusKnown
  <2>3. QED BY <2>1, <2>2
<1>4. SameInstant' /\ Heard'
  BY <1>2, <1>3 DEF SameInstant, Heard
<1>5. \A d \in Cameras : Pending(d)' => Pending(d)
  BY <1>2, <1>3 DEF Pending, Restoring
<1>6. running => \A d \in Cameras : Pending(d)' <=> Pending(d)
  BY <1>2, <1>3 DEF Pending, Restoring
<1>7. StatusKnown'
  BY <1>2, <1>3, <1>5 DEF StatusKnown, Deciding, Restoring
<1>8. HeardSince => HeardSince'
  BY <1>2 DEF HeardSince, Alerting
<1>9. \A d \in Cameras : Looking(d) \/ Deciding(d) => running
  BY DEF Looking, Deciding, SameInstant
<1>10. ASSUME Unsuppressed PROVE Unsuppressed'
  <2>1. ASSUME NEW d \in Cameras \ raced
        PROVE  /\ Alerting(d)' <=> Alerting(d)
               /\ (Looking(d) \/ Deciding(d))' <=> Looking(d) \/ Deciding(d)
               /\ AtStake(d)' => AtStake(d)
    BY <1>2, <1>5 DEF AtStake, Looking, Deciding, Alerting
  <2>2. \A d \in Cameras : Looking(d) \/ Deciding(d) => (Pending(d)' <=> Pending(d))
    BY <1>6, <1>9
  <2>3. QED BY <1>2, <1>10, <2>1, <2>2 DEF Unsuppressed, LongAgo
<1>11. Informed => Informed'
  BY <1>2, <1>6 DEF Informed, Alerting
<1>12. QED BY <1>1, <1>4, <1>7, <1>8, <1>10, <1>11

LEMMA SweepGoesOn ==
  WatchInv /\ (SweepBegin \/ SweepEnd \/ (\E c \in Cameras : SweepPass(c))) => WatchInv'
<1> SUFFICES ASSUME WatchInv, SweepBegin \/ SweepEnd \/ (\E c \in Cameras : SweepPass(c))
             PROVE  WatchInv'
  OBVIOUS
<1> USE WatchdogAssumption, Numbers, Untouched DEF WatchInv, Never, camera, alerts, history
<1>1. TypeOK'
  BY TypeStep DEF Next, SweepStep
<1>2. /\ UNCHANGED <<clock, running, inbox, status, lastHb, handler, tasks, sentAt, told, arrivedAt, raced>>
      /\ sweep.pc \in {"idle", "check"} /\ sweep'.pc \in {"idle", "check"}
      /\ sweep'.pc = "check" => running /\ sweep'.now = clock
  <2>1. CASE SweepBegin
    <3>1. sweep' = [pc |-> "check", cam |-> NoCamera, now |-> clock,
                    todo |-> {c \in Cameras : status[c] # "unknown"}]
      BY <2>1 DEF SweepBegin, SweepIdle
    <3>2. QED BY <2>1, <3>1 DEF SweepBegin
  <2>2. ASSUME NEW c \in Cameras, SweepPass(c)
        PROVE  sweep'.pc = sweep.pc /\ sweep'.now = sweep.now
    BY <2>2 DEF SweepPass, TypeOK
  <2>3. CASE \E c \in Cameras : SweepPass(c)
    BY <2>2, <2>3 DEF SweepPass, SameInstant
  <2>4. CASE SweepEnd
    BY <2>4 DEF SweepEnd, SweepIdle
  <2>5. QED BY <2>1, <2>3, <2>4
<1>3. SameInstant' /\ Heard'
  BY <1>2 DEF SameInstant, Heard
<1>4. StatusKnown' /\ (HeardSince => HeardSince')
  BY <1>2 DEF StatusKnown, HeardSince, Pending, Restoring, Deciding, Alerting
<1>5. Unsuppressed => Unsuppressed'
  BY <1>2, StillUnsuppressed DEF AtStake, Looking, Deciding, Alerting, Pending, Restoring
<1>6. Informed => Informed'
  BY <1>2 DEF Informed, Alerting, Pending, Restoring
<1>7. QED BY <1>1, <1>3, <1>4, <1>5, <1>6

LEMMA OverdueKeeps == ASSUME NEW c \in Cameras PROVE WatchInv /\ SweepOverdue(c) => WatchInv'
<1> SUFFICES ASSUME WatchInv, SweepOverdue(c) PROVE WatchInv'
  OBVIOUS
<1> USE WatchdogAssumption, Numbers, Untouched DEF WatchInv, Never, camera, alerts, history
<1>1. TypeOK'
  BY TypeStep DEF Next, SweepStep
<1>2. /\ UNCHANGED <<clock, running, inbox, status, lastHb, handler, tasks, sentAt, told, arrivedAt, raced>>
      /\ sweep.pc = "check" /\ sweep'.pc = "status" /\ sweep'.cam = c /\ sweep'.now = clock
      /\ lastHb[c] # Never /\ clock - lastHb[c] > Threshold
  BY DEF SweepOverdue, Overdue, SameInstant, TypeOK
<1>3. SameInstant' /\ Heard'
  BY <1>2 DEF SameInstant, Heard
<1>4. \A d : /\ (Pending(d)' <=> Pending(d)) /\ (Restoring(d)' <=> Restoring(d))
             /\ ~Deciding(d)' /\ ~Alerting(d)' /\ ~Alerting(d)
             /\ Looking(d)' => d = c
  BY <1>2 DEF Pending, Restoring, Looking, Deciding, Alerting
<1>5. StatusKnown'
  BY <1>2, <1>4 DEF StatusKnown
<1>6. HeardSince => HeardSince'
  BY <1>2, <1>4 DEF HeardSince
<1>7. ASSUME Cooldown <= Threshold, HeardSince, Unsuppressed PROVE Unsuppressed'
  <2>1. \A k \in Cameras \X Kinds : LongAgo(sentAt[k])' <=> LongAgo(sentAt[k])
    BY <1>2 DEF LongAgo
  <2>2. c \notin raced /\ status[c] # "offline" =>
          LongAgo(sentAt[<<c, "offline">>]) /\ LongAgo(sentAt[<<c, "restored">>])
    BY <1>2, <1>7 DEF HeardSince, LongAgo
  <2>3. \A d \in Cameras : AtStake(d)' => AtStake(d)
    BY <1>2, <1>4 DEF AtStake
  <2>4. QED BY <1>2, <1>4, <1>7, <2>1, <2>2, <2>3 DEF Unsuppressed
<1>8. Informed => Informed'
  BY <1>2, <1>4 DEF Informed
<1>9. QED BY <1>1, <1>3, <1>5, <1>6, <1>7, <1>8

LEMMA StatusReadKeeps == WatchInv /\ SweepStatus => WatchInv'
<1> SUFFICES ASSUME WatchInv, SweepStatus PROVE WatchInv'
  OBVIOUS
<1> USE WatchdogAssumption, Numbers, Untouched DEF WatchInv, Never, camera, alerts, history
<1>1. TypeOK'
  BY TypeStep DEF Next, SweepStep
<1>2. /\ UNCHANGED <<clock, running, inbox, status, lastHb, handler, tasks, sentAt, told, arrivedAt, raced>>
      /\ sweep.pc = "status" /\ sweep'.now = sweep.now
      /\ \/ sweep'.pc = "check"
         \/ sweep'.pc = "mark" /\ sweep'.cam = sweep.cam /\ status[sweep.cam] # "offline"
  BY DEF SweepStatus, TypeOK
<1>3. SameInstant' /\ Heard'
  BY <1>2 DEF SameInstant, Heard
<1>4. \A d : /\ (Pending(d)' <=> Pending(d)) /\ (Restoring(d)' <=> Restoring(d))
             /\ Deciding(d)' => Looking(d) /\ status[d] # "offline"
             /\ ~Looking(d)' /\ ~Alerting(d)' /\ ~Alerting(d)
  BY <1>2 DEF Pending, Restoring, Looking, Deciding, Alerting
<1>5. StatusKnown'
  BY <1>2, <1>4 DEF StatusKnown
<1>6. HeardSince => HeardSince'
  BY <1>2, <1>4 DEF HeardSince
<1>7. Unsuppressed => Unsuppressed'
  BY <1>2, <1>4, StillUnsuppressed DEF AtStake
<1>8. Informed => Informed'
  BY <1>2, <1>4 DEF Informed
<1>9. QED BY <1>1, <1>3, <1>5, <1>6, <1>7, <1>8

LEMMA MarkKeeps == WatchInv /\ SweepMark => WatchInv'
<1> SUFFICES ASSUME WatchInv, SweepMark PROVE WatchInv'
  OBVIOUS
<1> USE WatchdogAssumption, Numbers, Untouched DEF WatchInv, Never, camera, alerts, history
<1> DEFINE c == sweep.cam
<1>1. TypeOK'
  BY TypeStep DEF Next, SweepStep
<1>2. /\ UNCHANGED <<clock, running, inbox, lastHb, handler, tasks, sentAt, told, arrivedAt>>
      /\ sweep.pc = "mark" /\ c = sweep.cam /\ c \in Cameras /\ Deciding(c)
      /\ sweep'.pc = "alert" /\ sweep'.cam = c /\ sweep'.now = sweep.now
      /\ status'[c] = "offline"
      /\ \A d \in Cameras \ {c} : status'[d] = status[d]
      /\ raced \subseteq raced'
      /\ c \notin raced' => ~Pending(c)
      /\ handler.pc \in {"stamp", "online"} /\ handler.cam = c => c \in raced'
  BY DEF SweepMark, BeingRestored, SameInstant, TypeOK, Deciding, Pending, Scheduled, Restoring
<1>3. status[c] # "offline"
  BY <1>2 DEF StatusKnown
<1> HIDE DEF c
<1>4. SameInstant' /\ Heard'
  BY <1>2 DEF SameInstant, Heard
<1>5. \A d : /\ (Pending(d)' <=> Pending(d)) /\ (Restoring(d)' <=> Restoring(d))
             /\ ~Looking(d)' /\ ~Deciding(d)' /\ (Alerting(d)' <=> d = c) /\ ~Alerting(d)
  BY <1>2 DEF Pending, Restoring, Looking, Deciding, Alerting
<1>6. handler.pc \in {"stamp", "online"} => handler.cam \in Cameras
  BY DEF SameInstant, TypeOK
<1>7. StatusKnown'
  BY <1>2, <1>3, <1>5, <1>6 DEF StatusKnown
<1>8. HeardSince => HeardSince'
  BY <1>2, <1>5 DEF HeardSince
<1>9. ASSUME Unsuppressed PROVE Unsuppressed'
  <2>1. c \notin raced' => LongAgo(sentAt[<<c, "offline">>]) /\ LongAgo(sentAt[<<c, "restored">>])
    BY <1>2, <1>3, <1>9 DEF Unsuppressed
  <2>2. \A d \in Cameras \ {c} : AtStake(d)' => AtStake(d)
    BY <1>2, <1>5 DEF AtStake
  <2>3. QED BY <1>2, <1>5, <1>9, <2>1, <2>2 DEF Unsuppressed, LongAgo
<1>10. Informed => Informed'
  BY <1>2, <1>3, <1>5 DEF Informed
<1>11. QED BY <1>1, <1>4, <1>7, <1>8, <1>9, <1>10

LEMMA AlertKeeps == WatchInv /\ SweepAlert => WatchInv'
<1> SUFFICES ASSUME WatchInv, SweepAlert PROVE WatchInv'
  OBVIOUS
<1> USE WatchdogAssumption, Numbers, Untouched DEF WatchInv, Never, camera, alerts, history
<1> DEFINE c == sweep.cam
<1>1. TypeOK'
  BY TypeStep DEF Next, SweepStep
<1>2. /\ UNCHANGED <<clock, running, inbox, status, lastHb, handler, tasks, arrivedAt, raced>>
      /\ sweep.pc = "alert" /\ c = sweep.cam /\ c \in Cameras /\ Alerting(c)
      /\ sweep'.pc = "check" /\ sweep'.cam = NoCamera /\ sweep'.now = sweep.now
  BY DEF SweepAlert, SameInstant, TypeOK, Alerting
<1>3. /\ \A k \in Cameras \X Kinds : k # <<c, "offline">> => sentAt'[k] = sentAt[k]
      /\ \A d \in Cameras \ {c} : told'[d] = told[d]
      /\ sentAt'[<<c, "offline">>] \in {sentAt[<<c, "offline">>], clock}
      /\ LongAgo(sentAt[<<c, "offline">>]) => told'[c] = "offline"
  BY <1>2, AlertSent DEF SweepAlert, Kinds
<1> HIDE DEF c
<1>4. SameInstant' /\ Heard'
  BY <1>2, <1>3 DEF SameInstant, Heard
<1>5. \A d : /\ (Pending(d)' <=> Pending(d)) /\ (Restoring(d)' <=> Restoring(d))
             /\ ~Looking(d)' /\ ~Deciding(d)' /\ ~Alerting(d)'
  BY <1>2 DEF Pending, Restoring, Looking, Deciding, Alerting
<1>6. StatusKnown'
  BY <1>2, <1>5 DEF StatusKnown
<1>7. HeardSince => HeardSince'
  <2>1. ASSUME HeardSince, NEW d \in Cameras \ raced, status[d] # "offline"
        PROVE  sentAt'[<<d, "offline">>] <= lastHb[d]
    <3>1. CASE d = c
      <4>1. lastHb[c] = clock /\ sentAt[<<c, "offline">>] <= lastHb[c]
        BY <1>2, <2>1, <3>1 DEF HeardSince
      <4>2. QED BY <1>3, <3>1, <4>1
    <3>2. CASE d # c
      <4>1. sentAt'[<<d, "offline">>] = sentAt[<<d, "offline">>]
        BY <1>3, <3>2
      <4>2. QED BY <2>1, <4>1 DEF HeardSince
    <3>3. QED BY <3>1, <3>2
  <2>2. \A d \in Cameras : sentAt'[<<d, "restored">>] = sentAt[<<d, "restored">>]
    BY <1>3
  <2>3. QED BY <1>2, <1>5, <2>1, <2>2 DEF HeardSince
<1>8. ASSUME Unsuppressed PROVE Unsuppressed'
  <2>1. \A d \in Cameras : /\ AtStake(d)' => AtStake(d)
                           /\ sentAt'[<<d, "restored">>] = sentAt[<<d, "restored">>]
    BY <1>2, <1>3, <1>5 DEF AtStake
  <2>2. QED BY <1>2, <1>5, <1>8, <2>1 DEF Unsuppressed, LongAgo
<1>9. Unsuppressed /\ Informed => Informed'
  <2>1. \A d \in Cameras : ~Alerting(d)'
    BY <1>2 DEF Alerting
  <2>2. ASSUME Unsuppressed, Informed, running, NEW d \in Cameras \ raced
        PROVE  told'[d] = "offline" <=> status[d] = "offline" \/ Pending(d)
    <3>1. /\ told[d] = "offline" <=> (status[d] = "offline" \/ Pending(d)) /\ ~Alerting(d)
          /\ Alerting(d) => status[d] = "offline" \/ Pending(d)
      BY <2>2 DEF Informed
    <3>2. CASE d = c
      <4>1. told'[c] = "offline"
        BY <1>2, <1>3, <2>2, <3>2 DEF Unsuppressed
      <4>2. QED BY <1>2, <3>1, <3>2, <4>1
    <3>3. CASE d # c
      <4>1. told'[d] = told[d] /\ ~Alerting(d)
        BY <1>2, <1>3, <2>2, <3>3 DEF Alerting
      <4>2. QED BY <3>1, <4>1
    <3>4. QED BY <3>2, <3>3
  <2>3. QED BY <1>2, <1>5, <2>1, <2>2 DEF Informed
<1>10. QED BY <1>1, <1>4, <1>6, <1>7, <1>8, <1>9

LEMMA RunKeeps == WatchInv /\ RunRestored => WatchInv'
<1> SUFFICES ASSUME WatchInv, RunRestored PROVE WatchInv'
  OBVIOUS
<1> USE WatchdogAssumption, Numbers, Untouched DEF WatchInv, Never, camera, alerts, history
<1>1. TypeOK'
  BY TypeStep DEF Next
<1> PICK c \in Cameras : c = Head(tasks)
  BY TaskRun DEF RunRestored
<1>2. /\ UNCHANGED <<clock, running, inbox, status, lastHb, handler, sweep, arrivedAt>>
      /\ sweep.pc = "idle" /\ tasks # <<>> /\ tasks' = Tail(tasks)
      /\ SendAlert(c, "restored")
      /\ raced \subseteq raced' /\ (c \notin raced' => ~Late(c))
  BY DEF RunRestored
<1>3. /\ Scheduled(c)
      /\ \A d : Scheduled(d) => Scheduled(d)' \/ d = c
      /\ \A d : Scheduled(d)' => Scheduled(d)
      /\ c \notin raced => ~Scheduled(c)'
      /\ \A i, j \in 1..Len(tasks') : tasks'[i] = tasks'[j] /\ tasks'[i] \notin raced => i = j
  BY <1>2, TaskRun
<1>4. /\ \A k \in Cameras \X Kinds : k # <<c, "restored">> => sentAt'[k] = sentAt[k]
      /\ \A d \in Cameras \ {c} : told'[d] = told[d]
      /\ sentAt'[<<c, "restored">>] \in {sentAt[<<c, "restored">>], clock}
      /\ LongAgo(sentAt[<<c, "restored">>]) => told'[c] = "restored"
  BY <1>2, <1>3, AlertSent DEF Kinds
<1>5. c \notin raced => status[c] = "online" /\ ~Restoring(c) /\ Pending(c)
  BY <1>3 DEF StatusKnown, Pending
<1>6. SameInstant' /\ Heard'
  <2>1. Heard'
    BY <1>2 DEF Heard
  <2>2. \A k \in Cameras \X Kinds : sentAt'[k] <= clock
    BY <1>4 DEF SameInstant
  <2>3. SameInstant'
    BY <1>2, <2>2 DEF SameInstant
  <2>4. QED BY <2>1, <2>3
<1>7. /\ \A d \in Cameras \ {c} : Pending(d)' <=> Pending(d)
      /\ \A d : Pending(d)' => Pending(d)
      /\ \A d : /\ ~Looking(d)' /\ ~Deciding(d)' /\ ~Alerting(d)' /\ ~Alerting(d)
                /\ Restoring(d)' <=> Restoring(d)
  BY <1>2, <1>3 DEF Pending, Restoring, Looking, Deciding, Alerting
<1>8. c \notin raced => ~Pending(c)'
  BY <1>3, <1>5, <1>7 DEF Pending
<1>9. StatusKnown'
  BY <1>2, <1>3, <1>7 DEF StatusKnown
<1>10. HeardSince => HeardSince'
  <2>1. c \notin raced' => sentAt'[<<c, "restored">>] <= lastHb[c] + (Threshold - Cooldown)
                            \/ sentAt'[<<c, "restored">>] = sentAt[<<c, "restored">>]
    <3>1. c \notin raced' => clock <= lastHb[c] + (Threshold - Cooldown)
      BY <1>2 DEF Late
    <3>2. QED BY <1>4, <3>1
  <2>2. \A d \in Cameras : sentAt'[<<d, "offline">>] = sentAt[<<d, "offline">>]
    BY <1>4
  <2>3. \A d \in Cameras \ {c} : sentAt'[<<d, "restored">>] = sentAt[<<d, "restored">>]
    BY <1>4
  <2>4. QED BY <1>2, <1>7, <2>1, <2>2, <2>3 DEF HeardSince
<1>11. ASSUME Unsuppressed PROVE Unsuppressed'
  <2>1. \A d \in Cameras \ {c} : /\ AtStake(d)' => AtStake(d)
                                 /\ sentAt'[<<d, "restored">>] = sentAt[<<d, "restored">>]
    BY <1>2, <1>4, <1>7 DEF AtStake
  <2>2. c \notin raced' => ~AtStake(c)'
    BY <1>2, <1>5, <1>7, <1>8 DEF AtStake
  <2>3. QED BY <1>2, <1>7, <1>11, <2>1, <2>2 DEF Unsuppressed, LongAgo
<1>12. Unsuppressed /\ Informed => Informed'
  <2>1. Unsuppressed /\ c \notin raced => told'[c] = "restored"
    BY <1>4, <1>5 DEF Unsuppressed, AtStake
  <2>2. ASSUME NEW d \in Cameras \ raced', running, Unsuppressed, Informed
        PROVE  told'[d] = "offline" <=> status[d] = "offline" \/ Pending(d)'
    <3>1. CASE d = c
      BY <1>2, <1>5, <1>8, <2>1, <2>2, <3>1
    <3>2. CASE d # c
      BY <1>2, <1>4, <1>7, <2>2, <3>2 DEF Informed
    <3>3. QED BY <3>1, <3>2
  <2>3. QED BY <1>2, <1>7, <2>2 DEF Informed
<1>13. QED BY <1>1, <1>6, <1>9, <1>10, <1>11, <1>12

LEMMA WatchStep == WatchInv /\ [Next]_vars => WatchInv'
BY TickKeeps, ArrivalKeeps, DispatchKeeps, EventDoneKeeps, LookupKeeps, StampKeeps, SetOnlineKeeps,
   ScheduleKeeps, SweepGoesOn, OverdueKeeps, StatusReadKeeps, MarkKeeps, AlertKeeps, RunKeeps
   DEF Next, HandlerStep, SweepStep

LEMMA WatchAlways == Spec => []WatchInv
BY WatchInit, WatchStep, PTL DEF Spec

-----------------------------------------------------------------------------
(* Theorems *)

\* The shared state of the two threads stays well-typed; a camera that is offline
\* has been heard of.
THEOREM TypeCorrect == Spec => []TypeOK
<1>1. WatchInv => TypeOK
  BY DEF WatchInv
<1>2. QED BY <1>1, WatchAlways, PTL

\* watchdog.py _check_cameras and _on_heartbeat: for every order of their accesses
\* to _CameraState and however long notifications wait for the event loop, the
\* last alert the operator got of a camera is true once both threads are at rest,
\* when the cooldown is no longer than the threshold, no sweep marked the camera
\* while its heartbeat was handled or its notification waited, and no notification
\* of it came later than the threshold exceeds the cooldown.
THEOREM OperatorKnows == Spec => []OperatorInformed
<1>1. WatchInv => OperatorInformed
  <2> SUFFICES ASSUME WatchInv, Cooldown <= Threshold, running, handler.pc = "idle",
                      sweep.pc = "idle", tasks = <<>>, NEW c \in Cameras \ raced
               PROVE  (status[c] = "offline") <=> (told[c] = "offline")
    BY DEF OperatorInformed
  <2>1. ~Pending(c) /\ ~Alerting(c)
    BY DEF Pending, Scheduled, Restoring, Alerting
  <2>2. QED BY <2>1 DEF WatchInv, Informed
<1>2. QED BY <1>1, WatchAlways, PTL

\* watchdog.py _check_cameras: whatever the two threads do in between, no camera
\* becomes offline whose last heartbeat arrived within the threshold, except one
\* whose heartbeat waits for the network thread, is being handled, or was handled
\* during the sweep that marks the camera.
THEOREM OfflineOnlyAfterSilence == Spec => NoFalseOffline
<1>1. ASSUME WatchInv, [Next]_vars, NEW c \in Cameras, status[c] # "offline", status'[c] = "offline"
      PROVE  \/ clock - arrivedAt[c] > Threshold
             \/ \E i \in 1..Len(inbox) : inbox[i] = c
             \/ handler.cam = c
             \/ lastHb[c] = sweep.now
  <2>0. status \in [Cameras -> {"unknown", "online", "offline"}]
    BY <1>1 DEF WatchInv, TypeOK
  <2>1. SweepMark /\ sweep.cam = c
    <3>1. status' # status
      BY <1>1
    <3>2. ~Dispatch /\ ~EventDone /\ ~Stamp /\ ~ScheduleRestored /\ ~RunRestored
      BY <3>1 DEF Dispatch, EventDone, Stamp, ScheduleRestored, RunRestored, camera
    <3>3. ~Lookup /\ ~SetOnline
      BY <1>1, <2>0 DEF Lookup, SetOnline
    <3>4. ~Tick /\ ~EventMessage /\ ~Stop /\ ~(\E d \in Cameras : Heartbeat(d)) /\ ~UNCHANGED vars
      BY <3>1 DEF Tick, EventMessage, Stop, Heartbeat, vars, camera
    <3>5. /\ ~SweepBegin /\ ~SweepStatus /\ ~SweepAlert /\ ~SweepEnd
          /\ \A d \in Cameras : ~SweepPass(d) /\ ~SweepOverdue(d)
      BY <3>1 DEF SweepBegin, SweepStatus, SweepAlert, SweepEnd, SweepPass, SweepOverdue, camera
    <3>6. SweepMark
      BY <1>1, <3>2, <3>3, <3>4, <3>5 DEF Next, HandlerStep, SweepStep
    <3>7. QED BY <1>1, <2>0, <3>6 DEF SweepMark
  <2>2. sweep.now = clock /\ (clock - lastHb[c] > Threshold \/ lastHb[c] = clock)
    BY <1>1, <2>1 DEF SweepMark, WatchInv, SameInstant
  <2>3. arrivedAt[c] <= lastHb[c] \/ Waiting(c) \/ handler.cam = c
    BY <1>1 DEF WatchInv, Heard
  <2>4. CASE arrivedAt[c] <= lastHb[c]
    BY <1>1, <2>2, <2>4, Numbers, WatchdogAssumption DEF WatchInv, Never
  <2>5. QED BY <2>3, <2>4 DEF Waiting
<1>2. WatchInv /\ [Next]_vars => [\A c \in Cameras :
         status[c] # "offline" /\ status'[c] = "offline" =>
           \/ clock - arrivedAt[c] > Threshold
           \/ \E i \in 1..Len(inbox) : inbox[i] = c
           \/ handler.cam = c
           \/ lastHb[c] = sweep.now]_vars
  BY <1>1
<1>3. QED BY <1>2, WatchAlways, PTL DEF Spec, NoFalseOffline
=============================================================================
