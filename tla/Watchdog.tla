------------------------------ MODULE Watchdog ------------------------------
(***************************************************************************)
(* watchdog.py: heartbeats arrive on the MQTT subscriber's network thread  *)
(* (_on_heartbeat), the check loop runs on the event loop                  *)
(* (_check_cameras), and the two share _CameraState without a lock.        *)
(* Restored notifications are scheduled on the event loop, which runs      *)
(* callbacks in order.                                                     *)
(*                                                                         *)
(* The network thread also runs the Context Gate's handler of event        *)
(* messages, which waits for the reasoning pipeline (phase2_pipeline.py)   *)
(* for as long as its timeout; heartbeats that arrive meanwhile wait.      *)
(*                                                                         *)
(* send_alert is AlertSystem's, on channels that accept and do not suspend *)
(* (the ones the repository ships), so one step here.  The two threads     *)
(* interleave at every access to the shared state, but no time passes      *)
(* while a heartbeat handler or a sweep is in progress: it passes while    *)
(* messages wait, while the Context Gate holds the network thread, while a *)
(* notification waits for the event loop, which a reasoning backend may    *)
(* hold, and between sweeps (check_interval is left out).                  *)
(***************************************************************************)
EXTENDS Integers, Sequences

CONSTANTS
  Cameras,
  Event,      \* an event message, handled by the Context Gate
  NoCamera,
  Threshold,  \* offline_threshold
  Cooldown,   \* window of AlertSystem for camera-offline and camera-restored
  Timeout,    \* future.result(timeout) of the Context Gate's handler
  MaxClock,   \* bound on the clock
  MaxInbox    \* bound on messages waiting for the network thread

ASSUME WatchdogAssumption ==
  /\ Event \notin Cameras
  /\ NoCamera \notin Cameras
  /\ Threshold \in Nat
  /\ Cooldown \in Nat
  /\ Timeout \in Nat
  /\ MaxClock \in Nat
  /\ MaxInbox \in Nat

VARIABLES
  clock,     \* loop.time()
  running,   \* Watchdog._running
  inbox,     \* messages the broker has sent and the handler has not seen
  status,    \* _CameraState.status ("unknown": not in _cameras)
  lastHb,    \* _CameraState.last_heartbeat_time
  handler,   \* the network thread in its callback
  sweep,     \* the check loop
  tasks,     \* restored notifications scheduled on the event loop
  sentAt,    \* AlertSystem._cooldown_map
  told,      \* history: the last notification delivered for a camera
  arrivedAt, \* history: when the last heartbeat of a camera arrived
  raced      \* history: cameras marked offline while their heartbeat was being
             \* handled or its notification waited, or notified too late

camera == <<status, lastHb>>
alerts == <<sentAt, told>>
history == <<arrivedAt, raced>>
vars == <<clock, running, inbox, status, lastHb, handler, sweep, tasks, sentAt, told, arrivedAt,
          raced>>

-----------------------------------------------------------------------------
Never == -1
Kinds == {"offline", "restored"}
HandlerIdle == [pc |-> "idle", cam |-> NoCamera, now |-> 0, was |-> FALSE]
SweepIdle == [pc |-> "idle", cam |-> NoCamera, now |-> 0, todo |-> {}]

TypeOK ==
  /\ clock \in Nat
  /\ running \in BOOLEAN
  /\ inbox \in Seq(Cameras \cup {Event})
  /\ status \in [Cameras -> {"unknown", "online", "offline"}]
  /\ lastHb \in [Cameras -> Nat \cup {Never}]
  /\ handler \in [pc : {"idle", "lookup", "stamp", "online", "restore", "event"},
                  cam : Cameras \cup {NoCamera}, now : Nat, was : BOOLEAN]
  /\ sweep \in [pc : {"idle", "check", "status", "mark", "alert"},
                cam : Cameras \cup {NoCamera}, now : Nat, todo : SUBSET Cameras]
  /\ tasks \in Seq(Cameras)
  /\ sentAt \in [Cameras \X Kinds -> Nat \cup {Never}]
  /\ told \in [Cameras -> Kinds \cup {"nothing"}]
  /\ arrivedAt \in [Cameras -> Nat \cup {Never}]
  /\ raced \subseteq Cameras
  /\ \A c \in Cameras : status[c] = "offline" => lastHb[c] # Never

\* The watchdog has been started.
Init ==
  /\ clock = 0
  /\ running = TRUE
  /\ inbox = <<>>
  /\ status = [c \in Cameras |-> "unknown"]
  /\ lastHb = [c \in Cameras |-> Never]
  /\ handler = HandlerIdle
  /\ sweep = SweepIdle
  /\ tasks = <<>>
  /\ sentAt = [k \in Cameras \X Kinds |-> Never]
  /\ told = [c \in Cameras |-> "nothing"]
  /\ arrivedAt = [c \in Cameras |-> Never]
  /\ raced = {}

ClockMay ==
  /\ handler.pc = "idle" \/ (handler.pc = "event" /\ clock - handler.now < Timeout)
  /\ sweep.pc = "idle"

Tick ==
  /\ clock < MaxClock
  /\ ClockMay
  /\ clock' = clock + 1
  /\ UNCHANGED <<running, inbox, camera, handler, sweep, tasks, alerts, history>>

-----------------------------------------------------------------------------
(* The network thread *)

Heartbeat(c) ==
  /\ Len(inbox) < MaxInbox
  /\ inbox' = Append(inbox, c)
  /\ arrivedAt' = [arrivedAt EXCEPT ![c] = clock]
  /\ UNCHANGED <<clock, running, camera, handler, sweep, tasks, alerts, raced>>

EventMessage ==
  /\ Len(inbox) < MaxInbox
  /\ inbox' = Append(inbox, Event)
  /\ UNCHANGED <<clock, running, camera, handler, sweep, tasks, alerts, history>>

\* _on_message calls the callback of the message at the head: _on_heartbeat,
\* which reads the clock first, or the Context Gate.
Dispatch ==
  /\ handler.pc = "idle"
  /\ inbox # <<>>
  /\ inbox' = Tail(inbox)
  /\ handler' = IF Head(inbox) = Event
                THEN [HandlerIdle EXCEPT !.pc = "event", !.now = clock]
                ELSE [HandlerIdle EXCEPT !.pc = "lookup", !.now = clock, !.cam = Head(inbox)]
  /\ UNCHANGED <<clock, running, camera, sweep, tasks, alerts, history>>

\* The pipeline answers, or the wait times out.
EventDone ==
  /\ handler.pc = "event"
  /\ handler' = HandlerIdle
  /\ UNCHANGED <<clock, running, inbox, camera, sweep, tasks, alerts, history>>

\* The camera is registered if it is new; was_offline.
Lookup ==
  LET c == handler.cam
  IN /\ handler.pc = "lookup"
     /\ status' = [status EXCEPT ![c] = IF @ = "unknown" THEN "online" ELSE @]
     /\ handler' = [handler EXCEPT !.pc = "stamp", !.was = status[c] = "offline"]
     /\ UNCHANGED <<clock, running, inbox, lastHb, sweep, tasks, alerts, history>>

Stamp ==
  /\ handler.pc = "stamp"
  /\ lastHb' = [lastHb EXCEPT ![handler.cam] = handler.now]
  /\ handler' = [handler EXCEPT !.pc = "online"]
  /\ UNCHANGED <<clock, running, inbox, status, sweep, tasks, alerts, history>>

\* Mutant of SetOnline: whether it was offline is asked after the update.
SetOnlineFirst ==
  /\ handler.pc = "online"
  /\ status' = [status EXCEPT ![handler.cam] = "online"]
  /\ handler' = IF status'[handler.cam] = "offline" THEN [handler EXCEPT !.pc = "restore"]
                ELSE HandlerIdle
  /\ UNCHANGED <<clock, running, inbox, lastHb, sweep, tasks, alerts, history>>

SetOnline ==
  /\ handler.pc = "online"
  /\ status' = [status EXCEPT ![handler.cam] = "online"]
  /\ handler' = IF handler.was THEN [handler EXCEPT !.pc = "restore"] ELSE HandlerIdle
  /\ UNCHANGED <<clock, running, inbox, lastHb, sweep, tasks, alerts, history>>

\* run_coroutine_threadsafe(_send_restored_alert), if running.
ScheduleRestored ==
  /\ handler.pc = "restore"
  /\ tasks' = IF running THEN Append(tasks, handler.cam) ELSE tasks
  /\ handler' = HandlerIdle
  /\ UNCHANGED <<clock, running, inbox, camera, sweep, alerts, history>>

-----------------------------------------------------------------------------
(* The event loop *)

\* send_alert: suppressed within the window, else delivered and recorded.
SendAlert(c, kind) ==
  IF sentAt[<<c, kind>>] # Never /\ clock - sentAt[<<c, kind>>] < Cooldown
  THEN UNCHANGED alerts
  ELSE /\ sentAt' = [sentAt EXCEPT ![<<c, kind>>] = clock]
       /\ told' = [told EXCEPT ![c] = kind]

\* A notification this late is recorded so late that AlertSystem may suppress
\* the next one of the camera, even after a silence of the threshold.
Late(c) == clock - lastHb[c] > Threshold - Cooldown

RunRestored ==
  /\ sweep.pc = "idle"
  /\ tasks # <<>>
  /\ SendAlert(Head(tasks), "restored")
  /\ tasks' = Tail(tasks)
  /\ raced' = IF Late(Head(tasks)) THEN raced \cup {Head(tasks)} ELSE raced
  /\ UNCHANGED <<clock, running, inbox, camera, handler, sweep, arrivedAt>>

\* _check_cameras: the clock and the list of known cameras are read once.
SweepBegin ==
  /\ running
  /\ sweep.pc = "idle"
  /\ sweep' = [SweepIdle EXCEPT !.pc = "check", !.now = clock,
                                !.todo = {c \in Cameras : status[c] # "unknown"}]
  /\ UNCHANGED <<clock, running, inbox, camera, handler, tasks, alerts, history>>

\* Mutant of Overdue: >= for >.
OverdueOrJust(c) == sweep.now - lastHb[c] >= Threshold

\* Mutant of Overdue: a camera is given one tick more.
OverdueLate(c) == sweep.now - lastHb[c] > Threshold + 1

\* elapsed, from the stamp as it is now, against the threshold.
Overdue(c) == sweep.now - lastHb[c] > Threshold

\* A stamp that is not None stays so: the test for None and the reading of
\* elapsed are one step.
SweepPass(c) ==
  /\ sweep.pc = "check"
  /\ c \in sweep.todo
  /\ lastHb[c] = Never \/ ~Overdue(c)
  /\ sweep' = [sweep EXCEPT !.todo = @ \ {c}]
  /\ UNCHANGED <<clock, running, inbox, camera, handler, tasks, alerts, history>>

SweepOverdue(c) ==
  /\ sweep.pc = "check"
  /\ c \in sweep.todo
  /\ lastHb[c] # Never /\ Overdue(c)
  /\ sweep' = [sweep EXCEPT !.pc = "status", !.cam = c, !.todo = @ \ {c}]
  /\ UNCHANGED <<clock, running, inbox, camera, handler, tasks, alerts, history>>

\* Only then is the status read, which a heartbeat may have changed since.
SweepStatus ==
  /\ sweep.pc = "status"
  /\ sweep' = IF status[sweep.cam] = "offline"
              THEN [sweep EXCEPT !.pc = "check", !.cam = NoCamera]
              ELSE [sweep EXCEPT !.pc = "mark"]
  /\ UNCHANGED <<clock, running, inbox, camera, handler, tasks, alerts, history>>

\* The handler of c's heartbeat has read the status, or has brought c back and
\* its notification is not yet out.
BeingRestored(c) ==
  \/ handler.cam = c /\ handler.pc \in {"stamp", "online", "restore"}
  \/ \E i \in 1..Len(tasks) : tasks[i] = c

SweepMark ==
  /\ sweep.pc = "mark"
  /\ status' = [status EXCEPT ![sweep.cam] = "offline"]
  /\ sweep' = [sweep EXCEPT !.pc = "alert"]
  /\ raced' = IF BeingRestored(sweep.cam) THEN raced \cup {sweep.cam} ELSE raced
  /\ UNCHANGED <<clock, running, inbox, lastHb, handler, tasks, alerts, arrivedAt>>

SweepAlert ==
  /\ sweep.pc = "alert"
  /\ SendAlert(sweep.cam, "offline")
  /\ sweep' = [sweep EXCEPT !.pc = "check", !.cam = NoCamera]
  /\ UNCHANGED <<clock, running, inbox, camera, handler, tasks, history>>

\* Every camera has been looked at: the check loop sleeps.
SweepEnd ==
  /\ sweep.pc = "check"
  /\ sweep.todo = {}
  /\ sweep' = SweepIdle
  /\ UNCHANGED <<clock, running, inbox, camera, handler, tasks, alerts, history>>

\* stop() cancels the check loop in its sleep; the subscription stays.
Stop ==
  /\ running
  /\ sweep.pc = "idle"
  /\ running' = FALSE
  /\ UNCHANGED <<clock, inbox, camera, handler, sweep, tasks, alerts, history>>

-----------------------------------------------------------------------------
HandlerStep ==
  \/ Dispatch
  \/ EventDone
  \/ Lookup
  \/ Stamp
  \/ SetOnline
  \/ ScheduleRestored

SweepStep ==
  \/ SweepBegin
  \/ \E c \in Cameras : SweepPass(c) \/ SweepOverdue(c)
  \/ SweepStatus
  \/ SweepMark
  \/ SweepAlert
  \/ SweepEnd

Next ==
  \/ Tick
  \/ \E c \in Cameras : Heartbeat(c)
  \/ EventMessage
  \/ HandlerStep
  \/ SweepStep
  \/ RunRestored
  \/ Stop

Spec == Init /\ [][Next]_vars

\* Both threads are scheduled; nothing is assumed of cameras or of the clock.
Fairness ==
  /\ WF_vars(HandlerStep)
  /\ WF_vars(SweepStep)

FairSpec == Spec /\ Fairness

-----------------------------------------------------------------------------
(* Properties *)

\* "raises camera-offline alerts when no heartbeat is received within 60
\* seconds" (watchdog.py:4-5), "never reports offline if heartbeat received
\* within 60s" (tests/test_property_watchdog_state.py:7-9): a camera becomes
\* offline only when its last heartbeat reached the process longer ago than the
\* threshold, unless that heartbeat still waits for the network thread (behind
\* an event the Context Gate reasons about), is being handled, or was handled
\* during this very sweep, after it had read the older stamp.
NoFalseOffline ==
  [][\A c \in Cameras : status[c] # "offline" /\ status'[c] = "offline" =>
       \/ clock - arrivedAt[c] > Threshold
       \/ \E i \in 1..Len(inbox) : inbox[i] = c
       \/ handler.cam = c
       \/ lastHb[c] = sweep.now]_vars

\* "sends camera-restored notifications when heartbeats resume after an offline
\* period" (watchdog.py:5-6): when both threads are at rest, the last thing the
\* operator was told of a camera is whether it is offline.  This needs a cooldown
\* no longer than the threshold (both are 60 s by default), and fails only for a
\* camera that was marked offline while its heartbeat was being handled or its
\* notification waited, or that was notified later after its heartbeat than the
\* threshold exceeds the cooldown.
OperatorInformed ==
  /\ Cooldown <= Threshold
  /\ running /\ handler.pc = "idle" /\ sweep.pc = "idle" /\ tasks = <<>>
  => \A c \in Cameras \ raced : (status[c] = "offline") <=> (told[c] = "offline")

Silent(c) == status[c] = "online" /\ lastHb[c] # Never /\ clock - lastHb[c] > Threshold

\* A camera that stays silent is marked offline in the end, for every
\* interleaving of the two threads, unless the watchdog is stopped.
SilenceNoticed == \A c \in Cameras : Silent(c) ~> (~Silent(c) \/ ~running)
=============================================================================
