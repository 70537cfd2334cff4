--------------------------- MODULE Phase2Pipeline ---------------------------
(***************************************************************************)
(* From an event message to an alert or a log entry: main.py subscribes    *)
(* the two callbacks of the events topic; the MQTT subscriber's network    *)
(* thread calls ContextFilterSubscriber (phase2_pipeline.py), which        *)
(* schedules a coroutine on the event loop and waits for it, for at most   *)
(* 60 seconds; the coroutine runs VLMReasoner, OrchestrationAgent and      *)
(* AlertSystem.  At shutdown main.py joins the network thread from the     *)
(* event loop.                                                             *)
(*                                                                         *)
(* The gate's verdict is RuleMatching's question, cooldown AlertSystem's:  *)
(* here the gate decides anything, and an event is alerted when send_alert *)
(* is called for it.  Of the agent's tools the two that decide the fate of *)
(* an event are modelled; the others only add to an alert, and failures of *)
(* theirs are absorbed by _execute_tool.                                   *)
(***************************************************************************)
EXTENDS Integers, Sequences

CONSTANTS
  Events,    \* event messages, each delivered once
  NoEvent,
  Suspends,  \* whether the VLM backend suspends the coroutine while it waits;
             \* CosmosBackend calls urlopen and holds the event loop instead
  Slow,      \* whether a pipeline may outlast the handler's timeout
  Faults     \* what may fail: "AlertTool", "Insert" (of a row of events)

ASSUME PipelineAssumption ==
  /\ NoEvent \notin Events
  /\ Suspends \in BOOLEAN
  /\ Slow \in BOOLEAN
  /\ Faults \subseteq {"AlertTool", "Insert"}

VARIABLES
  main,      \* where run_application is
  callback,  \* _callbacks["+/+/+/events"] of the subscriber
  inbox,     \* messages received and not handled
  unsent,    \* events the cameras have yet to publish
  waiting,   \* the event whose pipeline the network thread waits for
  due,       \* coroutines scheduled on the event loop and not started
  loop,      \* the event whose coroutine holds the event loop
  pipeline,  \* where _run_pipeline is for each event
  row,       \* context_gate_passed of the event's row of the events table
  alerted,   \* events send_alert was called for, in order
  passed,    \* history: events the gate let through, in order
  failed     \* history: events whose alert tool or log entry failed

network == <<inbox, unsent, waiting, passed>>
outcome == <<row, alerted, failed>>
vars == <<main, callback, inbox, unsent, waiting, due, loop, pipeline, row,
          alerted, passed, failed>>

-----------------------------------------------------------------------------
Threats == {"none", "low", "medium", "high", "critical"}

Actions == {"alert", "log", "summarise", "escalate"}

InProgress(e) == pipeline[e] \in {"due", "attempt1", "attempt2"}

TypeOK ==
  /\ main \in {"start", "storing", "running", "joining", "leaving", "closed"}
  /\ callback \in {"none", "store", "gate"}
  /\ inbox \in Seq(Events)
  /\ unsent \subseteq Events
  /\ waiting \in Events \cup {NoEvent}
  /\ due \in Seq(Events)
  /\ loop \in Events \cup {NoEvent}
  /\ pipeline \in [Events -> {"none", "due", "attempt1", "attempt2", "done", "cancelled"}]
  /\ row \in [Events -> {"none", "no", "yes"}]
  /\ alerted \in Seq(Events)
  /\ passed \in Seq(Events)
  /\ failed \subseteq Events
  /\ waiting # NoEvent => InProgress(waiting) \/ pipeline[waiting] = "done"
  /\ loop # NoEvent => pipeline[loop] \in {"attempt1", "attempt2"}

Init ==
  /\ main = "start"
  /\ callback = "none"
  /\ inbox = <<>>
  /\ unsent = Events
  /\ waiting = NoEvent
  /\ due = <<>>
  /\ loop = NoEvent
  /\ pipeline = [e \in Events |-> "none"]
  /\ row = [e \in Events |-> "none"]
  /\ alerted = <<>>
  /\ passed = <<>>
  /\ failed = {}

\* An insert into the events table works, or may fail.
Insert(ok) == ok \in BOOLEAN /\ (ok \/ "Insert" \in Faults)

Stored(e, value, ok) == IF ok THEN [row EXCEPT ![e] = value] ELSE row

-----------------------------------------------------------------------------
(* run_application, on the event loop *)

\* Nothing else runs on the loop while a coroutine, or the join, holds it.
LoopFree == loop = NoEvent /\ main # "joining"

\* subscribe() replaces the callback of the topic, unless it raises.
Subscribe(from, to, new) ==
  /\ main = from
  /\ LoopFree
  /\ main' = to
  /\ callback' \in {callback, new}
  /\ UNCHANGED <<network, due, loop, pipeline, outcome>>

SubscribeStore == Subscribe("start", "storing", "store")

SubscribeGate == Subscribe("storing", "running", "gate")

\* The subscriber's disconnect(): loop_stop() joins the network thread ...
Shutdown ==
  /\ main = "running"
  /\ LoopFree
  /\ main' = "joining"
  /\ UNCHANGED <<callback, network, due, loop, pipeline, outcome>>

\* ... which ends when its handler returns; what it has not handled is dropped.
Joined ==
  /\ main = "joining"
  /\ waiting = NoEvent
  /\ main' = "leaving"
  /\ inbox' = <<>>
  /\ UNCHANGED <<callback, unsent, waiting, passed, due, loop, pipeline, outcome>>

\* The databases are closed, run_application returns, and asyncio.run cancels
\* the coroutines that are left.
Close ==
  /\ main = "leaving"
  /\ LoopFree
  /\ main' = "closed"
  /\ callback' = "none"
  /\ due' = <<>>
  /\ pipeline' = [e \in Events |-> IF InProgress(e) THEN "cancelled" ELSE pipeline[e]]
  /\ UNCHANGED <<network, loop, outcome>>

-----------------------------------------------------------------------------
(* The subscriber's network thread *)

Listening == main \in {"start", "storing", "running"}

Receive(e) ==
  /\ Listening
  /\ callback # "none"
  /\ e \in unsent
  /\ unsent' = unsent \ {e}
  /\ inbox' = Append(inbox, e)
  /\ UNCHANGED <<main, callback, waiting, passed, due, loop, pipeline, outcome>>

\* _on_message calls the callback of the message at the head.
Dispatch(which) ==
  /\ Listening
  /\ waiting = NoEvent
  /\ inbox # <<>>
  /\ callback = which
  /\ inbox' = Tail(inbox)

StoreEvent ==
  /\ Dispatch("store")
  /\ \E ok \in BOOLEAN : Insert(ok) /\ row' = Stored(Head(inbox), "no", ok)
  /\ UNCHANGED <<main, callback, unsent, waiting, passed, due, loop, pipeline, alerted, failed>>

\* An event that is unreadable or does not pass goes no further.
GateRejects ==
  /\ Dispatch("gate")
  /\ \/ UNCHANGED row
     \/ \E ok \in BOOLEAN : Insert(ok) /\ row' = Stored(Head(inbox), "no", ok)
  /\ UNCHANGED <<main, callback, unsent, waiting, passed, due, loop, pipeline, alerted, failed>>

\* run_coroutine_threadsafe(_run_pipeline), then future.result(timeout=60).
GatePasses ==
  /\ Dispatch("gate")
  /\ waiting' = Head(inbox)
  /\ passed' = Append(passed, Head(inbox))
  /\ due' = Append(due, Head(inbox))
  /\ pipeline' = [pipeline EXCEPT ![Head(inbox)] = "due"]
  /\ UNCHANGED <<main, callback, unsent, loop, outcome>>

WaitDone ==
  /\ waiting # NoEvent
  /\ pipeline[waiting] = "done"
  /\ waiting' = NoEvent
  /\ UNCHANGED <<main, callback, inbox, unsent, passed, due, loop, pipeline, outcome>>

\* Mutant of WaitTimesOut: future.result() without a timeout.
WaitForever ==
  /\ waiting # NoEvent
  /\ pipeline[waiting] = "done"
  /\ UNCHANGED vars

\* The timeout does not cancel the coroutine.  It expires in any wait that a
\* join prolongs, in others if pipelines are slow.
WaitTimesOut ==
  /\ waiting # NoEvent
  /\ pipeline[waiting] # "done"
  /\ Slow \/ main = "joining"
  /\ waiting' = NoEvent
  /\ UNCHANGED <<main, callback, inbox, unsent, passed, due, loop, pipeline, outcome>>

-----------------------------------------------------------------------------
(* _run_pipeline, on the event loop *)

\* Mutant of StartPipeline: the coroutine scheduled last runs first.
StartNewest ==
  LET e == due[Len(due)]
  IN /\ LoopFree
     /\ due # <<>>
     /\ due' = SubSeq(due, 1, Len(due) - 1)
     /\ pipeline' = [pipeline EXCEPT ![e] = "attempt1"]
     /\ loop' = IF Suspends THEN NoEvent ELSE e
     /\ UNCHANGED <<main, callback, network, outcome>>

\* The loop starts coroutines in the order they were scheduled; reason() makes
\* its first call to the backend.
StartPipeline ==
  LET e == Head(due)
  IN /\ LoopFree
     /\ due # <<>>
     /\ due' = Tail(due)
     /\ pipeline' = [pipeline EXCEPT ![e] = "attempt1"]
     /\ loop' = IF Suspends THEN NoEvent ELSE e
     /\ UNCHANGED <<main, callback, network, outcome>>

\* The backend's answer reaches the coroutine of e.
Resumes(e) == IF Suspends THEN LoopFree ELSE loop = e

Decision(t, recommended) ==
  CASE t \in {"high", "critical"} -> "alert"
    [] t = "medium" -> recommended
    [] OTHER -> "log"

Fallback(t) == IF t \in {"high", "critical"} THEN "alert" ELSE "log"

\* Mutant of Process: an escalation is neither sent nor logged.
ProcessDropping(e, t, recommended, logged) ==
  \E alertOk, logOk \in BOOLEAN :
    LET decided == Decision(t, recommended)
        action == IF decided = "alert" /\ ~alertOk THEN Fallback(t) ELSE decided
    IN /\ alertOk \/ "AlertTool" \in Faults
       /\ Insert(logOk)
       /\ row' = Stored(e, "yes", logged \/ (action \in {"log", "summarise"} /\ logOk))
       /\ alerted' = IF decided = "alert" /\ alertOk THEN Append(alerted, e) ELSE alerted
       /\ failed' = IF (decided = "alert" /\ ~alertOk) \/ (action # "alert" /\ ~logOk)
                    THEN failed \cup {e} ELSE failed
       /\ pipeline' = [pipeline EXCEPT ![e] = "done"]
       /\ loop' = NoEvent
       /\ UNCHANGED <<main, callback, network, due>>

\* OrchestrationAgent.process and the alert that follows.  Only a decision to
\* alert whose AlertTool worked has a payload to send: a fallback to "alert"
\* has none.  "logged": a failed attempt has written the row.
Process(e, t, recommended, logged) ==
  \E alertOk, logOk \in BOOLEAN :
    LET decided == Decision(t, recommended)
        action == IF decided = "alert" /\ ~alertOk THEN Fallback(t) ELSE decided
    IN /\ alertOk \/ "AlertTool" \in Faults
       /\ Insert(logOk)
       /\ row' = Stored(e, "yes", logged \/ (action # "alert" /\ logOk))
       /\ alerted' = IF decided = "alert" /\ alertOk THEN Append(alerted, e) ELSE alerted
       /\ failed' = IF (decided = "alert" /\ ~alertOk) \/ (action # "alert" /\ ~logOk)
                    THEN failed \cup {e} ELSE failed
       /\ pipeline' = [pipeline EXCEPT ![e] = "done"]
       /\ loop' = NoEvent
       /\ UNCHANGED <<main, callback, network, due>>

\* A valid response becomes the scene.
Answers(e) ==
  /\ pipeline[e] \in {"attempt1", "attempt2"}
  /\ Resumes(e)
  /\ \E t \in Threats, recommended \in Actions : Process(e, t, recommended, FALSE)

\* An exception or an invalid response: the failure is logged, by a row.
FirstFails(e) ==
  /\ pipeline[e] = "attempt1"
  /\ Resumes(e)
  /\ \E ok \in BOOLEAN : Insert(ok) /\ row' = Stored(e, "yes", ok)
  /\ pipeline' = [pipeline EXCEPT ![e] = "attempt2"]
  /\ UNCHANGED <<main, callback, network, due, loop, alerted, failed>>

\* Mutant of SecondFails: the backend is tried for ever.
RetryForever(e) ==
  /\ pipeline[e] = "attempt2"
  /\ Resumes(e)
  /\ pipeline' = [pipeline EXCEPT ![e] = "attempt1"]
  /\ UNCHANGED <<main, callback, network, due, loop, outcome>>

\* _rule_based_fallback: the confidence of the detection gives the threat.
SecondFails(e) ==
  /\ pipeline[e] = "attempt2"
  /\ Resumes(e)
  /\ \E ok \in BOOLEAN, t \in Threats \ {"critical"} : Insert(ok) /\ Process(e, t, "log", ok)

-----------------------------------------------------------------------------
Handler ==
  \/ StoreEvent
  \/ GateRejects
  \/ GatePasses

Wait == WaitDone \/ WaitTimesOut

Pipeline(e) == Answers(e) \/ FirstFails(e) \/ SecondFails(e)

Next ==
  \/ SubscribeStore
  \/ SubscribeGate
  \/ Shutdown
  \/ Joined
  \/ Close
  \/ \E e \in Events : Receive(e)
  \/ Handler
  \/ Wait
  \/ StartPipeline
  \/ \E e \in Events : Pipeline(e)

Spec == Init /\ [][Next]_vars

\* Both threads run, timeouts expire, and the backend answers or fails (urlopen
\* has a timeout).
Fairness ==
  /\ WF_vars(Wait)
  /\ WF_vars(StartPipeline)
  /\ \A e \in Events : WF_vars(Pipeline(e))
  /\ WF_vars(Joined)
  /\ WF_vars(Close)

FairSpec == Spec /\ Fairness

-----------------------------------------------------------------------------
(* Properties *)

Alerted == {alerted[i] : i \in 1..Len(alerted)}

\* No event that passed the gate is dropped: when its pipeline ends, through
\* whatever attempts, retries and fallbacks, it was alerted or is logged as
\* having passed, unless the alert tool or the log entry of this very event
\* failed.
Accounted ==
  \A e \in Events \ failed : pipeline[e] = "done" => e \in Alerted \/ row[e] = "yes"

\* Timeouts let several pipelines of a camera pile up, yet alerts go out in the
\* order the events passed the gate: the loop starts coroutines in order, and
\* with a backend that holds the loop none overtakes another.
AlertsInOrder ==
  \A i, j \in 1..Len(alerted) : i < j =>
    \E k, l \in 1..Len(passed) : k < l /\ passed[k] = alerted[i] /\ passed[l] = alerted[j]

\* The network thread may wait for a coroutine that the event loop, joining the
\* thread, cannot run: shutdown still ends.
ShutdownEnds == main = "joining" ~> main = "closed"

\* Every event that passes the gate is decided, unless the process stops.
EventDecided == \A e \in Events : pipeline[e] = "due" ~> pipeline[e] = "done" \/ main = "closed"
=============================================================================
