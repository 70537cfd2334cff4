-------------------------- MODULE EventSummarizer --------------------------
(***************************************************************************)
(* event_summarizer.py: the hourly and the daily loop of summaries.        *)
(*                                                                          *)
(* A loop sleeps for its period, summarises the events of the period that   *)
(* ends at that moment, and sleeps again; nothing records what was          *)
(* reported.  Other coroutines may hold the event loop past the end of a    *)
(* sleep, and the model's answer takes its time.  Of an event the model     *)
(* keeps how long ago it happened and whether its row is there; of a        *)
(* summary the events it counts.  The alerts table is empty: no code of     *)
(* the program fills it.                                                    *)
(***************************************************************************)
EXTENDS Integers

CONSTANTS
  NumTasks,   \* loops, in the order stop_scheduler cancels them
  Period,     \* the sleep and the window of each loop
  Events,     \* events of the first camera's tenant: no others are summarised
  MaxFaults   \* bound on failed queries and restarts

Tasks == 1..NumTasks

ASSUME SummaryAssumption ==
  /\ NumTasks \in Nat
  /\ Period \in [Tasks -> Nat \ {0}]
  /\ MaxFaults \in Nat

VARIABLES
  task,     \* each loop: where it is, what is left of its sleep, the events found
  stop,     \* 0: running; t: stop_scheduler awaits loop t; more: it has returned
  held,     \* another coroutine keeps the event loop
  age,      \* how long ago each event happened
  rows,     \* events stored
  faults,
  slept,    \* history: events that happened in the sleep each loop is in
  late,     \* history: the sleep has lasted longer than the period
  told      \* history: how many summaries of each loop counted each event

program == <<task, stop, held>>
data == <<age, rows>>
history == <<slept, late, told>>
vars == <<program, data, faults, history>>

-----------------------------------------------------------------------------
\* An age is counted until it is past every window.
NotYet == -1
MaxAge == 1 + (CHOOSE p \in {Period[t] : t \in Tasks} : \A t \in Tasks : Period[t] <= p)

Loop == [pc : {"sleep", "analyze", "deliver", "ended"}, left : Nat, found : SUBSET Events]

TypeOK ==
  /\ task \in [Tasks -> Loop]
  /\ stop \in 0..(NumTasks + 1)
  /\ held \in BOOLEAN
  /\ age \in [Events -> NotYet..MaxAge]
  /\ rows \subseteq Events
  /\ faults \in 0..MaxFaults
  /\ slept \in [Tasks -> SUBSET Events]
  /\ late \in [Tasks -> BOOLEAN]
  /\ told \in [Tasks -> [Events -> 0..2]]

\* asyncio.sleep of the whole period, at the top of the loop.
Asleep(t) == [pc |-> "sleep", left |-> Period[t], found |-> {}]

Started == [t \in Tasks |-> Asleep(t)]

Init ==
  /\ task = Started
  /\ stop = 0
  /\ held = FALSE
  /\ age = [e \in Events |-> NotYet]
  /\ rows = {}
  /\ faults = 0
  /\ slept = [t \in Tasks |-> {}]
  /\ late = [t \in Tasks |-> FALSE]
  /\ told = [t \in Tasks |-> [e \in Events |-> 0]]

Fault == faults < MaxFaults /\ faults' = faults + 1

Due(t) == task[t].pc = "sleep" /\ task[t].left = 0

-----------------------------------------------------------------------------
(* The world around the loops *)

\* A sleep that is over ends at once unless the event loop is held.
Tick ==
  /\ held \/ \A t \in Tasks : ~Due(t)
  /\ age' = [e \in Events |-> IF age[e] \in 0..(MaxAge - 1) THEN age[e] + 1 ELSE age[e]]
  /\ task' = [t \in Tasks |->
                [task[t] EXCEPT !.left = IF @ > 0 THEN @ - 1 ELSE @]]
  /\ late' = [t \in Tasks |-> late[t] \/ Due(t)]
  /\ UNCHANGED <<stop, held, rows, faults, slept, told>>

Happen(e) ==
  /\ age[e] = NotYet
  /\ age' = [age EXCEPT ![e] = 0]
  /\ slept' = [t \in Tasks |-> IF task[t].pc = "sleep" THEN slept[t] \cup {e} ELSE slept[t]]
  /\ UNCHANGED <<program, rows, faults, late, told>>

\* Its row is inserted, by another thread or by the gate.
Store(e) ==
  /\ age[e] # NotYet
  /\ e \notin rows
  /\ rows' = rows \cup {e}
  /\ UNCHANGED <<program, age, faults, history>>

Hold ==
  /\ ~held
  /\ held' = TRUE
  /\ UNCHANGED <<task, stop, data, faults, history>>

Release ==
  /\ held
  /\ held' = FALSE
  /\ UNCHANGED <<task, stop, data, faults, history>>

-----------------------------------------------------------------------------
(* _hourly_loop and _daily_loop *)

\* The event loop resumes t; once cancel() was called for it, t only ends.
Runs(t) == ~held /\ stop # t

Goto(t, pc, found) == task' = [task EXCEPT ![t] = [pc |-> pc, left |-> 0, found |-> found]]

\* Mutant of Sleep: the time the summary took is taken off the next sleep.
SleepToSchedule(t) ==
  /\ task' = [task EXCEPT ![t] = [Asleep(t) EXCEPT !.left = @ - 1]]
  /\ slept' = [slept EXCEPT ![t] = {}]
  /\ late' = [late EXCEPT ![t] = FALSE]

\* The loop goes round.
Sleep(t) ==
  /\ task' = [task EXCEPT ![t] = Asleep(t)]
  /\ slept' = [slept EXCEPT ![t] = {}]
  /\ late' = [late EXCEPT ![t] = FALSE]

\* Mutant of InWindow: the window is a tick short.
InShortWindow(t) == {e \in rows : age[e] > 0 /\ age[e] < Period[t]}

\* query_events_in_window of now - period, included, to now, excluded.
InWindow(t) == {e \in rows : age[e] > 0 /\ age[e] <= Period[t]}

\* generate_summary: without events there is nothing to ask the model.
Summarize(t) ==
  /\ Runs(t)
  /\ Due(t)
  /\ stop = 0
  /\ Goto(t, IF InWindow(t) = {} THEN "deliver" ELSE "analyze", InWindow(t))
  /\ UNCHANGED <<stop, held, data, faults, history>>

\* Mutant of QueryRaises: the exception ends the loop.
QueryRaisesOut(t) ==
  /\ Runs(t)
  /\ Due(t)
  /\ stop = 0
  /\ Fault
  /\ Goto(t, "ended", {})
  /\ UNCHANGED <<stop, held, data, history>>

\* A SELECT raises: the loop logs it and sleeps again.
QueryRaises(t) ==
  /\ Runs(t)
  /\ Due(t)
  /\ stop = 0
  /\ Fault
  /\ Sleep(t)
  /\ UNCHANGED <<stop, held, data, told>>

\* The loop wakes up and finds that it is being stopped.
Leave(t) ==
  /\ Runs(t)
  /\ Due(t)
  /\ stop > 0
  /\ Goto(t, "ended", {})
  /\ UNCHANGED <<stop, held, data, faults, history>>

\* The model answers with a text or with none, or raises: the counts are sent
\* in either case, in its words or in those of build_statistical_summary.
Answer(t) ==
  /\ Runs(t)
  /\ task[t].pc = "analyze"
  /\ Goto(t, "deliver", task[t].found)
  /\ told' = [told EXCEPT ![t] = [e \in Events |->
                IF e \in task[t].found /\ @[e] < 2 THEN @[e] + 1 ELSE @[e]]]
  /\ UNCHANGED <<stop, held, data, faults, slept, late>>

\* deliver_summary: send_alert delivers, suppresses or raises; a summary that
\* was not delivered is logged and not sent again.  A loop that was to be stopped
\* meanwhile does not go round again.
Deliver(t) ==
  /\ Runs(t)
  /\ task[t].pc = "deliver"
  /\ \/ stop = 0 /\ Sleep(t)
     \/ stop > 0 /\ Goto(t, "ended", {}) /\ UNCHANGED <<slept, late>>
  /\ UNCHANGED <<stop, held, data, faults, told>>

-----------------------------------------------------------------------------
(* stop_scheduler, and another start of the program *)

BeginStop ==
  /\ ~held
  /\ stop = 0
  /\ stop' = 1
  /\ UNCHANGED <<task, held, data, faults, history>>

\* The loop it awaits ends, by CancelledError at whatever it awaited or because
\* it had left; then the next one is cancelled.
Cancelled(t) ==
  /\ ~held
  /\ stop = t
  /\ Goto(t, "ended", {})
  /\ stop' = t + 1
  /\ UNCHANGED <<held, data, faults, history>>

\* The process ends, by a crash or after stop_scheduler, and is started again.
Restart ==
  /\ Fault
  /\ task' = Started
  /\ stop' = 0
  /\ held' = FALSE
  /\ slept' = [t \in Tasks |-> {}]
  /\ late' = [t \in Tasks |-> FALSE]
  /\ UNCHANGED <<data, told>>

LoopStep(t) ==
  \/ Summarize(t) \/ QueryRaises(t) \/ Leave(t)
  \/ Answer(t) \/ Deliver(t)

Next ==
  \/ Tick \/ Hold \/ Release
  \/ \E e \in Events : Happen(e) \/ Store(e)
  \/ \E t \in Tasks : LoopStep(t) \/ Cancelled(t)
  \/ BeginStop \/ Restart

Spec == Init /\ [][Next]_vars

\* Time passes; no coroutine holds the loop for ever, and asyncio then resumes
\* every loop that is ready, however often the loop is held again; the model and
\* the channels answer or raise.
FairSpec ==
  /\ Spec
  /\ WF_vars(Tick) /\ WF_vars(Release)
  /\ \A t \in Tasks : SF_vars(LoopStep(t)) /\ SF_vars(Cancelled(t))

-----------------------------------------------------------------------------
(* Properties *)

\* No event is counted in two hourly nor in two daily summaries, though nothing
\* records what a summary counted, through failures, late wake-ups and restarts:
\* a loop never looks further back than it slept (event_summarizer.py:455-460).
ReportedOnce == \A t \in Tasks, e \in Events : told[t][e] <= 1

\* The other way round: when a loop wakes up on time and queries, it finds every
\* event that happened while it slept and is stored by now.  What
\* it misses happened while it made and delivered the last summary, or its row
\* was late.
SleepReported ==
  [][\A t \in Tasks :
       Due(t) /\ task'[t].pc \in {"analyze", "deliver"} /\ ~late[t] =>
         {e \in slept[t] \cap rows : age[e] > 0} \subseteq task'[t].found]_vars

\* Whatever fails, a loop that is not being stopped comes to its next summary
\* (event_summarizer.py:466-467 logs the failure and goes on).
SummariesGoOn ==
  \A t \in Tasks : task[t].pc = "sleep" ~> (task[t].pc = "deliver" \/ stop > 0)
=============================================================================
