# A TLA+ verification of the Agentic AI CCTV monitor

The program watches cameras. For each camera it detects and tracks objects and
publishes an event over MQTT for each new track; it subscribes to those events
itself, lets a set of rules decide which of them deserve a look, has a vision
model describe these, decides, and alerts an operator. Beside this path run
reconnection to the broker, a watchdog over heartbeats, compilation and
activation of rules from prompts, retention, and two web APIs.

All of it is one Python process (`src/src/agentic_cctv/`), with one asyncio event
loop and several threads that share state with it. This directory holds TLA+
modules for the parts whose correctness depends on the order in which these
run, TLC configurations that check them on small instances, and TLAPS proofs of
the properties that matter most. File names below are those of
`src/src/agentic_cctv/`.

## 1. Inventory

### Who runs

| Runs | Code |
| --- | --- |
| event loop | `main.py` main loop over the cameras; pipeline coroutines; `send_alert`; the watchdog's check loop; retention; purge of frame crops; summaries; all handlers of the dashboard, mobile and health APIs; `save_ruleset` |
| subscriber's network thread (paho) | `MQTTSubscriber._on_message`, and in it the gate (`ContextFilterSubscriber`), `Watchdog._on_heartbeat`, `TimeSeriesDBSubscriber`; `_on_disconnect` |
| publisher's network thread (paho) | `MQTTPublisher._on_disconnect` |
| reconnect threads | `_reconnect_loop` of either client; on the publisher also the drain of the outbox |
| executor threads | blocking paho calls of `connect`, `publish`, `subscribe`, `disconnect` |
| capture threads | `VideoFeeder._capture_loop`, one per camera |

### Components

| Component | State | Operations | What makes it correct |
| --- | --- | --- | --- |
| Rule store (`rule_store.py`) | table `rule_sets` behind one connection that all threads share | `save_ruleset` (UPDATE, INSERT, commit), `get_active_ruleset`, `rollback` | one active version per camera, whenever the process dies |
| Gate's cache (`context_filter.py`) | `_cache`, `_cache_timestamps` under a lock | `evaluate` on the network thread, `reload_rules` on the loop | a verdict rests on rules that were in force at most a TTL ago |
| Prompt compiler (`prompt_compiler.py`) and the handlers that call it | none: a preview is not kept | `compile` (a wait for the model, then parsing), `confirm_and_activate` over several cameras; rehearsal on stored events | a request does all it says or says it failed; the rules in force are those of one answer; the rehearsal shows what the gate will do |
| Rule matching (`context_filter.py`) | none but the loop's | conditions, compounds, `suppress_if`, zones, windows | verdict independent of the order of the rules |
| Alert system (`alert_system.py`) | `_cooldown_map` | `send_alert`: check, deliver on each channel, record | no duplicate within the cooldown; nothing suppressed without an original |
| Publisher and outbox (`mqtt_client.py`, `store_and_forward.py`) | `_connected`, `_reconnecting`, table `outbox` | connect, publish, disconnect, `_on_disconnect`, reconnect, `enqueue`, `drain`, `dequeue` | at-least-once, in order, one reconnect thread, outages end |
| Subscriber (`mqtt_client.py`) | `_callbacks`, `_subscriptions`, the flags | subscribe, dispatch, reconnect and resubscribe | subscriptions survive outages; dispatch never stops |
| Watchdog (`watchdog.py`) | `_CameraState` per camera | `_on_heartbeat` on the network thread, `_check_cameras` on the loop, scheduled restored alerts | silence is noticed; no false offline; the operator knows the truth |
| Event pipeline (`phase2_pipeline.py`, `vlm_reasoner.py`, `vlm_backends.py`, `orchestration_agent.py`) | the coroutine of each event; rows of `events` | bridge from thread to loop with a timeout; two attempts and a fallback; decision; tools | every passed event is decided and accounted for, in order; shutdown ends |
| Camera pipeline (`video_feeder.py`, `tracker.py`, `event_encoder.py`, `detection_engine.py`) | latest frame, tracks | capture thread, poll, track, publish | one event per object |
| Retention (`retention_scheduler.py`, `timeseries_db.py`, `vector_db.py`) | events, aggregates, embeddings | aggregate, purge, orphan purge | aggregates neither lose nor repeat events |
| Frame crops (`frame_crop_store.py`, loop in `main.py`) | encrypted files, table `crop_metadata` | `store_crop`, `get_crop`, URLs, `purge_expired` for a tenant or for all | a stored crop opens until its retention is over, and is gone after it |
| Agent tools, A2A hub, MCP server (`a2a_comm.py`, `mcp_server.py`) | locked maps and mailboxes | one-step operations | bounded mailboxes |
| Summaries (`event_summarizer.py`) | two loops asleep, querying, waiting for the model or delivering | hourly and daily summary, `stop_scheduler` | no event counted twice, none that happened during a sleep missed; the loops outlive failures |
| Heartbeats (`heartbeat_publisher.py`) | none to speak of | a timed loop | |
| APIs (`dashboard.py`, `mobile_api.py`, `health_api.py`) | none of their own; `alerts.status` | compile, activate, roll back; acknowledge, dismiss, escalate; reads | what is answered was done |
| Configuration (`config_manager.py`, `environment_templates.py`, `models.py`) | none | loading and validation | |

### How they interact

A camera pipeline publishes an event through the publisher; the broker returns it
to the subscriber, whose network thread calls the gate; the gate reads its cache
or the rule store; an event that passes is scheduled as a coroutine on the event
loop, for which the network thread waits up to 60 s; the coroutine calls the
vision model, the agent and its tools, and `send_alert`. The same network thread
handles heartbeats. Activation runs on the event loop and meets the gate in the
rule store and its cache. The watchdog's notices, escalations by operators and summaries
go through the same `send_alert` and its cooldowns. A tool of the agent stores a crop of the
frame and puts a URL to it into the alert.

### What is hard

* The threads share dicts and flags, mostly without locks: watchdog states,
  callbacks and subscriptions, `_connected`, one SQLite connection.
* `send_alert`, the pipeline and `_get_ruleset` check something, give up the
  loop or the lock, and act on what they checked.
* paho reconnects by itself, beside the program's own reconnect thread.
* The network thread waits for the event loop, and at shutdown the event loop
  waits for the network thread.
* Statements that fail half-way are not rolled back; crashes fall between
  statements, between a publication and the removal of its row, and between a file
  and the row about it.
* Operators' requests wait for the model or for a channel while others go on.

`PROJECT.json` lists each of these under `hazards`, at its line, with the
properties that bear on it. Where the hazard strikes in the code as it is, the property
excepts the case it strikes in, and the hazard's `note` says what is covered and what is not.

## 2. Modules

Each component module starts with a comment on what it takes from the code and
what it leaves out, declares the component's state as variables with the code's
names beside them, and has one action per step that other threads can see. Steps
are as fine as the interleaving: a region under a lock, or code between two
awaits that no other thread touches, is one action; each unlocked access to
shared state, and each SQL statement on the shared connection, is its own.
Variables marked `history` are read by properties only. Operators marked
"Mutant of" are no part of the specification: each is the bug that shows that a
property can fail.

| Module | Models | How it corresponds |
| --- | --- | --- |
| `RuleActivation` | rule store, gate's cache, activation, rollback | `rows` is the table as the shared connection sees it, `committed` as the file holds it. The saver (event loop) steps through `DeactivateOld`, `InsertNew`, `Commit`, `Reload` for each target camera; `SaveRaises` is an exception in any statement, with no rollback. A reader steps through `BeginEvaluate` (clock), `CacheHit`/`CacheMiss` (lock), `LoadFromStore` (no lock), `FillCache` (lock). `Restart` keeps `committed` only. |
| `RuleMatching` | `evaluate`'s loop, all conditions, `point_in_polygon`, `time_in_window`, and the rehearsal's loop | `next`, `matched`, `result` are the loop's variables; the rehearsal runs after the gate on the same event and ruleset. |
| `AlertReview` | the handlers that acknowledge, dismiss and escalate an alert, on `AlertSystem` | extends `AlertSystem`: a request is one more caller; `status` is the column, committed before the handler awaits `send_alert`; the retention cycle deletes rows. |
| `AlertSystem` | `send_alert` | one event loop (`loop`), an activation of `send_alert` per caller, channels that may suspend the coroutine or refuse the alert. |
| `MQTTPublisher` | publisher, reconnect thread, outbox | `_connected`, `_reconnecting`, the reconnect threads' program counters, rows of the outbox, and paho's messages in flight. Implements `AtLeastOnce`. |
| `AtLeastOnce` | what an outbox promises | store, receive, forget what was received. |
| `MQTTSubscriber` | subscriber as `main.py` uses it | the start-up's subscribe calls, dispatch over `_callbacks`, `_on_disconnect`, reconnect and resubscribe over `_subscriptions`; a dict that changed under an iteration raises, as in Python. |
| `Watchdog` | heartbeat handler and check loop | each access to `_CameraState` is a step, the sweep's readings of stamp (`SweepOverdue`) and status (`SweepStatus`) and its writing (`SweepMark`) among them; the handler also runs the gate's callback, which holds the thread for up to its timeout; restored notices are queued for the loop, where they may wait. |
| `Tracker` | `Tracker.update` | operators on the list of active tracks: IoU as a fraction, greedy matching, ageing. |
| `CameraPipeline` | `VideoFeeder` and `CameraPipeline` of one camera | the capture thread (`thread`) steps through test, read, release, open; the loop (`loop`) polls `latest`, updates `tracks` and publishes those `due`; `stop()` sets the flag, joins with a timeout, releases. |
| `Retention` | `run_retention`, the events and summaries tables, embeddings | a cycle is one statement per step (`pc`); `raw`, `daily` are the tables as the shared connection sees them, `savedRaw`, `savedDaily` as the file holds them; between statements the gate inserts and commits, and a failed statement leaves its transaction open. |
| `Phase2Pipeline` | bridge, reasoner, agent, shutdown | `callback` is the one callback of the events topic, `waiting` the event the network thread waits for, `due` the coroutines scheduled, `loop` the coroutine that holds the loop. |
| `FrameCropStore` | `store_crop`, reads, `purge_expired`, the purge loop | `file` is what is on the disk, `rows` and `saved` the table as the connection and as the file have it; a call is one step (`pc`) per file operation or statement, after each of which it may fail or the process die. |
| `PromptRequests` | compile, activate and roll back of both APIs, parsing, JSON of rules | `request` is each handler's place, `loop` who holds the event loop; a save is one step, whose statements `RuleActivation` has, and one that raises leaves what they did until then (`Leftover`). A field of a rule is how it reads: absent, fine, of the wrong type, empty. |
| `EventSummarizer` | hourly and daily loop | `task` is each loop's place and what is left of its sleep; `age` says how long ago each event happened, `rows` whether it is stored; `held` is another coroutine on the event loop. |
| `MC_*` | instances for TLC | model values, small rulesets, cooldowns and start-up calls. |
| `*_proofs` | theorems | see 4. |

How modules meet: each takes its neighbour as an environment that may do what the
neighbour's module does. `Watchdog` and `Phase2Pipeline` use `send_alert` as
`AlertSystem` has it on channels that do not suspend (the three the repository
ships); `Phase2Pipeline` lets the gate decide anything, which `RuleMatching` and
`RuleActivation` make precise; `RuleActivation` treats a ruleset as a version;
`CameraPipeline` publishes to a broker client that may raise, whose rest is `MQTTPublisher`;
`Retention` takes inserts and embeddings as `Phase2Pipeline` makes them; `AlertReview` is
composed with `AlertSystem` itself, and implements it (`ReviewImplements`); `PromptRequests`
takes a save as one step, `RuleActivation` a prompt as decided.

External code is marked so in the map: paho-mqtt 2.1.0 (reconnects by itself after
a lost connection, keeps QoS 1 messages until PUBACK, drops QoS 0 messages without
a link, starts a clean session, calls `on_disconnect` from `disconnect()`, ends its
thread on an exception out of `on_message`), asyncio (one callback at a time, in
order), SQLite (a statement is atomic; an uncommitted change is seen by users of
the connection and lost by a crash), OpenCV (a call may take any time, fail, and leave
a capture that is not open), the detection model (a frame shows any of the given
scenes), ChromaDB (an upsert or a delete lasts).

## 3. Runs

Each passing run checks the invariants and properties below on its instance;
`PROJECT.json` pairs each with a mutant that TLC finds.

**activation** (`RuleActivation.cfg`; 2 cameras, 2 versions, 1 reader, TTL 1, clock to 1, failing statements, crashes)
* `BoundedStaleness`: an evaluation applies rules that were the camera's answer
  less than a TTL before it took its clock. A reload that is overtaken by a fill
  does put a superseded ruleset back into the cache (the store is read outside
  the lock), and the bound holds because a fill is dated before its read.
* `OneCommittedRuleset`: one active version in the file, except for a camera whose
  own save failed between UPDATE and INSERT, until it is saved again: that
  deactivation is not rolled back, and the next camera's commit writes it.

Two cameras let one camera's commit write another's leftovers; one reader is
enough as readers meet only in the cache, where a fill by another is a fill by the
same reader earlier; the proofs cover any number.

**matching** (`RuleMatching.cfg`; all rulesets of up to 3 of 12 rules and 24 events, all
polygons of up to 4 vertices on a 3x3 grid, all windows of a day of 12 units)
* `GateExact`: an event passes exactly when rules match and none of them
  suppresses it, in whatever order.
* `HistoryCoversGate`: what passes, the rehearsal counts; what only the rehearsal
  counts was suppressed by another rule. (The rehearsal goes on where the gate
  stops, though `prompt_compiler.py:458` says "Uses the same logic".)
* `ZoneExact`, `WindowExact`: ray casting against a fan of triangles, the window
  test against an arc of the day. Points on an edge's line are left open.

**alerts** (`AlertReview.cfg`; 2 keys with different cooldowns, a sender of the program and
two requests about one alert, a channel that suspends and may fail and one that does
neither, clock to 2)
* `NoDuplicate`: a channel accepts two alerts of a key within the cooldown only if
  their `send_alert` calls overlapped. They can: the check is before the awaits and
  the record after them.
* `SuppressedIsDuplicate`: with one channel that never refuses, a suppressed alert
  has a delivered original. (With none, an alert nobody took starts a cooldown.)
* `EscalatedHeard`: with one such channel, an alert whose status is escalated was heard of
  once no handler is still sending it. It need not have been heard of again: an escalation
  within the cooldown of its original is suppressed, and answered "escalated" all
  the same.

Two requests and a sender are the fewest with which an escalation meets another, a
dismissal and an alert of the same key; the clock reaches the end of a window.

**publisher** (`MQTTPublisher.cfg`; 3 messages, of which one is published past the outbox with
QoS 0, 2 thread identities, 3 faults of lost links, lost PUBACKs and crashes,
`disconnect()`)
* `ImplementsQueue`: the publisher with its outbox refines `AtLeastOnce`, whatever is
  published past the outbox meanwhile.
* `InOrder`: QoS 1 messages of the outbox first arrive in order.
* `OneReconnector`: one reconnect thread at a time.
* `OutageHeals`, `OutageDrained`: an outage the reconnect thread takes on ends with the
  flag set, and the last reconnection brings what is stored to the broker.

The run leaves out an outage during `connect()` (`EarlyOutage` is FALSE): it starts a
reconnect thread, and when `connect()` then sets `_connected` in the middle of that thread's
drain, a row is published after its predecessor was refused: the exception to `InOrder`. The other
proofs are for either value.

An outage nobody takes on exists: when the link breaks after the thread has left its
loop and before its last lock (`mqtt_client.py:222` to 231), `_on_disconnect` finds
`_reconnecting` set and starts no thread, and `_connected` stays false although paho
itself may be connected again. `OutageHeals` is stated without this case.

**subscriber** (`MQTTSubscriber.cfg`; the three subscribe calls of `main.py`, two outages at any
time, shutdown)
* `Restored`: on a connection of the program or of its reconnect thread the broker
  has all recorded subscriptions. Excepted are a connection paho made by itself,
  on top of the thread's, on which nobody subscribes again, and one whose
  resubscription was cut short by a new `subscribe()`.
* `OutageHeals`: an outage the thread took on ends.

An event that arrives between the program's subscriptions to events and to heartbeats can
end the network thread (`net` is then "dead"): the second subscription grows the dict that
`_on_message` iterates, and the RuntimeError leaves it. Both properties hold in those
behaviours too.

**watchdog** (`Watchdog.cfg`; 1 camera, threshold 3, cooldown and callback timeout 2, clock to 9,
2 messages in the inbox)
* `NoFalseOffline`: a camera is marked offline only if no heartbeat of it reached the
  process within the threshold, except one that waits behind the gate's callback, is being
  handled, or was handled during this very sweep, between its reading of the stamp
  (`watchdog.py:283`) and the marking (285).
* `OperatorInformed`: at rest, the last notice of a camera agrees with its status, with a
  cooldown no longer than the threshold (both default to 60 s), except for a camera that was
  marked offline while its heartbeat was being handled or its restored notice waited, and
  for one whose restored notice went out later after its heartbeat than the threshold
  exceeds the cooldown: it starts a cooldown that may suppress the next one.
* `SilenceNoticed`: a silent camera is marked.

Time passes while a restored notice is scheduled: the loop that is to run it may be held by
a vision backend (`vlm_backends.py:171`). Cameras share nothing but the threads, so one camera
and events as foreign messages show the interleavings; a threshold above the cooldown lets a
notice be late without being too late; 9 ticks hold an outage, a
restoration and a second outage.

**pipeline** (`Phase2Pipeline.cfg`; 3 events, a backend that holds the loop, timeouts, failing
tools and inserts, shutdown at any time)
* `Accounted`: a passed event is alerted or logged when its pipeline ends, unless
  the tool or the insert of this event failed. (After a failed `AlertTool` the
  fallback is "alert" again and has nothing to send.)
* `AlertsInOrder`: alerts keep the order of the events, though a timed-out coroutine
  is not cancelled and overlaps the wait for the next.
* `ShutdownEnds`: `loop_stop()` joins, on the loop, a thread that waits for the loop,
  and the wait's timeout resolves it.
* `EventDecided`: every passed event is decided, unless the process stops.

**camera** (`CameraPipeline.cfg`; a file or a live source, scenes of three boxes in a line of
which neighbours are similar and of a box of no width, 6 reads of which every second
is emitted, 4 tracks, `MaxAge` 1)
* `AnnouncedOnce`: each track has one event, published or due, or was lost when
  publishing raised for it or for a track before it (`main.py:244`): the next frame
  does not find it new.
* `SameFrameQuiet`: polling a frame again makes no track, though every poll ages the
  tracks that the frame does not show. Excepted are frames with a box rounded to width
  or height 0 (`runtimes.py:75`), which is not similar to itself.
* `StillKeepsTrack`: an object that has not moved keeps its track in any company.
* `StoppedClean`: after a `stop()` whose join did not time out there is no thread and no
  capture. After one that did, the thread may open the source once more.
* `FeedRecovers`: a capture found closed is opened again.

Three boxes are the fewest in which greedy matching can go wrong; three emitted
frames let a track be made, missed and dropped.

**retention** (`Retention.cfg`; two events of the gate, one of the pipeline, days of 2 ticks,
rows kept for 1 tick, summaries for 2, clock to 4, 2 failures or crashes)
* `CountedOnce`: between cycles every event of a day is a row or counted once in the
  summary, and the average is theirs, though a cutoff splits a day and the gate commits
  in the middle of a cycle. Excepted are days with rows at stake in a cycle in which a
  statement failed or the process died: `run_retention` purges after a failed aggregation
  (`retention_scheduler.py:140`), and a crash between the two commits counts twice.
* `EmbeddingKept`: a row of a passed event keeps its embedding, except a row that was
  deleted without a commit and comes back after a crash.
* `OldRowsGo`: in the end no row is older than its age, however cycles fail.

A day of two ticks and an age of one make cutoffs within days; three events of
different confidence make a weighted average differ from others.

**crops** (`FrameCropStore.cfg`; two events of two tenants, retention of 2 ticks, URLs of 1, a purge
every 2, 3 failures or crashes)
* `CropReadable`: the crop of a completed store is opened by each of its unexpired URLs and
  found by its tenant until its retention is over, whatever fails for other events; storing
  the event again starts the period again. Excepted is an event whose own later store was
  cut short: opening the file for writing destroys the crop there was.
* `NothingOutlivesPurge`: a purge of all tenants that ends without an exception leaves no
  file past its retention but those no row tells of: of a store cut short before its commit,
  and of a failed removal, whose row goes all the same (`frame_crop_store.py:540`).
* `ExpiredGo`: the purge loop outlives its exceptions, and expired crops go.

Two tenants let one tenant's purge be confused with the other's; a retention longer than the
life of a URL is what `main.py` configures; three faults let a failed store, a failed purge and
a crash follow each other.

**prompts** (`PromptRequests.cfg`; three requests, three lists of cameras that overlap and
differ in order, four answers of the model of which two are unusable, failing saves)
* `OnePrevails`: of two activations with overlapping lists one prevails on all the cameras
  they share. It rests on `confirm_and_activate` not giving up the loop between saves.
* `RepliesTell`: a request answered with a preview, or with an error before any of its saves
  raised, gave no camera rules; an activation or a rollback answered as such gave them to all
  its cameras; and a camera that ever had rules is without any only after a request for it,
  answered with an error, raised in its save. Such an error says little: nothing is rolled
  back, so that the camera may have the old rules, none, or the new ones.
* `RulesAsAnswered`: through parsing, JSON and rollbacks the rules in force are those of one
  answer, in its order, and each field the answer gave as asked, or left out, is as answered.

`LLMSuspends` is TRUE, which contains the behaviours of the client `main.py` has, whose call
holds the loop. Three requests make at most six versions, so `MaxVersions` never binds.

**summaries** (`EventSummarizer.cfg`; two loops with periods of 2 and 4 ticks, one event, 2 failed
queries or restarts)
* `ReportedOnce`: no loop counts an event twice, though nothing records what was counted: it
  never looks further back than it slept.
* `SleepReported`: a loop that wakes on time finds every event that happened in its sleep and
  is stored. What it misses happened while it made and delivered the last summary, was stored
  late, or lies before a restart; and a loop that wakes late looks back a period from then.
* `SummariesGoOn`: a loop that is not being stopped comes to its next summary.

Events do not influence one another, so one at any time is enough; two periods let one loop
sleep through rounds of the other.

### Fairness

`FairSpec` is used where liveness is checked. Weak fairness on a thread's steps: the
operating system schedules it. Weak fairness on the event loop's coroutines: asyncio
runs what is ready. Strong fairness on a successful reconnection: the loop retries
for ever, and a broker that is reachable again and again is reached; the same holds of a
video source (`ReopenSucceeds`), which the capture thread tries every second. Weak
fairness on retention's cycle: its loop sleeps and wakes. Time passes in
`FrameCropStore` (strong fairness on `Tick`, which calls of other coroutines may postpone)
and in `EventSummarizer`, where no coroutine holds the event loop for ever; and a sleep that
is over ends (strong fairness on the purge loop's and the summary loops' steps: asyncio
resumes a coroutine that is ready however often others held the loop before). Nothing is
assumed of cameras, operators, new messages, other clocks, or faults; faults are bounded
by `MaxFaults`. Nothing is assumed of `ReconnectFails`, which may repeat.

`CHECK_DEADLOCK FALSE` is set in all runs: clocks, messages and faults are bounded, and
a process that has been shut down, or a decision that has been made, has no next step.

## 4. Proofs

TLAPS proves the following for all values of the constants (within each module's `ASSUME`
and the hypotheses named): every safety property of the runs, for any number of cameras,
messages, events, requests, boxes, faults and steps.

A proof module extends one component and takes up to two more by a named `INSTANCE`
(their definitions carry its name, as in `Crops!TypeOK`, and what their modules assume of the
constants is then a hypothesis of the theorem: `CropConstants`, `SubscriberConstants`,
`TableConstants`, `Periods`). `RuleActivation_proofs` has what the process keeps in SQLite and beside it,
`MQTTPublisher_proofs` both broker clients, `Phase2Pipeline_proofs` the pipeline and the
summaries of what it has logged.

| Theorem | States | By |
| --- | --- | --- |
| `RuleActivation_proofs!TypeCorrect` | `TypeOK` | one case per action |
| `RuleActivation_proofs!StalenessBounded` | `BoundedStaleness` | the invariant dates every cache entry and every reader's ruleset: each was the store's answer at its date or later; `retired` grows only to the present |
| `RuleActivation_proofs!RulesetUnique` | `OneCommittedRuleset` | relates `rows` to `committed` and to the saver's place: outside of a save of camera c the two agree on c or c is spoiled |
| `RuleActivation_proofs!CropTypes`, `CropKept`, `RetentionEnforced` | `TypeOK`, `CropReadable` and `NothingOutlivesPurge` of `FrameCropStore` | a file that is not orphaned has a row as old as its last store, committed unless the call is still at work; a purge that ends has removed the files of all rows it deletes |
| `RuleActivation_proofs!EmbeddingsAgree` | `EmbeddingKept` of `Retention` | inductive as it stands: rows arrive with their embeddings, and orphans are computed from the rows; uses that the gate's events are not the pipeline's |
| `RuleActivation_proofs!EventsCountedOnce`, `TablesTypeCorrect` | `CountedOnce` and `TypeOK` of `Retention` | `InStep` says, for each statement of a cycle, what the summary of an undisturbed day tells: its rows that are gone, or these and its old rows between upsert and purge. It also says when file and connection agree on the day, which a crash needs. The events need not be finitely many: those that have a timestamp are |
| `RuleMatching_proofs!TypeCorrect`, `GateDecides`, `HistoryCovers` | `TypeOK`, `GateExact`, `HistoryCoversGate` | loop invariants: what the loops have looked at so far |
| `RuleMatching_proofs!WindowsExact` | `WindowExact`, for times that are minutes of the day (`MinutesOfDay`) | remainders within a day of the day |
| `RuleMatching_proofs!ZonesExact` | `ZoneExact`, for polygons and boxes on whole coordinates (`WholeCoordinates`) | both sides are parities: an edge taken twice crosses the ray an even number of times, so a polygon's crossings are those of its fan's triangles, one by one; and a triangle's three crossings are odd exactly when its corners turn the same way round the point |
| `AlertSystem_proofs!TypeCorrect`, `WindowKept`, `SuppressionJustified` | `TypeOK`, `NoDuplicate`, `SuppressedIsDuplicate` | a call that met no other of its key began when the key was out of cooldown, and nobody has recorded or delivered the key since; `SuppressionJustified` assumes a channel that never refuses |
| `AlertSystem_proofs!ReviewImplements` | `ReviewSpec => Spec`: all of the above holds with operators' requests | each step of a handler is a step of `send_alert` or none |
| `AlertSystem_proofs!EscalationsHeard` | `EscalatedHeard` | an escalated alert is being sent with its own key, or its key has been recorded, and recorded it stays; assumes a channel that never refuses |
| `AlertSystem_proofs!WindowKeptUnsuspended` | every two deliveries are a cooldown apart, when no channel suspends | corollary: no calls overlap |
| `MQTTPublisher_proofs!TypeCorrect`, `SingleReconnector` | `TypeOK`, `OneReconnector` | a thread is at work only while `_reconnecting` is set, and then it is the only one |
| `MQTTPublisher_proofs!StoredNotLost`, `QueueImplemented` | `NothingLost` (a message stored with QoS 1 is in the outbox or was received), `ImplementsQueue` | a row about to be deleted has been received; a row waited for is in flight with its waiter or received |
| `MQTTPublisher_proofs!FirstInFirstOut` | `InOrder`, if no link breaks within `connect()` (`EarlyOutage = FALSE`) | a drain sends the oldest row left, all rows before it have been received, and what is in flight from earlier drains comes before it |
| `MQTTPublisher_proofs!SubscriptionsRestored`, `SubscriberTypes` | `Restored` and `TypeOK` of `MQTTSubscriber` | a connection carries the recorded topics but for those a `subscribe()` has yet to send or the thread's loop has yet to do; a topic recorded after that loop began makes it raise, which the property excepts |
| `Watchdog_proofs!TypeCorrect`, `OperatorKnows`, `OfflineOnlyAfterSilence` | `TypeOK`, `OperatorInformed`, `NoFalseOffline` | relates the handler's `was`, the sweep's place, the notices under way and `told`: a status the operator has not been told of has its notice scheduled, or a step at work that will (`Informed`), and that notice is not suppressed (`Unsuppressed`), as those recorded before are older than the last heartbeat or younger by no more than the threshold exceeds the cooldown (`HeardSince`); a heartbeat that arrived is in the inbox, in the handler or in `lastHb` (`Heard`), and a stamp the sweep found old is old still or of this moment (`SameInstant`) |
| `Phase2Pipeline_proofs!TypeCorrect`, `NoEventDropped` | `TypeOK`, `Accounted` | what a coroutine has decided and done so far agrees with its place |
| `Phase2Pipeline_proofs!AlertsOrdered` | `AlertsInOrder`, with a backend that holds the loop (`Suspends = FALSE`: those of the repository do) | the coroutines due are in the order of their events and behind all that have alerted |
| `Phase2Pipeline_proofs!CountedInOneSummary`, `SleepCovered`, `SummaryTypes` | `ReportedOnce`, `SleepReported` and `TypeOK` of `EventSummarizer` | an event a loop has counted is older than what is left of the loop's sleep lets it look back |
| `CameraPipeline_proofs!TypeCorrect`, `EventForEachTrack` | `TypeOK`, `AnnouncedOnce` | the numbers made so far are published, due and lost ones, without overlap; a poll numbers on from the last, once for each detection left over |
| `CameraPipeline_proofs!PollingMakesNone` | `SameFrameQuiet` | after a poll each detection of the frame has a track of its own with its very box (`Remembered`). In the next poll of it a pair with the same box is passed over only for another such pair, so a detection left over would leave more tracks than detections of that box matched among fewer |
| `CameraPipeline_proofs!StillKept` | `StillKeepsTrack` | the same lemma on greedy matching: only two equal boxes overlap entirely |
| `CameraPipeline_proofs!StopReleases` | `StoppedClean` | a stopping feeder's flag is down, and the thread has ended when the capture is released unless `stop()` gave up |
| `PromptRequests_proofs!TypeCorrect`, `OneActivationPrevails` | `TypeOK`, `OnePrevails` | a save holds the loop, so the versions of one activation are consecutive, and a camera's latest is as late as the last request that saved it |
| `PromptRequests_proofs!RepliesTrue`, `RulesFaithful` | `RepliesTell`, `RulesAsAnswered` | what a request has stored agrees with its place, and a camera's active version is its newest or none, none only after a save for it raised (`LostByRaise`); every version came from one answer, and parsing and JSON change no field the property speaks of |

Why the strengthenings are needed: hardly any of the properties is inductive. A row of
the outbox is deleted long after the PUBACK that justifies it, with outages and other messages
in between; a notice is sent long after the change of status it tells; a track found in one
frame is compared with the next ones after any number of reads.

What a recursive definition computes is proved by induction on a number in the form the
provers have it: the set of naturals for which the claim holds has 0 and is closed under
successor, so it is all of them, by a minimal element of the rest (lemma `Induction`, from
`WFMin` of the library). It first shows that the recursion has a value at all (`KeptExists`,
`GreedyExists`). `Tracker` therefore filters lists by `Select`, a recursive function of its own: of the
library's `SelectSeq` a proof knows nothing.

The sum of the confidences of a set of rows (`Total`, by the community modules' fold) takes its
elements in the order of `CHOOSE`. That it is a number, that any element may be taken away, and
that disjoint sets add up, is proved by induction on the size of the set (`SizeInduction`,
`TotalWithout`, `TotalOfUnion`); `MergeTells` is then the arithmetic of the weighted average.
Days come from `\div` by a length that is any positive number, of which the provers know no
more than quotient and remainder (`Calendar`).

Only model-checked: liveness (`OutageHeals`, `OutageDrained`, `SilenceNoticed`, `ShutdownEnds`,
`EventDecided`, `FeedRecovers`, `OldRowsGo`, `ExpiredGo`, `SummariesGoOn`), which rests on fairness and is
beyond the prover.

## 5. What is not modelled

* The video ring buffer and the rates in the feeder's health; rows of heartbeats, and the
  insertion of alerts, which no code does: `AlertReview` takes rows that are there.
* Tenants in the rule store, pruning and history of versions: `main.py` passes no tenant.
* Agent tools other than the alert and the log: they only add to an alert, and their
  failures are absorbed.
* A2A hub, MCP server, heartbeat publisher, snippet assembler: one-step
  operations or stateless loops.
* The APIs' reads, JSON and HTML; the register of push devices, which no channel reads;
  detection models; configuration parsing: no concurrent state.
* Encryption of crops and signatures of URLs: taken to work.
* Backoff delays, log messages, payload formats.

### Where the code differs from what it says

Besides the exceptions in the properties above:

* `subscribe` keeps one callback per topic (`mqtt_client.py:726`), and the pipeline's replaces
  the database's (`main.py:526` and 633), though `timeseries_db.py:4-5` says that every event is
  stored "independently of the agent pipeline": an alerted event gets no row, and
  the next retention cycle takes its embedding for an orphan.
* A topic subscribed while a message is in its callback ends paho's network thread
  (`mqtt_client.py:481`, see the run subscriber).
* An outage may be attended to by nobody (see the run publisher), and `disconnect()` makes
  paho call `_on_disconnect`, which starts a reconnect thread.
* The publisher is built without its outbox (`main.py:350`) and nothing calls `enqueue`, so that
  the guarantees of `MQTTPublisher` hold for the class and not yet for the program. Messages
  published directly may overtake the outbox.
* At shutdown databases are closed before the coroutines left on the loop are cancelled
  (`main.py:884`): passed events vanish.
* `insert_alert` has no caller, so an operator has no alert to escalate and a summary none to
  count.
* A heartbeat handled between the sweep's reading of its stamp and the marking
  (`watchdog.py:283` to 285) is overridden: the camera is marked offline, although a test says the watchdog
  "never reports ``offline`` if heartbeat received within 60s"
  (`test_property_watchdog_state.py:7-9`). If it was being restored at that moment the operator may be told of
  the restoration last, and if it then stays silent nobody is told: its status is offline already.
* An activation or a rollback answered with an error may have left its camera without rules,
  or with the new ones: a save that raises is not rolled back on the shared connection
  (`rule_store.py:311-319`).
* An escalation within the cooldown of its original is suppressed and answered "escalated".
* An activation compiles the prompt once more: what was shown need not be what is
  activated, though `dashboard.py:485` has "compiled ruleset data from the compile
  endpoint". A `suppress_if` without
  content is kept and suppresses every event its rule matches; an `object_type` that is a list becomes a
  text that matches nothing; times and points of the wrong form are accepted and make
  `evaluate` raise.
* What happens while a summary is made and delivered is in no summary; a summary that was not
  delivered is lost; only the first camera's tenant is summarised.
* Tracks age with each poll and not with each frame, so that the "30-frame occlusion
  tolerance" of the repository's README is one of 30 polls. A box rounded to width 0 (`runtimes.py:75`)
  is a new track in every poll.
* A source that cannot be opened at the start is not tried again (`video_feeder.py:188`), and one whose
  reads fail while it counts as open is never reopened.

## 6. Plan

1. Done: rules (`RuleActivation`, `RuleMatching`, `PromptRequests`), alerts (`AlertSystem`,
   `AlertReview`), broker clients (`MQTTPublisher`, `AtLeastOnce`, `MQTTSubscriber`), `Watchdog`,
   `Phase2Pipeline`, `Tracker`, `CameraPipeline`, `Retention`, `FrameCropStore`, `EventSummarizer`,
   with the proofs above.
2. A composition of `CameraPipeline` with the publisher's direct path, for what an outage
   does to an announced track.
3. Insertion of alerts, once the program does it; agent tools with their mailboxes.
