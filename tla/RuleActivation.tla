--------------------------- MODULE RuleActivation ---------------------------
(***************************************************************************)
(* The path of a monitoring rule from the operator to the Context Gate:    *)
(*                                                                         *)
(*   - rule_store.py: the rule_sets table (versioned rows, one active row  *)
(*     per camera) behind ONE sqlite connection that every thread shares;  *)
(*   - prompt_compiler.py confirm_and_activate and dashboard.py            *)
(*     rollback_rules: the event loop saves a version for each target      *)
(*     camera and drops that camera's cache entry;                         *)
(*   - context_filter.py _get_ruleset: the TTL cache the gate reads from   *)
(*     the MQTT network thread, filled from the store outside its lock.    *)
(*                                                                         *)
(* The writer runs on the event loop without awaiting, so there is one     *)
(* writer; each SQL statement is a step of its own because a reader on     *)
(* another thread uses the same connection and sees uncommitted changes.   *)
(* A ruleset is its version: what its rules say is module RuleMatching's.  *)
(***************************************************************************)
EXTENDS Integers

CONSTANTS
  Cameras,    \* camera ids
  Versions,   \* version ids ("rs-" + uuid4): never reused
  NoRules,    \* Python's None where a ruleset is expected
  NoCamera,   \* the camera of a version not inserted yet
  Readers,    \* threads that call ContextFilter.evaluate
  TTL,        \* ContextFilter._cache_ttl, in ticks of the monotonic clock
  MaxClock,   \* bound on the clock
  DiskFaults  \* whether a SQL statement of save_ruleset may raise

ASSUME CacheAssumption ==
  /\ NoRules \notin Versions
  /\ NoCamera \notin Cameras
  /\ TTL \in Nat \ {0}
  /\ MaxClock \in Nat
  /\ DiskFaults \in BOOLEAN

VARIABLES
  clock,      \* time.monotonic()
  rows,       \* rule_sets as the shared connection sees it
  committed,  \* rule_sets as the file holds it
  saver,      \* save_ruleset in progress on the event loop
  cache,      \* ContextFilter._cache (NoRules: no key)
  cacheTs,    \* ContextFilter._cache_timestamps (NoTs: no key)
  reader,     \* evaluate in progress on each reader thread
  retired,    \* history: when a ruleset last stopped being a camera's answer
  spoiled     \* history: cameras whose save raised between UPDATE and INSERT

storeVars == <<rows, committed>>
cacheVars == <<cache, cacheTs>>
vars == <<clock, rows, committed, saver, cache, cacheTs, reader, retired, spoiled>>

-----------------------------------------------------------------------------
(* State *)

Ruleset == Versions \cup {NoRules}
Row == [camera : Cameras \cup {NoCamera}, active : BOOLEAN]
Table == [Versions -> Row]
NoTs == -1

SaverIdle == [pc |-> "idle", targets |-> {}, camera |-> NoCamera, version |-> NoRules]
ReaderIdle == [pc |-> "idle", camera |-> NoCamera, now |-> 0, ruleset |-> NoRules]

TypeOK ==
  /\ clock \in Nat
  /\ rows \in Table
  /\ committed \in Table
  /\ saver \in [pc : {"idle", "next", "insert", "commit", "reload"},
                targets : SUBSET Cameras,
                camera : Cameras \cup {NoCamera},
                version : Ruleset]
  /\ cache \in [Cameras -> Ruleset]
  /\ cacheTs \in [Cameras -> Nat \cup {NoTs}]
  /\ reader \in [Readers -> [pc : {"idle", "check", "load", "fill", "use"},
                             camera : Cameras \cup {NoCamera},
                             now : Nat,
                             ruleset : Ruleset]]
  /\ retired \in [Cameras -> [Ruleset -> Int]]
  /\ spoiled \subseteq Cameras

\* SELECT ... WHERE camera_id = ? AND is_active = 1
Active(table, c) == {v \in Versions : table[v].camera = c /\ table[v].active}

\* get_active_ruleset: LIMIT 1 of the active rows, None when there is none.
Answers(table, c) == IF Active(table, c) = {} THEN {NoRules} ELSE Active(table, c)

\* A camera that has versions has exactly one active version.
OneActive(table, c) ==
  (\E v \in Versions : table[v].camera = c) => \E v \in Versions : Active(table, c) = {v}

\* UPDATE rule_sets SET is_active = 0 WHERE camera_id = ?
Deactivated(table, c) ==
  [v \in Versions |-> [table[v] EXCEPT !.active = @ /\ table[v].camera # c]]

\* INSERT INTO rule_sets ... VALUES (..., 1)
Inserted(table, v, c) == [table EXCEPT ![v] = [camera |-> c, active |-> TRUE]]

\* The history variable follows the table: an answer that is one no more was
\* retired now.
TrackRetired(newRows) ==
  retired' = [c \in Cameras |-> [v \in Ruleset |->
                IF v \in Answers(rows, c) /\ v \notin Answers(newRows, c)
                THEN clock ELSE retired[c][v]]]

\* v is the answer for camera c, or was at time t or later.
AnswerSince(c, v, t) == v \in Answers(rows, c) \/ retired[c][v] >= t

Init ==
  /\ clock = 0
  /\ rows = [v \in Versions |-> [camera |-> NoCamera, active |-> FALSE]]
  /\ committed = rows
  /\ saver = SaverIdle
  /\ cache = [c \in Cameras |-> NoRules]
  /\ cacheTs = [c \in Cameras |-> NoTs]
  /\ reader = [r \in Readers |-> ReaderIdle]
  /\ retired = [c \in Cameras |-> [v \in Ruleset |-> -TTL]]
  /\ spoiled = {}

Tick ==
  /\ clock < MaxClock
  /\ clock' = clock + 1
  /\ UNCHANGED <<rows, committed, saver, cache, cacheTs, reader, retired, spoiled>>

-----------------------------------------------------------------------------
(* The event loop: activation and rollback *)

\* confirm_and_activate is entered with the cameras of the prompt's scope.
Activate(targets) ==
  /\ saver.pc = "idle"
  /\ saver' = [SaverIdle EXCEPT !.pc = "next", !.targets = targets]
  /\ UNCHANGED <<clock, storeVars, cacheVars, reader, retired, spoiled>>

\* rollback_rules: the target version must exist and belong to the camera; a
\* copy of it is saved as a new version.
Rollback(c, v) ==
  /\ saver.pc = "idle"
  /\ rows[v].camera = c
  /\ saver' = [SaverIdle EXCEPT !.pc = "next", !.targets = {c}]
  /\ UNCHANGED <<clock, storeVars, cacheVars, reader, retired, spoiled>>

\* Mutant of DeactivateOld: the UPDATE is committed on its own.
DeactivateOldAutocommit(c, v) ==
  /\ saver.pc = "next"
  /\ c \in saver.targets
  /\ rows[v].camera = NoCamera
  /\ rows' = Deactivated(rows, c)
  /\ committed' = rows'
  /\ TrackRetired(rows')
  /\ saver' = [pc |-> "insert", targets |-> saver.targets \ {c}, camera |-> c, version |-> v]
  /\ UNCHANGED <<clock, cacheVars, reader, spoiled>>

\* save_ruleset's UPDATE for the next target, under a fresh version id.
DeactivateOld(c, v) ==
  /\ saver.pc = "next"
  /\ c \in saver.targets
  /\ rows[v].camera = NoCamera
  /\ rows' = Deactivated(rows, c)
  /\ TrackRetired(rows')
  /\ saver' = [pc |-> "insert", targets |-> saver.targets \ {c}, camera |-> c, version |-> v]
  /\ UNCHANGED <<clock, committed, cacheVars, reader, spoiled>>

\* save_ruleset's INSERT.
InsertNew ==
  /\ saver.pc = "insert"
  /\ rows' = Inserted(rows, saver.version, saver.camera)
  /\ TrackRetired(rows')
  /\ saver' = [saver EXCEPT !.pc = "commit"]
  /\ UNCHANGED <<clock, committed, cacheVars, reader, spoiled>>

\* save_ruleset's commit.
Commit ==
  /\ saver.pc = "commit"
  /\ committed' = rows
  /\ saver' = [saver EXCEPT !.pc = "reload"]
  /\ spoiled' = spoiled \ {saver.camera}
  /\ UNCHANGED <<clock, rows, cacheVars, reader, retired>>

\* reload_rules for the camera just saved, then the next target.
Reload ==
  /\ saver.pc = "reload"
  /\ cache' = [cache EXCEPT ![saver.camera] = NoRules]
  /\ cacheTs' = [cacheTs EXCEPT ![saver.camera] = NoTs]
  /\ saver' = IF saver.targets = {} THEN SaverIdle
              ELSE [SaverIdle EXCEPT !.pc = "next", !.targets = saver.targets]
  /\ UNCHANGED <<clock, storeVars, reader, retired, spoiled>>

\* A statement raises: the exception leaves the handler, the remaining targets
\* are not saved, nothing is rolled back on the connection and no cache entry
\* is dropped.
SaveRaises ==
  /\ DiskFaults
  /\ saver.pc \in {"next", "insert", "commit"}
  /\ saver' = SaverIdle
  /\ spoiled' = IF saver.pc = "insert" THEN spoiled \cup {saver.camera} ELSE spoiled
  /\ UNCHANGED <<clock, storeVars, cacheVars, reader, retired>>

-----------------------------------------------------------------------------
(* A reader thread: evaluate -> _get_ruleset *)

\* now = time.monotonic(), before the lock is taken.
BeginEvaluate(r, c) ==
  /\ reader[r].pc = "idle"
  /\ reader' = [reader EXCEPT ![r] = [pc |-> "check", camera |-> c, now |-> clock,
                                      ruleset |-> NoRules]]
  /\ UNCHANGED <<clock, storeVars, saver, cacheVars, retired, spoiled>>

CacheFresh(c, now) == cacheTs[c] # NoTs /\ now - cacheTs[c] < TTL

\* Under the lock, the entry is fresh: the cached ruleset is used.
CacheHit(r) ==
  LET c == reader[r].camera
  IN /\ reader[r].pc = "check"
     /\ CacheFresh(c, reader[r].now)
     /\ reader' = [reader EXCEPT ![r] = [@ EXCEPT !.pc = "use", !.ruleset = cache[c]]]
     /\ UNCHANGED <<clock, storeVars, saver, cacheVars, retired, spoiled>>

\* Under the lock, the entry is absent or expired.
CacheMiss(r) ==
  /\ reader[r].pc = "check"
  /\ ~CacheFresh(reader[r].camera, reader[r].now)
  /\ reader' = [reader EXCEPT ![r].pc = "load"]
  /\ UNCHANGED <<clock, storeVars, saver, cacheVars, retired, spoiled>>

\* The store is read with the lock released, on the shared connection.
LoadFromStore(r) ==
  /\ reader[r].pc = "load"
  /\ \E v \in Answers(rows, reader[r].camera) :
       reader' = [reader EXCEPT ![r] = [pc |-> "fill", camera |-> @.camera,
                                         now |-> @.now, ruleset |-> v]]
  /\ UNCHANGED <<clock, storeVars, saver, cacheVars, retired, spoiled>>

\* Mutant of FillCache: the entry is dated when it is written.
FillCacheDatedAtWrite(r) ==
  LET c == reader[r].camera
  IN /\ reader[r].pc = "fill"
     /\ cache' = [cache EXCEPT ![c] = reader[r].ruleset]
     /\ cacheTs' = [cacheTs EXCEPT ![c] = clock]
     /\ reader' = [reader EXCEPT ![r].pc = "use"]
     /\ UNCHANGED <<clock, storeVars, saver, retired, spoiled>>

\* Under the lock again: what was read is cached, dated with the clock value
\* taken before the read.
FillCache(r) ==
  LET c == reader[r].camera
  IN /\ reader[r].pc = "fill"
     /\ cache' = [cache EXCEPT ![c] = reader[r].ruleset]
     /\ cacheTs' = [cacheTs EXCEPT ![c] = reader[r].now]
     /\ reader' = [reader EXCEPT ![r].pc = "use"]
     /\ UNCHANGED <<clock, storeVars, saver, retired, spoiled>>

\* evaluate applies the ruleset and returns.
FinishEvaluate(r) ==
  /\ reader[r].pc = "use"
  /\ reader' = [reader EXCEPT ![r] = ReaderIdle]
  /\ UNCHANGED <<clock, storeVars, saver, cacheVars, retired, spoiled>>

-----------------------------------------------------------------------------
\* The process dies and is started again: the file is what it last committed.
Restart ==
  /\ rows' = committed
  /\ TrackRetired(rows')
  /\ saver' = SaverIdle
  /\ cache' = [c \in Cameras |-> NoRules]
  /\ cacheTs' = [c \in Cameras |-> NoTs]
  /\ reader' = [r \in Readers |-> ReaderIdle]
  /\ UNCHANGED <<clock, committed, spoiled>>

SaverStep ==
  \/ \E targets \in SUBSET Cameras \ {{}} : Activate(targets)
  \/ \E c \in Cameras, v \in Versions : Rollback(c, v)
  \/ \E c \in Cameras, v \in Versions : DeactivateOld(c, v)
  \/ InsertNew
  \/ Commit
  \/ Reload
  \/ SaveRaises

ReaderStep(r) ==
  \/ \E c \in Cameras : BeginEvaluate(r, c)
  \/ CacheHit(r)
  \/ CacheMiss(r)
  \/ LoadFromStore(r)
  \/ FillCache(r)
  \/ FinishEvaluate(r)

Next ==
  \/ Tick
  \/ SaverStep
  \/ \E r \in Readers : ReaderStep(r)
  \/ Restart

Spec == Init /\ [][Next]_vars

-----------------------------------------------------------------------------
(* Properties *)

\* "Hot-reload of rules within 5 seconds" (context_filter.py:14), for every
\* interleaving of the unlocked store read with activations and reloads: the
\* ruleset an evaluation applies was still the camera's answer less than TTL
\* before the evaluation took its clock, even when a fill that was overtaken by
\* a reload has put a superseded ruleset back into the cache.
BoundedStaleness ==
  \A r \in Readers : reader[r].pc = "use" =>
    AnswerSince(reader[r].camera, reader[r].ruleset, reader[r].now - TTL + 1)

\* "deactivates any previously active version for the camera and marks the new
\* version as active" (rule_store.py:287-288): whenever the process may die, the
\* file holds exactly one active version for a camera that was ever given rules.
\* The only exception is a camera whose own last save raised between its UPDATE
\* and its INSERT: nothing rolls that UPDATE back, and the next camera's commit
\* writes it. A fault in one camera's save never costs another its ruleset.
OneCommittedRuleset == \A c \in Cameras \ spoiled : OneActive(committed, c)
=============================================================================
