----------------------------- MODULE Retention -----------------------------
(***************************************************************************)
(* retention_scheduler.py RetentionScheduler with the tables of             *)
(* timeseries_db.py it works on and the embeddings of vector_db.py.         *)
(*                                                                          *)
(* A cycle runs on the event loop without giving it up, one SQL statement   *)
(* after another.  The network thread shares the connection: the gate's     *)
(* _log_suppressed inserts and commits between any two of them.  Statements *)
(* fail (a full disk, the rule store's lock on the file), nothing is rolled *)
(* back, and the process may die.  One camera, tenant, site and object      *)
(* type: a group is a day.  Alerts have no rows (insert_alert has no        *)
(* caller); heartbeats' rows, which nothing inserts either, are left out.   *)
(***************************************************************************)
EXTENDS Integers, FiniteSets, FiniteSetsExt

CONSTANTS
  Suppressed,  \* events the gate logs on the network thread
  Passed,      \* events the pipeline embeds, and logs or alerts, on the event loop;
               \* one without an embedding is to retention like a suppressed one
  Confidence,  \* of an event
  DayLength,   \* ticks of a day
  RawAge,      \* raw_events_days, in ticks
  DailyAge,    \* aggregated_events_days, in ticks
  MaxDelay,    \* how late an event may reach its table
  MaxTime,     \* bound on the clock
  MaxFaults    \* bound on failed statements and crashes

Events == Suppressed \cup Passed

ASSUME RetentionAssumption ==
  /\ Suppressed \cap Passed = {}
  /\ Confidence \in [Events -> Nat]
  /\ DayLength \in Nat \ {0}
  /\ RawAge \in Nat
  /\ DailyAge \in Nat
  /\ MaxDelay \in 0..RawAge
  /\ MaxTime \in Nat
  /\ MaxFaults \in Nat

VARIABLES
  now,
  at,          \* history: the timestamp of each event inserted
  raw,         \* events: the rows as the shared connection sees them
  daily,       \* aggregated_events: the row of each day, as the connection sees it
  savedRaw,    \* the same two tables as the file has them
  savedDaily,
  embeddings,  \* the ids in the vector store
  inserting,   \* whether the network thread is between INSERT and commit
  pc,          \* the next statement of the cycle
  cutoff,      \* of the cycle at work
  groups,      \* days fetched and not yet upserted, with count and average
  faults,
  spoiled,     \* history: days with rows at stake in a cycle that was disturbed
  revived      \* history: rows whose deletion a crash has undone

file == <<savedRaw, savedDaily>>
history == <<at, spoiled, revived>>
vars == <<now, at, raw, daily, savedRaw, savedDaily, embeddings, inserting, pc,
          cutoff, groups, faults, spoiled, revived>>

NoTime == -1
Times == 0..MaxTime
Day(t) == t \div DayLength
Days == 0..Day(MaxTime)

NoRow == [count |-> 0, sum |-> 0, den |-> 1]

\* A row's or group's average is sum / den.
Summary == [count : Nat, sum : Nat, den : Nat \ {0}]

TypeOK ==
  /\ now \in Times
  /\ at \in [Events -> Times \cup {NoTime}]
  /\ raw \subseteq {e \in Events : at[e] # NoTime}
  /\ savedRaw \subseteq {e \in Events : at[e] # NoTime}
  /\ daily \in [Days -> Summary]
  /\ savedDaily \in [Days -> Summary]
  /\ embeddings \subseteq Passed
  /\ inserting \in BOOLEAN
  /\ pc \in {"idle", "upsert", "purge", "commitPurge", "drop", "commitDrop", "orphans"}
  /\ cutoff \in -RawAge..MaxTime
  /\ groups \subseteq Days \X Summary
  /\ groups # {} => pc = "upsert"
  /\ faults \in Nat
  /\ spoiled \subseteq Days
  /\ revived \subseteq Events

Init ==
  /\ now = 0
  /\ at = [e \in Events |-> NoTime]
  /\ raw = {}
  /\ daily = [d \in Days |-> NoRow]
  /\ savedRaw = {}
  /\ savedDaily = daily
  /\ embeddings = {}
  /\ inserting = FALSE
  /\ pc = "idle"
  /\ cutoff = -RawAge
  /\ groups = {}
  /\ faults = 0
  /\ spoiled = {}
  /\ revived = {}

\* A cycle takes less than a tick.
Tick ==
  /\ pc = "idle"
  /\ now < MaxTime
  /\ now' = now + 1
  /\ UNCHANGED <<history, raw, daily, file, embeddings, inserting, pc, cutoff, groups, faults>>

-----------------------------------------------------------------------------
(* The other users of the stores *)

InsertRow(e) ==
  /\ at[e] = NoTime
  /\ \E delay \in 0..MaxDelay :
       /\ delay <= now
       /\ at' = [at EXCEPT ![e] = now - delay]
  /\ raw' = raw \cup {e}

\* insert_event on the network thread ...
Insert(e) ==
  /\ ~inserting
  /\ InsertRow(e)
  /\ inserting' = TRUE
  /\ UNCHANGED <<now, daily, file, embeddings, pc, cutoff, groups, faults, spoiled, revived>>

\* ... whose commit takes along what the cycle has not committed yet ...
CommitInsert ==
  /\ inserting
  /\ inserting' = FALSE
  /\ savedRaw' = raw
  /\ savedDaily' = daily
  /\ UNCHANGED <<now, history, raw, daily, embeddings, pc, cutoff, groups, faults>>

\* ... or which fails there: the row stays in the open transaction.
CommitInsertFails ==
  /\ inserting
  /\ inserting' = FALSE
  /\ faults < MaxFaults
  /\ faults' = faults + 1
  /\ UNCHANGED <<now, history, raw, daily, file, embeddings, pc, cutoff, groups>>

\* The pipeline on the event loop, which it does not give up in between:
\* store_embedding and LogTool's insert_event, whose commit may fail.
EmbedAndLog(e) ==
  /\ pc = "idle"
  /\ InsertRow(e)
  /\ embeddings' = embeddings \cup {e}
  /\ \/ /\ savedRaw' = raw'
        /\ savedDaily' = daily
        /\ UNCHANGED faults
     \/ /\ faults < MaxFaults
        /\ faults' = faults + 1
        /\ UNCHANGED file
  /\ UNCHANGED <<now, daily, inserting, pc, cutoff, groups, spoiled, revived>>

\* An event that is alerted, or whose INSERT fails, is embedded and has no row.
Embed(e) ==
  /\ pc = "idle"
  /\ at[e] = NoTime
  /\ embeddings' = embeddings \cup {e}
  /\ UNCHANGED <<now, history, raw, daily, file, inserting, pc, cutoff, groups, faults>>

-----------------------------------------------------------------------------
(* run_retention and the statements it runs, on the event loop *)

Expired(rows, time) == {e \in rows : at[e] < time}

\* COUNT(*) and AVG(confidence)
Total(rows) == MapThenSumSet(LAMBDA e : Confidence[e], rows)

Group(rows) == [count |-> Cardinality(rows), sum |-> Total(rows), den |-> Cardinality(rows)]

\* SELECT DATE(timestamp), ... GROUP BY ...
GroupsOf(rows) ==
  {<<d, Group({e \in rows : Day(at[e]) = d})>> : d \in {Day(at[e]) : e \in rows}}

BeginCycle ==
  /\ pc = "idle"
  /\ cutoff' = now - RawAge
  /\ groups' = GroupsOf(Expired(raw, cutoff'))
  /\ pc' = "upsert"
  /\ UNCHANGED <<now, history, raw, daily, file, embeddings, inserting, faults>>

\* Mutant of Merge: the averages are averaged.
MergeUnweighted(row, new) ==
  IF row.count = 0
  THEN new
  ELSE [count |-> row.count + new.count,
        sum |-> row.sum * new.den + new.sum * row.den,
        den |-> row.den * new.den * 2]

\* INSERT, or ON CONFLICT the weighted average.
Merge(row, new) ==
  IF row.count = 0
  THEN new
  ELSE [count |-> row.count + new.count,
        sum |-> row.sum * row.count * new.den + new.sum * new.count * row.den,
        den |-> row.den * new.den * (row.count + new.count)]

Upsert ==
  /\ pc = "upsert"
  /\ \E g \in groups :
       /\ \A h \in groups : g[1] <= h[1]
       /\ daily' = [daily EXCEPT ![g[1]] = Merge(@, g[2])]
       /\ groups' = groups \ {g}
  /\ UNCHANGED <<now, history, raw, file, embeddings, inserting, pc, cutoff, faults>>

Commit ==
  /\ savedRaw' = raw
  /\ savedDaily' = daily

\* The commit of aggregate_events.
CommitUpserts ==
  /\ pc = "upsert"
  /\ groups = {}
  /\ Commit
  /\ pc' = "purge"
  /\ UNCHANGED <<now, history, raw, daily, embeddings, inserting, cutoff, groups, faults>>

\* purge_raw_events
Purge ==
  /\ pc = "purge"
  /\ raw' = raw \ Expired(raw, cutoff)
  /\ pc' = "commitPurge"
  /\ UNCHANGED <<now, history, daily, file, embeddings, inserting, cutoff, groups, faults>>

CommitPurge ==
  /\ pc = "commitPurge"
  /\ Commit
  /\ pc' = "drop"
  /\ UNCHANGED <<now, history, raw, daily, embeddings, inserting, cutoff, groups, faults>>

\* purge_aggregated_events, of days before that of the cutoff; the cycle has
\* one clock for both cutoffs.
Outdated(d) == d < Day(cutoff + RawAge - DailyAge)

Drop ==
  /\ pc = "drop"
  /\ daily' = [d \in Days |-> IF Outdated(d) THEN NoRow ELSE daily[d]]
  /\ pc' = "commitDrop"
  /\ UNCHANGED <<now, history, raw, file, embeddings, inserting, cutoff, groups, faults>>

CommitDrop ==
  /\ pc = "commitDrop"
  /\ Commit
  /\ pc' = "orphans"
  /\ UNCHANGED <<now, history, raw, daily, embeddings, inserting, cutoff, groups, faults>>

\* Mutant of PurgeOrphans: by age, not by what get_all_event_ids found.
PurgeAged ==
  /\ pc = "orphans"
  /\ embeddings' = embeddings \cap (raw \ Expired(raw, cutoff))
  /\ pc' = "idle"
  /\ UNCHANGED <<now, history, raw, daily, file, inserting, cutoff, groups, faults>>

\* get_all_event_ids and purge_orphaned_embeddings
PurgeOrphans ==
  /\ pc = "orphans"
  /\ embeddings' = embeddings \cap raw
  /\ pc' = "idle"
  /\ UNCHANGED <<now, history, raw, daily, file, inserting, cutoff, groups, faults>>

AtStake == {Day(at[e]) : e \in Expired(raw \cup savedRaw, cutoff)}

\* Where run_retention goes on after an exception.
AfterFailure ==
  [p \in {"upsert", "purge", "commitPurge", "drop", "commitDrop", "orphans"} |->
     CASE p = "upsert" -> "purge"
       [] p \in {"purge", "commitPurge"} -> "drop"
       [] p \in {"drop", "commitDrop"} -> "orphans"
       [] p = "orphans" -> "idle"]

\* Mutant of StatementFails: the exception leaves the cycle, which ends the loop.
StatementFailsForGood ==
  /\ pc # "idle"
  /\ faults' = MaxFaults
  /\ pc' = "dead"
  /\ groups' = {}
  /\ spoiled' = spoiled \cup AtStake
  /\ UNCHANGED <<now, at, revived, raw, daily, file, embeddings, inserting, cutoff>>

\* A statement or a commit raises: its step is given up, and what the transaction
\* holds stays in it.
StatementFails ==
  /\ pc # "idle"
  /\ faults < MaxFaults
  /\ faults' = faults + 1
  /\ pc' = AfterFailure[pc]
  /\ groups' = {}
  /\ spoiled' = spoiled \cup AtStake
  /\ UNCHANGED <<now, at, revived, raw, daily, file, embeddings, inserting, cutoff>>

-----------------------------------------------------------------------------
\* The process dies and is started again: what was not committed is gone.
Restart ==
  /\ faults < MaxFaults
  /\ faults' = faults + 1
  /\ at' = [e \in Events |-> IF e \in raw \ savedRaw THEN NoTime ELSE at[e]]
  /\ raw' = savedRaw
  /\ daily' = savedDaily
  /\ inserting' = FALSE
  /\ pc' = "idle"
  /\ groups' = {}
  /\ spoiled' = spoiled \cup (IF pc = "idle" THEN {} ELSE AtStake)
  /\ revived' = revived \cup (savedRaw \ raw)
  /\ UNCHANGED <<now, file, embeddings, cutoff>>

Cycle ==
  \/ BeginCycle
  \/ Upsert
  \/ CommitUpserts
  \/ Purge
  \/ CommitPurge
  \/ Drop
  \/ CommitDrop
  \/ PurgeOrphans

Others ==
  \/ \E e \in Suppressed : Insert(e)
  \/ CommitInsert
  \/ CommitInsertFails
  \/ \E e \in Passed : EmbedAndLog(e)
  \/ \E e \in Passed : Embed(e)

Next == Tick \/ Cycle \/ Others \/ StatementFails \/ Restart

Spec == Init /\ [][Next]_vars

\* The scheduler goes on sleeping and waking.
FairSpec == Spec /\ WF_vars(Cycle)

-----------------------------------------------------------------------------
(* Properties *)

MadeOn(d) == {e \in Events : at[e] # NoTime /\ Day(at[e]) = d}

Counted(d) == MadeOn(d) \ raw

\* "Aggregate raw events older than raw_events_days into daily summaries" and
\* "Purge the aggregated raw events" (retention_scheduler.py:33-34): between two
\* cycles every event of a day is a row or counted once in the day's summary,
\* whose average is that of the events it counts, although a cutoff splits a day
\* and the gate inserts and commits in the middle.  Not so for a day with rows at
\* stake when a statement failed or the process died: after a failed aggregation
\* the purge deletes rows nobody counted, and a crash before the purge is
\* committed lets the next cycle count them again.
CountedOnce ==
  \A d \in Days \ spoiled :
    pc = "idle" /\ ~Outdated(d) =>
      /\ daily[d].count = Cardinality(Counted(d))
      /\ daily[d].sum * daily[d].count
           = daily[d].den * Total(Counted(d))

\* "When raw events are purged, their corresponding embeddings should also be
\* removed" (vector_db.py:136-138), and no others: a row keeps its embedding while
\* statements fail, commits of other steps come between and the process restarts.
\* Not so for a row that was deleted without a commit and that a crash brings
\* back: its embedding is gone.
EmbeddingKept == \A e \in raw \cap Passed : e \in embeddings \cup revived

\* Failures and crashes only delay the purge: in the end no row is too old.
OldRowsGo ==
  now = MaxTime ~> now = MaxTime /\ Expired(raw, now - RawAge) = {}
=============================================================================
