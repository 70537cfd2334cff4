----------------------- MODULE RuleActivation_proofs -----------------------
(***************************************************************************)
(* Proofs about what the process keeps in SQLite and beside it.            *)
(* RuleActivation: its type, the staleness bound of the ruleset cache for  *)
(* any number of cameras, versions and reader threads and any TTL, and the *)
(* one active row the file keeps for each camera.  FrameCropStore, for any *)
(* events, tenants, periods and faults: its type, that a crop is readable  *)
(* until its retention period ends, and that a purge leaves none that is   *)
(* older.  Retention, for any events, ages and faults: every row has its   *)
(* embedding, and a day's summary counts every event of it once, with the  *)
(* right average.                                                          *)
(***************************************************************************)
EXTENDS RuleActivation, FiniteSetTheorems, NaturalsInduction, TLAPS

-----------------------------------------------------------------------------
(* Type correctness *)

\* No row has version id None, so None is an answer of no table with active
\* rows; every answer is a ruleset.
LEMMA AnswersAreRulesets ==
  ASSUME NEW table, NEW c
  PROVE  Answers(table, c) \subseteq Ruleset
BY DEF Answers, Active, Ruleset

\* UPDATE and INSERT map tables to tables.
LEMMA TablesClosed ==
  ASSUME NEW table \in Table, NEW c \in Cameras, NEW v \in Versions
  PROVE  /\ Deactivated(table, c) \in Table
         /\ Inserted(table, v, c) \in Table
<1>1. Deactivated(table, c) \in Table
  BY DEF Deactivated, Table, Row
<1>2. Inserted(table, v, c) \in Table
  BY DEF Inserted, Table, Row
<1>3. QED BY <1>1, <1>2

\* The history variable stays a function to integers.
LEMMA TrackRetiredType ==
  ASSUME TypeOK, NEW newRows, TrackRetired(newRows)
  PROVE  retired' \in [Cameras -> [Ruleset -> Int]]
BY DEF TypeOK, TrackRetired

\* What InsertNew needs and TypeOK does not say: a save in progress has a
\* camera and a version.
SaverBusy ==
  saver.pc \in {"insert", "commit", "reload"} =>
    saver.camera \in Cameras /\ saver.version \in Versions

\* Likewise an evaluation in progress has a camera.
ReaderBusy == \A r \in Readers : reader[r].pc # "idle" => reader[r].camera \in Cameras

TypeInv == TypeOK /\ SaverBusy /\ ReaderBusy

LEMMA TypeInvInit == Init => TypeInv
BY CacheAssumption
   DEF Init, TypeInv, TypeOK, SaverBusy, ReaderBusy, Table, Row, Ruleset, NoTs, SaverIdle, ReaderIdle

\* An evaluation goes on: its camera stays.
LEMMA CacheAsked ==
  ASSUME TypeInv, NEW r \in Readers, CacheHit(r) \/ CacheMiss(r)
  PROVE  TypeInv'
<1> DEFINE Evaluation == [pc : {"idle", "check", "load", "fill", "use"},
                          camera : Cameras \cup {NoCamera}, now : Nat, ruleset : Ruleset]
<1>1. reader \in [Readers -> Evaluation] /\ cache \in [Cameras -> Ruleset]
  BY DEF TypeInv, TypeOK
<1>2. reader[r].camera \in Cameras
  BY DEF TypeInv, ReaderBusy, CacheHit, CacheMiss
<1>3. UNCHANGED <<clock, rows, committed, saver, cache, cacheTs, retired, spoiled>>
  BY DEF CacheHit, CacheMiss, storeVars, cacheVars
<1>4. /\ reader' \in [Readers -> Evaluation] /\ reader'[r].camera = reader[r].camera
      /\ \A q \in Readers : q # r => reader'[q] = reader[q]
  <2>1. reader[r] \in Evaluation /\ cache[reader[r].camera] \in Ruleset
    BY <1>1, <1>2
  <2>2. CASE CacheHit(r)
    <3> DEFINE e == [reader[r] EXCEPT !.pc = "use", !.ruleset = cache[reader[r].camera]]
    <3>1. reader' = [reader EXCEPT ![r] = e]
      BY <2>2 DEF CacheHit
    <3>2. e \in Evaluation /\ e.camera = reader[r].camera
      BY <2>1
    <3> HIDE DEF Evaluation, e
    <3>3. QED BY <1>1, <3>1, <3>2
  <2>3. CASE CacheMiss(r)
    <3> DEFINE e == [reader[r] EXCEPT !.pc = "load"]
    <3>1. reader' = [reader EXCEPT ![r] = e]
      BY <2>3 DEF CacheMiss
    <3>2. e \in Evaluation /\ e.camera = reader[r].camera
      BY <2>1
    <3> HIDE DEF Evaluation, e
    <3>3. QED BY <1>1, <3>1, <3>2
  <2>4. QED BY <2>2, <2>3
<1>5. TypeOK'
  BY <1>3, <1>4 DEF TypeInv, TypeOK
<1>6. SaverBusy' /\ ReaderBusy'
  BY <1>2, <1>3, <1>4 DEF TypeInv, SaverBusy, ReaderBusy
<1>7. QED BY <1>5, <1>6 DEF TypeInv

LEMMA TypeInvStep == TypeInv /\ [Next]_vars => TypeInv'
<1> SUFFICES ASSUME TypeInv, [Next]_vars PROVE TypeInv'
  OBVIOUS
<1> USE DEF TypeInv, TypeOK, SaverBusy, ReaderBusy, storeVars, cacheVars
<1>1. CASE Tick
  BY <1>1 DEF Tick
<1>2. ASSUME NEW targets \in SUBSET Cameras \ {{}}, Activate(targets) PROVE TypeInv'
  BY <1>2 DEF Activate, SaverIdle, Ruleset
<1>3. ASSUME NEW c \in Cameras, NEW v \in Versions, Rollback(c, v) PROVE TypeInv'
  BY <1>3 DEF Rollback, SaverIdle, Ruleset
<1>4. ASSUME NEW c \in Cameras, NEW v \in Versions, DeactivateOld(c, v) PROVE TypeInv'
  BY <1>4, TablesClosed, TrackRetiredType DEF DeactivateOld, Ruleset
<1>5. CASE InsertNew
  BY <1>5, TablesClosed, TrackRetiredType DEF InsertNew
<1>6. CASE Commit
  BY <1>6 DEF Commit
<1>7. CASE Reload
  BY <1>7 DEF Reload, SaverIdle, Ruleset, NoTs
<1>8. CASE SaveRaises
  BY <1>8 DEF SaveRaises, SaverIdle, Ruleset
<1>9. ASSUME NEW r \in Readers, NEW c \in Cameras, BeginEvaluate(r, c) PROVE TypeInv'
  BY <1>9 DEF BeginEvaluate, Ruleset
<1>10. ASSUME NEW r \in Readers, CacheHit(r) PROVE TypeInv'
  <2> HIDE DEF TypeInv
  <2> QED BY <1>10, CacheAsked
<1>11. ASSUME NEW r \in Readers, CacheMiss(r) PROVE TypeInv'
  <2> HIDE DEF TypeInv
  <2> QED BY <1>11, CacheAsked
<1>12. ASSUME NEW r \in Readers, LoadFromStore(r) PROVE TypeInv'
  <2>1. PICK v \in Answers(rows, reader[r].camera) :
          reader' = [reader EXCEPT ![r] = [pc |-> "fill", camera |-> reader[r].camera,
                                           now |-> reader[r].now, ruleset |-> v]]
    BY <1>12 DEF LoadFromStore
  <2>2. v \in Ruleset
    BY AnswersAreRulesets
  <2>3. reader[r].camera \in Cameras /\ reader[r].now \in Nat
    BY <1>12 DEF LoadFromStore
  <2>4. UNCHANGED <<clock, rows, committed, saver, cache, cacheTs, retired, spoiled>>
    BY <1>12 DEF LoadFromStore
  <2>5. QED
    BY <2>1, <2>2, <2>3, <2>4
<1>13. ASSUME NEW r \in Readers, FillCache(r) PROVE TypeInv'
  BY <1>13 DEF FillCache
<1>14. ASSUME NEW r \in Readers, FinishEvaluate(r) PROVE TypeInv'
  BY <1>14 DEF FinishEvaluate, ReaderIdle, Ruleset
<1>15. CASE Restart
  BY <1>15, TrackRetiredType DEF Restart, SaverIdle, ReaderIdle, Ruleset, NoTs
<1>16. CASE UNCHANGED vars
  BY <1>16 DEF vars
<1>17. QED
  BY <1>1, <1>2, <1>3, <1>4, <1>5, <1>6, <1>7, <1>8, <1>9, <1>10, <1>11, <1>12,
     <1>13, <1>14, <1>15, <1>16 DEF Next, SaverStep, ReaderStep

\* Every variable keeps its type in every behaviour, for any cameras, versions,
\* reader threads and TTL, with or without raising statements.
THEOREM TypeCorrect == Spec => []TypeOK
<1>1. TypeInv => TypeOK
  BY DEF TypeInv
<1>2. QED
  BY <1>1, TypeInvInit, TypeInvStep, PTL DEF Spec

-----------------------------------------------------------------------------
(* Bounded staleness *)

\* A cache entry is never dated later than the last time its ruleset was the
\* camera's answer: _get_ruleset takes the clock before it reads the store.
CacheDated ==
  \A c \in Cameras : cacheTs[c] # NoTs =>
    cacheTs[c] <= clock /\ AnswerSince(c, cache[c], cacheTs[c])

\* The same of what a reader thread holds between its read and its fill.
LoadDated ==
  \A r \in Readers :
    /\ reader[r].now <= clock
    /\ reader[r].pc = "fill" =>
         AnswerSince(reader[r].camera, reader[r].ruleset, reader[r].now)

\* BoundedStaleness alone is not inductive: a hit inherits the age of the
\* entry, and an entry that of the fill which wrote it.
StalenessInv == TypeInv /\ CacheDated /\ LoadDated /\ BoundedStaleness

\* Changing the table and the history together never makes an answer look
\* older than it is.
LEMMA AnswerSinceKept ==
  ASSUME TypeOK, NEW newRows, rows' = newRows, TrackRetired(newRows),
         NEW c \in Cameras, NEW v \in Ruleset, NEW t \in Int, t <= clock,
         AnswerSince(c, v, t)
  PROVE  AnswerSince(c, v, t)'
<1>1. retired'[c][v] = IF v \in Answers(rows, c) /\ v \notin Answers(newRows, c)
                       THEN clock ELSE retired[c][v]
  BY DEF TrackRetired
<1>2. Answers(rows, c)' = Answers(newRows, c)
  BY DEF Answers, Active
<1>3. QED
  BY <1>1, <1>2 DEF AnswerSince

\* The same for steps that touch neither.
LEMMA AnswerSinceUnchanged ==
  ASSUME UNCHANGED <<rows, retired>>, NEW c, NEW v, NEW t
  PROVE  AnswerSince(c, v, t)' = AnswerSince(c, v, t)
BY DEF AnswerSince, Answers, Active

\* An answer at t or later is one at an earlier time or later.
LEMMA AnswerSinceWeaker ==
  ASSUME TypeOK, NEW c \in Cameras, NEW v \in Ruleset, NEW t \in Int, NEW u \in Int,
         u <= t, AnswerSince(c, v, t)
  PROVE  AnswerSince(c, v, u)
BY DEF TypeOK, AnswerSince

LEMMA StalenessInvInit == Init => StalenessInv
<1> SUFFICES ASSUME Init PROVE StalenessInv
  OBVIOUS
<1>1. TypeInv
  BY TypeInvInit
<1>2. QED
  BY <1>1 DEF Init, StalenessInv, CacheDated, LoadDated, BoundedStaleness, ReaderIdle

\* A step that changes the table, but neither the clock nor any entry.
LEMMA TableStep ==
  ASSUME StalenessInv, TypeInv', NEW newRows, rows' = newRows, TrackRetired(newRows),
         UNCHANGED <<clock, cacheVars, reader>>
  PROVE  StalenessInv'
<1> USE CacheAssumption DEF StalenessInv, TypeInv, TypeOK, cacheVars
<1>1. CacheDated'
  <2> SUFFICES ASSUME NEW c \in Cameras, cacheTs[c] # NoTs
               PROVE  cacheTs[c] <= clock /\ AnswerSince(c, cache[c], cacheTs[c])'
    BY DEF CacheDated, AnswerSince, Answers, Active
  <2>1. /\ cache[c] \in Ruleset /\ cacheTs[c] \in Int /\ cacheTs[c] <= clock
        /\ AnswerSince(c, cache[c], cacheTs[c])
    BY DEF CacheDated, NoTs
  <2>2. QED
    BY <2>1, AnswerSinceKept DEF AnswerSince
<1>2. LoadDated'
  <2> SUFFICES ASSUME NEW r \in Readers, reader[r].pc = "fill"
               PROVE  AnswerSince(reader[r].camera, reader[r].ruleset, reader[r].now)'
    BY DEF LoadDated, AnswerSince, Answers, Active
  <2>1. /\ reader[r].camera \in Cameras /\ reader[r].ruleset \in Ruleset
        /\ reader[r].now \in Int /\ reader[r].now <= clock
        /\ AnswerSince(reader[r].camera, reader[r].ruleset, reader[r].now)
    BY DEF LoadDated, ReaderBusy
  <2>2. QED
    BY <2>1, AnswerSinceKept DEF AnswerSince
<1>3. BoundedStaleness'
  <2> SUFFICES ASSUME NEW r \in Readers, reader[r].pc = "use"
               PROVE  AnswerSince(reader[r].camera, reader[r].ruleset, reader[r].now - TTL + 1)'
    BY DEF BoundedStaleness, AnswerSince, Answers, Active
  <2>1. /\ reader[r].camera \in Cameras /\ reader[r].ruleset \in Ruleset
        /\ reader[r].now - TTL + 1 \in Int /\ reader[r].now - TTL + 1 <= clock
        /\ AnswerSince(reader[r].camera, reader[r].ruleset, reader[r].now - TTL + 1)
    BY DEF LoadDated, BoundedStaleness, ReaderBusy
  <2>2. QED
    BY <2>1, AnswerSinceKept DEF AnswerSince
<1>4. QED
  BY <1>1, <1>2, <1>3

LEMMA StalenessInvStep == StalenessInv /\ [Next]_vars => StalenessInv'
<1> SUFFICES ASSUME StalenessInv, [Next]_vars PROVE StalenessInv'
  OBVIOUS
<1>t. TypeInv'
  BY TypeInvStep DEF StalenessInv
<1> USE <1>t, CacheAssumption, AnswerSinceUnchanged
    DEF StalenessInv, TypeInv, TypeOK, storeVars, cacheVars,
        CacheDated, LoadDated, BoundedStaleness
<1>1. CASE Tick
  BY <1>1 DEF Tick
<1>2. ASSUME NEW targets \in SUBSET Cameras \ {{}}, Activate(targets) PROVE StalenessInv'
  BY <1>2 DEF Activate
<1>3. ASSUME NEW c \in Cameras, NEW v \in Versions, Rollback(c, v) PROVE StalenessInv'
  BY <1>3 DEF Rollback
<1>4. ASSUME NEW c \in Cameras, NEW v \in Versions, DeactivateOld(c, v) PROVE StalenessInv'
  BY <1>4, TableStep DEF DeactivateOld
<1>5. CASE InsertNew
  BY <1>5, TableStep DEF InsertNew
<1>6. CASE Commit
  BY <1>6 DEF Commit
<1>7. CASE Reload
  BY <1>7 DEF Reload
<1>8. CASE SaveRaises
  BY <1>8 DEF SaveRaises
<1>9. ASSUME NEW r \in Readers, NEW c \in Cameras, BeginEvaluate(r, c) PROVE StalenessInv'
  BY <1>9 DEF BeginEvaluate
<1>10. ASSUME NEW r \in Readers, CacheHit(r) PROVE StalenessInv'
  <2> DEFINE c == reader[r].camera
             now == reader[r].now
  <2>1. /\ c \in Cameras /\ cache[c] \in Ruleset /\ now \in Int
        /\ cacheTs[c] \in Int /\ now - TTL + 1 <= cacheTs[c]
        /\ AnswerSince(c, cache[c], cacheTs[c])
    BY <1>10 DEF CacheHit, CacheFresh, ReaderBusy, NoTs
  <2>2. AnswerSince(c, cache[c], now - TTL + 1)
    BY <2>1, AnswerSinceWeaker
  <2>3. reader' = [reader EXCEPT ![r] = [@ EXCEPT !.pc = "use", !.ruleset = cache[c]]]
    BY <1>10 DEF CacheHit
  <2>4. UNCHANGED <<clock, rows, cache, cacheTs, retired>>
    BY <1>10 DEF CacheHit
  <2> HIDE DEF c, now
  <2>5. BoundedStaleness'
    <3> SUFFICES ASSUME NEW s \in Readers, reader'[s].pc = "use"
                 PROVE  AnswerSince(reader'[s].camera, reader'[s].ruleset,
                                    reader'[s].now - TTL + 1)
      BY <2>4
    <3>1. CASE s = r
      BY <2>2, <2>3, <3>1 DEF c, now
    <3>2. CASE s # r
      BY <2>3, <3>2
    <3>3. QED BY <3>1, <3>2
  <2>6. QED
    BY <2>3, <2>4, <2>5
<1>11. ASSUME NEW r \in Readers, CacheMiss(r) PROVE StalenessInv'
  BY <1>11 DEF CacheMiss
<1>12. ASSUME NEW r \in Readers, LoadFromStore(r) PROVE StalenessInv'
  BY <1>12 DEF LoadFromStore, AnswerSince
<1>13. ASSUME NEW r \in Readers, FillCache(r) PROVE StalenessInv'
  <2> DEFINE c == reader[r].camera
             now == reader[r].now
             v == reader[r].ruleset
  <2>1. /\ c \in Cameras /\ v \in Ruleset /\ now \in Nat /\ now <= clock
        /\ now - TTL + 1 \in Int /\ now - TTL + 1 <= now
        /\ AnswerSince(c, v, now)
    BY <1>13 DEF FillCache, ReaderBusy
  <2>2. AnswerSince(c, v, now - TTL + 1)
    BY <2>1, AnswerSinceWeaker
  <2>3. /\ cache' = [cache EXCEPT ![c] = v]
        /\ cacheTs' = [cacheTs EXCEPT ![c] = now]
        /\ reader' = [reader EXCEPT ![r].pc = "use"]
        /\ UNCHANGED <<clock, rows, retired>>
    BY <1>13 DEF FillCache
  <2>4. CacheDated'
    BY <2>1, <2>3
  <2>5. BoundedStaleness'
    <3> SUFFICES ASSUME NEW s \in Readers, reader'[s].pc = "use"
                 PROVE  AnswerSince(reader'[s].camera, reader'[s].ruleset,
                                    reader'[s].now - TTL + 1)
      BY <2>3
    <3>1. CASE s = r
      BY <2>2, <2>3, <3>1
    <3>2. CASE s # r
      BY <2>3, <3>2
    <3>3. QED BY <3>1, <3>2
  <2>6. QED
    BY <2>3, <2>4, <2>5
<1>14. ASSUME NEW r \in Readers, FinishEvaluate(r) PROVE StalenessInv'
  BY <1>14 DEF FinishEvaluate, ReaderIdle
<1>15. CASE Restart
  BY <1>15 DEF Restart, ReaderIdle
<1>16. CASE UNCHANGED vars
  BY <1>16 DEF vars
<1>17. QED
  BY <1>1, <1>2, <1>3, <1>4, <1>5, <1>6, <1>7, <1>8, <1>9, <1>10, <1>11, <1>12,
     <1>13, <1>14, <1>15, <1>16 DEF Next, SaverStep, ReaderStep

\* "Hot-reload of rules within 5 seconds": whatever the interleaving of reader
\* threads, activations, rollbacks, raising statements and restarts, and for
\* every TTL, an evaluation applies a ruleset that was the camera's answer
\* less than TTL before the evaluation began.
THEOREM StalenessBounded == Spec => []BoundedStaleness
<1>1. StalenessInv => BoundedStaleness
  BY DEF StalenessInv
<1>2. QED
  BY <1>1, StalenessInvInit, StalenessInvStep, PTL DEF Spec

-----------------------------------------------------------------------------
(* One active row per camera *)

\* What holds of the shared connection's table while a save is in progress:
\* between UPDATE and INSERT its camera has no active row, before the commit it
\* has exactly one, and every other unspoiled camera has what it had.
TransactionInv ==
  /\ TypeInv
  /\ OneCommittedRuleset
  /\ \A c \in Cameras \ spoiled :
       (saver.pc = "insert" => saver.camera # c) => OneActive(rows, c)
  /\ saver.pc = "insert" =>
       Active(rows, saver.camera) = {} /\ rows[saver.version].camera = NoCamera
  /\ saver.pc = "commit" => OneActive(rows, saver.camera)

\* UPDATE leaves the camera no active row and every other camera its own.
LEMMA UpdateEffect ==
  ASSUME NEW table \in Table, NEW c \in Cameras
  PROVE  /\ Active(Deactivated(table, c), c) = {}
         /\ \A v \in Versions : Deactivated(table, c)[v].camera = table[v].camera
         /\ \A d \in Cameras \ {c} :
              OneActive(table, d) => OneActive(Deactivated(table, c), d)
<1> DEFINE new == Deactivated(table, c)
<1>1. \A w \in Versions :
        /\ new[w].camera = table[w].camera
        /\ new[w].active <=> (table[w].active /\ table[w].camera # c)
  BY DEF Deactivated, Table, Row
<1> HIDE DEF new
<1>2. Active(new, c) = {}
  BY <1>1 DEF Active
<1>3. ASSUME NEW d \in Cameras \ {c}, OneActive(table, d) PROVE OneActive(new, d)
  <2>1. Active(new, d) = Active(table, d)
    BY <1>1 DEF Active
  <2>2. QED BY <1>1, <1>3, <2>1 DEF OneActive
<1>4. QED BY <1>1, <1>2, <1>3 DEF new

\* INSERT of an unused version gives its camera the one active row, if it had
\* none, and leaves every other camera its own.
LEMMA InsertEffect ==
  ASSUME NEW table \in Table, NEW c \in Cameras, NEW v \in Versions,
         table[v].camera = NoCamera, Active(table, c) = {}
  PROVE  /\ OneActive(Inserted(table, v, c), c)
         /\ \A d \in Cameras \ {c} :
              OneActive(table, d) => OneActive(Inserted(table, v, c), d)
<1> DEFINE new == Inserted(table, v, c)
<1>1. /\ new[v].camera = c
      /\ new[v].active
      /\ \A w \in Versions \ {v} : new[w] = table[w]
  BY DEF Inserted, Table
<1> HIDE DEF new
<1>2. OneActive(new, c)
  <2>1. Active(new, c) = {v}
    BY <1>1 DEF Active
  <2>2. QED BY <2>1 DEF OneActive
<1>3. ASSUME NEW d \in Cameras \ {c}, OneActive(table, d) PROVE OneActive(new, d)
  <2>1. \A w \in Versions : /\ new[w].camera = d <=> table[w].camera = d
                            /\ table[w].camera = d => (new[w].active <=> table[w].active)
    <3>1. TAKE w \in Versions
    <3>2. CASE w = v
      BY <1>1, <3>2, CacheAssumption
    <3>3. CASE w # v
      BY <1>1, <3>3
    <3>4. QED BY <3>2, <3>3
  <2>2. Active(new, d) = Active(table, d)
    BY <2>1 DEF Active
  <2>3. QED BY <1>3, <2>1, <2>2 DEF OneActive
<1>4. QED BY <1>2, <1>3 DEF new

LEMMA TransactionInvInit == Init => TransactionInv
<1> SUFFICES ASSUME Init PROVE TransactionInv
  OBVIOUS
<1>1. TypeInv
  BY TypeInvInit
<1>2. \A c \in Cameras : OneActive(rows, c) /\ OneActive(committed, c)
  BY CacheAssumption DEF Init, OneActive
<1>3. QED
  BY <1>1, <1>2 DEF Init, TransactionInv, OneCommittedRuleset, SaverIdle

\* A step that leaves the tables and the save in progress alone.
LEMMA TransactionUntouched ==
  ASSUME TransactionInv, TypeInv', UNCHANGED <<rows, committed, saver, spoiled>>
  PROVE  TransactionInv'
BY DEF TransactionInv, OneCommittedRuleset, OneActive, Active

LEMMA TransactionInvStep == TransactionInv /\ [Next]_vars => TransactionInv'
<1> SUFFICES ASSUME TransactionInv, [Next]_vars PROVE TransactionInv'
  OBVIOUS
<1>t. TypeInv /\ TypeInv'
  BY TypeInvStep DEF TransactionInv
<1>o. ASSUME UNCHANGED rows, NEW c PROVE /\ OneActive(rows, c)' = OneActive(rows, c)
                                        /\ Active(rows, c)' = Active(rows, c)
  BY <1>o DEF OneActive, Active
<1>c. ASSUME UNCHANGED committed, NEW c
      PROVE  OneActive(committed, c)' = OneActive(committed, c)
  BY <1>c DEF OneActive, Active
<1>1. CASE Tick
  BY <1>t, <1>1, TransactionUntouched DEF Tick
<1>2. ASSUME NEW targets \in SUBSET Cameras \ {{}}, Activate(targets) PROVE TransactionInv'
  BY <1>t, <1>o, <1>c, <1>2 DEF Activate, SaverIdle, storeVars, TransactionInv, OneCommittedRuleset
<1>3. ASSUME NEW c \in Cameras, NEW v \in Versions, Rollback(c, v) PROVE TransactionInv'
  BY <1>t, <1>o, <1>c, <1>3 DEF Rollback, SaverIdle, storeVars, TransactionInv, OneCommittedRuleset
<1>4. ASSUME NEW c \in Cameras, NEW v \in Versions, DeactivateOld(c, v) PROVE TransactionInv'
  <2>1. /\ rows \in Table /\ saver.pc = "next" /\ rows[v].camera = NoCamera
        /\ rows' = Deactivated(rows, c)
        /\ saver' = [pc |-> "insert", targets |-> saver.targets \ {c}, camera |-> c, version |-> v]
        /\ UNCHANGED <<committed, spoiled>>
    BY <1>t, <1>4 DEF DeactivateOld, TypeInv, TypeOK
  <2>2. saver'.pc = "insert" /\ saver'.camera = c /\ saver'.version = v
    BY <2>1
  <2>3. \A d \in Cameras \ spoiled : OneActive(rows, d)
    BY <2>1 DEF TransactionInv
  <2>4. /\ Active(rows', c) = {}
        /\ rows'[v].camera = NoCamera
        /\ \A d \in Cameras \ {c} : OneActive(rows, d) => OneActive(rows', d)
    BY <2>1, UpdateEffect
  <2>5. \A d \in Cameras : OneActive(rows, d)' = OneActive(rows', d)
    BY DEF OneActive, Active
  <2>6. Active(rows, c)' = Active(rows', c)
    BY DEF Active
  <2>7. QED
    BY <1>t, <1>c, <2>1, <2>2, <2>3, <2>4, <2>5, <2>6 DEF TransactionInv, OneCommittedRuleset
<1>5. CASE InsertNew
  <2> DEFINE c == saver.camera
             v == saver.version
  <2>1. /\ rows \in Table /\ c \in Cameras /\ v \in Versions /\ saver.pc = "insert"
        /\ rows[v].camera = NoCamera /\ Active(rows, c) = {}
        /\ rows' = Inserted(rows, v, c)
        /\ saver' = [saver EXCEPT !.pc = "commit"]
        /\ UNCHANGED <<committed, spoiled>>
    BY <1>t, <1>5 DEF InsertNew, TypeInv, TypeOK, SaverBusy, TransactionInv
  <2>2. saver'.pc = "commit" /\ saver'.camera = c
    BY <1>t, <2>1 DEF TypeInv, TypeOK
  <2> HIDE DEF c, v
  <2>3. \A d \in Cameras \ spoiled : d # c => OneActive(rows, d)
    BY <2>1 DEF TransactionInv, c
  <2>4. /\ OneActive(rows', c)
        /\ \A d \in Cameras \ {c} : OneActive(rows, d) => OneActive(rows', d)
    BY <2>1, InsertEffect
  <2>5. \A d \in Cameras : OneActive(rows, d)' = OneActive(rows', d)
    BY DEF OneActive, Active
  <2>6. OneActive(rows', saver'.camera) = OneActive(rows, saver.camera)'
    BY DEF OneActive, Active
  <2>7. QED
    BY <1>t, <1>c, <2>1, <2>2, <2>3, <2>4, <2>5, <2>6 DEF TransactionInv, OneCommittedRuleset
<1>6. CASE Commit
  <2>1. /\ saver.pc = "commit" /\ committed' = rows /\ UNCHANGED rows
        /\ saver'.pc = "reload"
        /\ spoiled' = spoiled \ {saver.camera}
    BY <1>t, <1>6 DEF Commit, TypeInv, TypeOK
  <2>2. \A d \in Cameras \ spoiled' : OneActive(rows, d)
    BY <2>1 DEF TransactionInv
  <2>3. \A d \in Cameras : /\ OneActive(rows, d)' = OneActive(rows, d)
                          /\ OneActive(committed, d)' = OneActive(rows, d)
    BY <2>1 DEF OneActive, Active
  <2>4. QED
    BY <1>t, <2>1, <2>2, <2>3 DEF TransactionInv, OneCommittedRuleset
<1>7. CASE Reload
  BY <1>t, <1>o, <1>c, <1>7 DEF Reload, SaverIdle, storeVars, TransactionInv, OneCommittedRuleset
<1>8. CASE SaveRaises
  BY <1>t, <1>o, <1>c, <1>8 DEF SaveRaises, SaverIdle, storeVars, TransactionInv, OneCommittedRuleset
<1>9. ASSUME NEW r \in Readers, ReaderStep(r) PROVE TransactionInv'
  <2>1. UNCHANGED <<rows, committed, saver, spoiled>>
    BY <1>9 DEF ReaderStep, BeginEvaluate, CacheHit, CacheMiss, LoadFromStore, FillCache,
                FinishEvaluate, storeVars
  <2>2. QED BY <1>t, <2>1, TransactionUntouched
<1>10. CASE Restart
  <2>1. rows' = committed /\ UNCHANGED <<committed, spoiled>> /\ saver'.pc = "idle"
    BY <1>10 DEF Restart, SaverIdle
  <2>2. \A d \in Cameras : /\ OneActive(rows, d)' = OneActive(committed, d)
                          /\ OneActive(committed, d)' = OneActive(committed, d)
    BY <2>1 DEF OneActive, Active
  <2>3. QED
    BY <1>t, <2>1, <2>2 DEF TransactionInv, OneCommittedRuleset
<1>11. CASE UNCHANGED vars
  BY <1>t, <1>11, TransactionUntouched DEF vars
<1>12. QED
  BY <1>1, <1>2, <1>3, <1>4, <1>5, <1>6, <1>7, <1>8, <1>9, <1>10, <1>11 DEF Next, SaverStep

\* Wherever the process is restarted and whichever statement of save_ruleset
\* raises, the file holds exactly one active version for every camera that was
\* ever given rules and whose own save has not raised halfway, for any number
\* of cameras and versions.
THEOREM RulesetUnique == Spec => []OneCommittedRuleset
<1>1. TransactionInv => OneCommittedRuleset
  BY DEF TransactionInv
<1>2. QED
  BY <1>1, TransactionInvInit, TransactionInvStep, PTL DEF Spec

-----------------------------------------------------------------------------
(* The other stores of the process.  First the crops: FrameCropStore, under    *)
(* its own names but for metadata, its table of rows                           *)

CONSTANTS Events, Tenants, AllTenants, TenantOf, NoEvent, Retention, UrlLife, PurgePeriod, MaxFaults

VARIABLES file, metadata, saved, pc, event, scope, batch, asleep, faults, stored, orphaned

Crops == INSTANCE FrameCropStore WITH rows <- metadata

\* What FrameCropStore assumes of its constants.
CropConstants ==
  /\ NoEvent \notin Events
  /\ AllTenants \notin Tenants
  /\ TenantOf \in [Events -> Tenants]
  /\ Retention \in Nat
  /\ UrlLife \in Nat
  /\ PurgePeriod \in Nat \ {0}
  /\ MaxFaults \in Nat

\* Event e is at rest when no store of it is under way or was cut short.
AtRest(e) == e \notin orphaned /\ ~Crops!Storing(e)

\* A file that some row is to remove one day: connection and database agree with
\* the last completed store on its age.
Dated(e) == file[e] = "whole" /\ metadata[e] = stored[e] /\ saved[e] = stored[e]

FilesDated == \A e \in Events : AtRest(e) /\ file[e] # "absent" => Dated(e)

YoungKept == \A e \in Events : AtRest(e) /\ stored[e] \in 0..Retention => file[e] # "absent"

\* A purge that is past a row has removed its file, or failed to.
Disposed(e) == file[e] = "absent" \/ e \in orphaned

PurgeInOrder ==
  /\ pc = "remove" => \A e \in Crops!Expired(scope) : e \in batch \/ Disposed(e)
  /\ pc = "remove" => \A e \in batch : metadata[e] > Retention
  /\ pc = "delete" => \A e \in Crops!Expired(scope) : Disposed(e)
  /\ pc = "commitDelete" => Crops!Expired(scope) = {}

\* What a store in progress has done so far.
StoreInOrder ==
  /\ pc \in {"write", "insert", "commit"} => event \in Events
  /\ pc \in {"insert", "commit"} => file[event] = "whole"
  /\ pc = "commit" => metadata[event] = 0

CropInv == Crops!TypeOK /\ StoreInOrder /\ PurgeInOrder /\ FilesDated /\ YoungKept

-----------------------------------------------------------------------------
(* Types of the crops *)

LEMMA CropTypeInit == CropConstants /\ Crops!Init => Crops!TypeOK
  BY DEF CropConstants, Crops!Init, Crops!TypeOK, Crops!Table, Crops!Ages

LEMMA CropTypeStep ==
  CropConstants /\ Crops!TypeOK /\ StoreInOrder /\ [Crops!Next]_(Crops!vars) => Crops!TypeOK'
<1> SUFFICES ASSUME CropConstants, Crops!TypeOK, StoreInOrder,
      [Crops!Next]_(Crops!vars) PROVE Crops!TypeOK'
  OBVIOUS
<1> USE DEF CropConstants, Crops!TypeOK, Crops!Table, Crops!Ages, Crops!NoRow
<1>1. CASE Crops!Tick
  BY <1>1 DEF Crops!Tick, Crops!Older, Crops!call
<1>2. CASE Crops!StoreStep
  <2>1. ASSUME NEW e \in Events, Crops!OpenFile(e) PROVE Crops!TypeOK'
    BY <2>1 DEF Crops!OpenFile
  <2>2. CASE Crops!WriteFile
    BY <2>2 DEF Crops!WriteFile
  <2>3. CASE Crops!InsertRow
    BY <2>3 DEF Crops!InsertRow, StoreInOrder
  <2>4. CASE Crops!CommitRow
    BY <2>4 DEF Crops!CommitRow, StoreInOrder
  <2>5. CASE Crops!StoreRaises
    BY <2>5 DEF Crops!StoreRaises, Crops!Fault, StoreInOrder
  <2> QED BY <1>2, <2>1, <2>2, <2>3, <2>4, <2>5 DEF Crops!StoreStep
<1>3. CASE Crops!PurgeStep
  <2>1. ASSUME NEW s \in Tenants \cup {AllTenants}, Crops!BeginPurge(s) PROVE Crops!TypeOK'
    BY <2>1 DEF Crops!BeginPurge, Crops!Expired, Crops!store
  <2>2. ASSUME NEW e \in Events, Crops!RemoveFile(e) PROVE Crops!TypeOK'
    BY <2>2 DEF Crops!RemoveFile, Crops!NextRemoval
  <2>3. ASSUME NEW e \in Events, Crops!RemoveFails(e) PROVE Crops!TypeOK'
    BY <2>3 DEF Crops!RemoveFails, Crops!NextRemoval, Crops!Fault, Crops!store
  <2>4. CASE Crops!DeleteRows
    BY <2>4 DEF Crops!DeleteRows
  <2>5. CASE Crops!CommitDelete
    BY <2>5 DEF Crops!CommitDelete, Crops!EndPurge
  <2>6. CASE Crops!PurgeRaises
    BY <2>6 DEF Crops!PurgeRaises, Crops!EndPurge, Crops!Fault
  <2> QED BY <1>3, <2>1, <2>2, <2>3, <2>4, <2>5, <2>6 DEF Crops!PurgeStep
<1>4. CASE Crops!Restart
  BY <1>4 DEF Crops!Restart, Crops!Fault
<1>5. CASE UNCHANGED Crops!vars
  BY <1>5 DEF Crops!vars
<1> QED BY <1>1, <1>2, <1>3, <1>4, <1>5 DEF Crops!Next

-----------------------------------------------------------------------------
(* What holds of the crops *)

LEMMA CropInvInit == CropConstants /\ Crops!Init => CropInv
<1> SUFFICES ASSUME CropConstants, Crops!Init PROVE CropInv
  OBVIOUS
<1> USE DEF CropConstants, Crops!Init
<1>1. Crops!TypeOK
  BY CropTypeInit
<1>2. StoreInOrder /\ PurgeInOrder
  BY DEF StoreInOrder, PurgeInOrder
<1>3. FilesDated /\ YoungKept
  BY DEF FilesDated, YoungKept, Crops!NoRow
<1> QED BY <1>1, <1>2, <1>3 DEF CropInv

\* Opening the file takes the event out of the invariant's reach until its store
\* completes; the steps in between touch no other event.
LEMMA CropInvStore == CropConstants /\ CropInv /\ Crops!StoreStep => CropInv'
<1> SUFFICES ASSUME CropConstants, CropInv, Crops!StoreStep PROVE CropInv'
  OBVIOUS
<1> USE DEF CropConstants, CropInv
<1>0. Crops!TypeOK'
  BY CropTypeStep DEF Crops!Next
<1> USE DEF Crops!TypeOK, Crops!Table, Crops!Ages, Crops!NoRow, StoreInOrder, PurgeInOrder,
        FilesDated, YoungKept,
            AtRest, Dated, Crops!Storing
<1>1. ASSUME NEW e \in Events, Crops!OpenFile(e) PROVE CropInv'
  BY <1>0, <1>1 DEF Crops!OpenFile
<1>2. CASE Crops!WriteFile
  BY <1>0, <1>2 DEF Crops!WriteFile
<1>3. CASE Crops!InsertRow
  BY <1>0, <1>3 DEF Crops!InsertRow
<1>4. CASE Crops!CommitRow
  BY <1>0, <1>4 DEF Crops!CommitRow
<1>5. CASE Crops!StoreRaises
  BY <1>0, <1>5 DEF Crops!StoreRaises, Crops!Fault
<1> QED BY <1>1, <1>2, <1>3, <1>4, <1>5 DEF Crops!StoreStep

\* A purge selects rows past the retention period, removes their files one by one
\* and only then deletes the same rows.
LEMMA CropInvPurge == CropConstants /\ CropInv /\ Crops!PurgeStep => CropInv'
<1> SUFFICES ASSUME CropConstants, CropInv, Crops!PurgeStep PROVE CropInv'
  OBVIOUS
<1> USE DEF CropConstants, CropInv
<1>0. Crops!TypeOK'
  BY CropTypeStep DEF Crops!Next
<1> USE DEF Crops!TypeOK, Crops!Table, Crops!Ages, Crops!NoRow, StoreInOrder, PurgeInOrder,
        FilesDated, YoungKept,
            AtRest, Dated, Crops!Storing, Disposed, Crops!Expired
<1>1. ASSUME NEW s \in Tenants \cup {AllTenants}, Crops!BeginPurge(s) PROVE CropInv'
  BY <1>0, <1>1 DEF Crops!BeginPurge, Crops!store
<1>2. ASSUME NEW e \in Events, Crops!RemoveFile(e) PROVE CropInv'
  BY <1>0, <1>2 DEF Crops!RemoveFile, Crops!NextRemoval
<1>3. ASSUME NEW e \in Events, Crops!RemoveFails(e) PROVE CropInv'
  BY <1>0, <1>3 DEF Crops!RemoveFails, Crops!NextRemoval, Crops!Fault, Crops!store
<1>4. CASE Crops!DeleteRows
  BY <1>0, <1>4 DEF Crops!DeleteRows
<1>5. CASE Crops!CommitDelete
  BY <1>0, <1>5 DEF Crops!CommitDelete, Crops!EndPurge
<1>6. CASE Crops!PurgeRaises
  BY <1>0, <1>6 DEF Crops!PurgeRaises, Crops!EndPurge, Crops!Fault
<1> QED BY <1>1, <1>2, <1>3, <1>4, <1>5, <1>6 DEF Crops!PurgeStep

LEMMA CropInvStep == CropConstants /\ CropInv /\ [Crops!Next]_(Crops!vars) => CropInv'
<1> SUFFICES ASSUME CropConstants, CropInv, [Crops!Next]_(Crops!vars) PROVE CropInv'
  OBVIOUS
<1> USE DEF CropConstants, CropInv
<1>0. Crops!TypeOK'
  BY CropTypeStep
<1> USE DEF Crops!TypeOK, Crops!Table, Crops!Ages, Crops!NoRow, StoreInOrder, PurgeInOrder,
        FilesDated, YoungKept,
            AtRest, Dated, Crops!Storing
<1>1. CASE Crops!Tick
  BY <1>0, <1>1 DEF Crops!Tick, Crops!Older, Crops!call
<1>2. CASE Crops!StoreStep
  BY <1>2, CropInvStore
<1>3. CASE Crops!PurgeStep
  BY <1>3, CropInvPurge
<1>4. CASE Crops!Restart
  BY <1>0, <1>4 DEF Crops!Restart, Crops!Fault
<1>5. CASE UNCHANGED Crops!vars
  BY <1>0, <1>5 DEF Crops!vars, Disposed, Crops!Expired
<1> QED BY <1>1, <1>2, <1>3, <1>4, <1>5 DEF Crops!Next

LEMMA CropInvReadable == CropConstants /\ CropInv => Crops!CropReadable
  BY DEF CropConstants, CropInv, Crops!TypeOK, Crops!Table, Crops!Ages, Crops!NoRow, FilesDated,
        YoungKept, AtRest, Dated, Crops!CropReadable,
      Crops!GetCrop, Crops!UrlOf, Crops!UrlExpired, Crops!GetCropByEventId, Crops!Belongs

-----------------------------------------------------------------------------
(* Theorems about them *)

LEMMA CropInvAlways ==
  ASSUME CropConstants
  PROVE  Crops!Spec => []CropInv
  BY CropInvInit, CropInvStep, PTL DEF Crops!Spec

\* The state stays well-typed.
THEOREM CropTypes ==
  ASSUME CropConstants
  PROVE  Crops!Spec => []Crops!TypeOK
<1>1. CropInv => Crops!TypeOK
  BY DEF CropInv
<1> QED BY <1>1, CropInvAlways, PTL

\* frame_crop_store.py store_crop, purge_expired and get_crop: no failure, crash or
\* purge takes a crop away before its retention period ends, whatever the number of
\* events, tenants and faults.
THEOREM CropKept ==
  ASSUME CropConstants
  PROVE  Crops!Spec => []Crops!CropReadable
  BY CropInvAlways, CropInvReadable, PTL

\* main.py _frame_crop_purge_loop: a purge without an exception leaves no file of a
\* store that completed more than the retention period ago, except where removing
\* it failed.
THEOREM RetentionEnforced ==
  ASSUME CropConstants
  PROVE  Crops!Spec => Crops!NothingOutlivesPurge
<1>1. ASSUME CropInv, [Crops!Next]_(Crops!vars), Crops!LoopPurges, NEW e \in Events \ orphaned',
      file'[e] # "absent"
      PROVE stored'[e] <= Retention
  <2> USE DEF CropConstants, CropInv, Crops!TypeOK, Crops!Table, Crops!Ages, Crops!NoRow,
          PurgeInOrder, FilesDated, AtRest, Dated, Crops!Storing,
          Crops!LoopPurges
  <2>1. CASE Crops!Tick
    BY <1>1, <2>1 DEF Crops!Tick
  <2>2. CASE Crops!StoreStep
    BY <1>1, <2>2 DEF Crops!StoreStep, Crops!OpenFile, Crops!WriteFile, Crops!InsertRow,
          Crops!CommitRow, Crops!StoreRaises, Crops!Fault
  <2>3. CASE Crops!PurgeStep
    <3>1. ASSUME NEW s \in Tenants \cup {AllTenants}, Crops!BeginPurge(s) PROVE stored'[e] <= Retention
      <4>1. s = AllTenants /\ Crops!Expired(s) = {} /\ pc = "idle" /\ UNCHANGED <<Crops!store,
              stored, orphaned>>
        BY <1>1, <3>1 DEF Crops!BeginPurge
      <4>2. metadata[e] = stored[e] /\ ~(metadata[e] > Retention)
        BY <1>1, <4>1 DEF Crops!Expired, Crops!store
      <4> QED BY <1>1, <4>1, <4>2
    <3>2. CASE Crops!CommitDelete
      <4>1. scope = AllTenants /\ Crops!Expired(scope) = {} /\ pc = "commitDelete"
        BY <1>1, <3>2 DEF Crops!CommitDelete, Crops!EndPurge
      <4>2. metadata[e] = stored[e] /\ ~(metadata[e] > Retention) /\ stored' = stored
        BY <1>1, <3>2, <4>1 DEF Crops!CommitDelete, Crops!Expired
      <4> QED BY <1>1, <4>2
    <3>3. ASSUME NEW d \in Events, Crops!RemoveFile(d) \/ Crops!RemoveFails(d) PROVE FALSE
      BY <1>1, <3>3 DEF Crops!RemoveFile, Crops!RemoveFails
    <3>4. ~Crops!DeleteRows
      BY <1>1 DEF Crops!DeleteRows
    <3>5. ~Crops!PurgeRaises
      BY <1>1 DEF Crops!PurgeRaises, Crops!Fault
    <3> QED BY <2>3, <3>1, <3>2, <3>3, <3>4, <3>5 DEF Crops!PurgeStep
  <2>4. CASE Crops!Restart
    BY <1>1, <2>4 DEF Crops!Restart, Crops!Fault
  <2>5. CASE UNCHANGED Crops!vars
    BY <1>1, <2>5 DEF Crops!vars
  <2> QED BY <1>1, <2>1, <2>2, <2>3, <2>4, <2>5 DEF Crops!Next
<1>2. CropInv /\ [Crops!Next]_(Crops!vars) =>
        [ Crops!LoopPurges =>
            \A e \in Events \ orphaned' : file'[e] # "absent" => stored'[e] <= Retention ]_(Crops!vars)
  BY <1>1
<1> QED BY <1>2, CropInvAlways, PTL DEF Crops!Spec, Crops!NothingOutlivesPurge

-----------------------------------------------------------------------------
(* The tables and the vector store: Retention, under its own names but for    *)
(* step, failures and disturbed                                               *)

CONSTANTS Suppressed, Passed, Confidence, DayLength, RawAge, DailyAge, MaxDelay, MaxTime

VARIABLES now, at, raw, daily, savedRaw, savedDaily, embeddings, inserting, step, cutoff, groups,
          failures, disturbed, revived

Tables == INSTANCE Retention WITH pc <- step, faults <- failures, spoiled <- disturbed

LEMMA KeptAtFirst == Tables!Init => Tables!EmbeddingKept
BY DEF Tables!Init, Tables!EmbeddingKept

\* A step that brings no row and takes no embedding away.
LEMMA NothingTaken ==
  ASSUME Tables!EmbeddingKept, raw' \subseteq raw, embeddings \subseteq embeddings', revived' = revived
  PROVE  Tables!EmbeddingKept'
BY DEF Tables!EmbeddingKept

LEMMA CycleKeeps == Tables!EmbeddingKept /\ Tables!Cycle => Tables!EmbeddingKept'
<1> SUFFICES ASSUME Tables!EmbeddingKept, Tables!Cycle PROVE Tables!EmbeddingKept'
  OBVIOUS
<1>1. CASE Tables!PurgeOrphans
  BY <1>1 DEF Tables!PurgeOrphans, Tables!EmbeddingKept, Tables!history
<1>2. CASE Tables!Purge
  BY <1>2, NothingTaken DEF Tables!Purge, Tables!history
<1>3. CASE \/ Tables!BeginCycle \/ Tables!Upsert \/ Tables!CommitUpserts
           \/ Tables!CommitPurge \/ Tables!Drop \/ Tables!CommitDrop
  <2>1. raw' = raw /\ embeddings' = embeddings /\ revived' = revived
    BY <1>3 DEF Tables!BeginCycle, Tables!Upsert, Tables!CommitUpserts, Tables!CommitPurge,
                Tables!Drop, Tables!CommitDrop, Tables!Commit, Tables!history
  <2>2. QED BY <2>1, NothingTaken
<1>4. QED BY <1>1, <1>2, <1>3 DEF Tables!Cycle

LEMMA OthersKeep ==
  ASSUME Suppressed \cap Passed = {}
  PROVE  Tables!EmbeddingKept /\ Tables!Others => Tables!EmbeddingKept'
<1> SUFFICES ASSUME Tables!EmbeddingKept, Tables!Others PROVE Tables!EmbeddingKept'
  OBVIOUS
<1>1. ASSUME NEW e \in Suppressed, Tables!Insert(e) PROVE Tables!EmbeddingKept'
  \* The gate's events have no embedding to keep.
  <2>1. e \notin Passed
    OBVIOUS
  <2>2. raw' = raw \cup {e} /\ embeddings' = embeddings /\ revived' = revived
    BY <1>1 DEF Tables!Insert, Tables!InsertRow
  <2>3. QED BY <2>1, <2>2 DEF Tables!EmbeddingKept
<1>2. CASE Tables!CommitInsert \/ Tables!CommitInsertFails
  <2>1. raw' = raw /\ embeddings' = embeddings /\ revived' = revived
    BY <1>2 DEF Tables!CommitInsert, Tables!CommitInsertFails, Tables!history
  <2>2. QED BY <2>1, NothingTaken
<1>3. ASSUME NEW e \in Passed, Tables!EmbedAndLog(e) PROVE Tables!EmbeddingKept'
  BY <1>3 DEF Tables!EmbedAndLog, Tables!InsertRow, Tables!EmbeddingKept
<1>4. ASSUME NEW e \in Passed, Tables!Embed(e) PROVE Tables!EmbeddingKept'
  BY <1>4, NothingTaken DEF Tables!Embed, Tables!history
<1>5. QED BY <1>1, <1>2, <1>3, <1>4 DEF Tables!Others

\* vector_db.py purge_orphaned_embeddings: a row has its embedding as long as it is
\* there, unless a crash has brought the row back.  An event takes one of two ways.
THEOREM EmbeddingsAgree ==
  ASSUME Suppressed \cap Passed = {}
  PROVE  Tables!Spec => []Tables!EmbeddingKept
<1>1. Tables!EmbeddingKept /\ [Tables!Next]_(Tables!vars) => Tables!EmbeddingKept'
  <2> SUFFICES ASSUME Tables!EmbeddingKept, [Tables!Next]_(Tables!vars) PROVE Tables!EmbeddingKept'
    OBVIOUS
  <2>1. CASE Tables!Tick \/ Tables!StatementFails
    <3>1. raw' = raw /\ embeddings' = embeddings /\ revived' = revived
      BY <2>1 DEF Tables!Tick, Tables!StatementFails, Tables!history
    <3>2. QED BY <3>1, NothingTaken
  <2>2. CASE Tables!Restart
    BY <2>2 DEF Tables!Restart, Tables!EmbeddingKept
  <2>3. CASE UNCHANGED Tables!vars
    BY <2>3, NothingTaken DEF Tables!vars
  <2>4. QED BY <2>1, <2>2, <2>3, CycleKeeps, OthersKeep DEF Tables!Next
<1>2. QED BY KeptAtFirst, <1>1, PTL DEF Tables!Spec

-----------------------------------------------------------------------------
(* Induction, and sums of confidences *)

\* Induction over the naturals, for a set.
LEMMA Induction ==
  ASSUME NEW S, 0 \in S, \A k \in Nat : k \in S => k + 1 \in S
  PROVE  Nat \subseteq S
<1> DEFINE Less == OpToRel(<, Nat)
           T == Nat \ S
<1>1. SUFFICES ASSUME T # {} PROVE FALSE
  OBVIOUS
<1>2. PICK x \in T : \A y \in T : ~(<<y, x>> \in Less)
  <2> HIDE DEF T, Less
  <2>1. T \subseteq Nat
    BY DEF T
  <2>2. IsWellFoundedOn(Less, Nat)
    BY NatLessThanWellFounded DEF Less
  <2>3. QED BY <1>1, <2>1, <2>2, WFMin
<1>3. x \in Nat /\ x # 0 /\ x - 1 \in Nat
  OBVIOUS
<1>4. x - 1 \in T
  BY <1>3
<1>5. <<x - 1, x>> \in Less
  BY <1>3 DEF OpToRel
<1>6. QED BY <1>2, <1>4, <1>5

\* Induction over finite sets by their size, for a set of sets.
LEMMA SizeInduction ==
  ASSUME NEW E, NEW Good,
         \A S \in SUBSET E :
           /\ IsFiniteSet(S)
           /\ \A T \in SUBSET E : IsFiniteSet(T) /\ Cardinality(T) < Cardinality(S) => T \in Good
           => S \in Good
  PROVE  \A S \in SUBSET E : IsFiniteSet(S) => S \in Good
<1> DEFINE Smaller(n) == \A S \in SUBSET E : IsFiniteSet(S) /\ Cardinality(S) < n => S \in Good
           N == {n \in Nat : Smaller(n)}
<1>1. 0 \in N
  <2>1. \A S \in SUBSET E : IsFiniteSet(S) => Cardinality(S) \in Nat
    BY FS_CardinalityType
  <2>2. QED BY <2>1
<1>2. ASSUME NEW n \in Nat, n \in N PROVE n + 1 \in N
  <2>1. ASSUME NEW S \in SUBSET E, IsFiniteSet(S), Cardinality(S) < n + 1 PROVE S \in Good
    <3>1. Cardinality(S) \in Nat
      BY <2>1, FS_CardinalityType
    <3>2. ASSUME NEW T \in SUBSET E, IsFiniteSet(T), Cardinality(T) < Cardinality(S) PROVE T \in Good
      <4>1. Cardinality(T) \in Nat
        BY <3>2, FS_CardinalityType
      <4>2. Cardinality(T) < n
        BY <2>1, <3>1, <3>2, <4>1
      <4>3. QED BY <1>2, <3>2, <4>2
    <3>3. QED BY <2>1, <3>2
  <2>2. QED BY <2>1
<1> HIDE DEF N
<1>3. Nat \subseteq N
  BY <1>1, <1>2, Induction
<1>4. ASSUME NEW S \in SUBSET E, IsFiniteSet(S) PROVE S \in Good
  <2>1. Cardinality(S) \in Nat
    BY <1>4, FS_CardinalityType
  <2>2. Cardinality(S) + 1 \in N /\ Cardinality(S) < Cardinality(S) + 1
    BY <1>3, <2>1
  <2>3. QED BY <1>4, <2>2 DEF N
<1>5. QED BY <1>4

\* What the library's fold over a set computes: Total's recursion.
Chosen(s) == CHOOSE x \in s : TRUE
TotalOf(f, s) == IF s = {} THEN 0 ELSE Confidence[Chosen(s)] + f[s \ {Chosen(s)}]
Totals(f, S) == f = [s \in SUBSET S |-> TotalOf(f, s)]

LEMMA ChosenIn == \A s : s # {} => Chosen(s) \in s
  BY DEF Chosen

LEMMA TotalIsFold ==
  \A S : Tables!Total(S) = (CHOOSE f : f = [s \in SUBSET S |-> TotalOf(f, s)])[S]
BY DEF Tables!Total, Tables!MapThenSumSet, Tables!MapThenFoldSet, TotalOf, Chosen

\* A finite set without one of its elements.
LEMMA OneLess ==
  ASSUME NEW S, IsFiniteSet(S), NEW x \in S
  PROVE  /\ IsFiniteSet(S \ {x}) /\ Cardinality(S) \in Nat
         /\ Cardinality(S \ {x}) \in Nat /\ Cardinality(S \ {x}) = Cardinality(S) - 1
         /\ Cardinality(S \ {x}) < Cardinality(S)
<1>1. IsFiniteSet(S \ {x}) /\ Cardinality(S \ {x}) = Cardinality(S) - 1
  BY FS_RemoveElement
<1>2. Cardinality(S) \in Nat /\ Cardinality(S \ {x}) \in Nat
  BY <1>1, FS_CardinalityType
<1>3. QED BY <1>1, <1>2

\* The recursion has a value ...
LEMMA TotalExists ==
  ASSUME NEW S, IsFiniteSet(S)
  PROVE  \E f : f = [s \in SUBSET S |-> TotalOf(f, s)]
<1> DEFINE Small(n) == {s \in SUBSET S : Cardinality(s) <= n}
           N == {n \in Nat : \E f : f = [s \in Small(n) |-> TotalOf(f, s)]}
<1>1. \A s \in SUBSET S : IsFiniteSet(s) /\ Cardinality(s) \in Nat
  BY FS_Subset, FS_CardinalityType
<1>2. 0 \in N
  <2> DEFINE f == [s \in Small(0) |-> 0]
  <2>1. \A s \in Small(0) : s = {}
    <3>1. \A s \in Small(0) : IsFiniteSet(s) /\ Cardinality(s) = 0
      BY <1>1
    <3>2. QED BY <3>1, FS_EmptySet
  <2>2. f = [s \in Small(0) |-> TotalOf(f, s)]
    BY <2>1 DEF TotalOf
  <2> HIDE DEF f
  <2>3. QED BY <2>2
<1>3. ASSUME NEW n \in Nat, n \in N PROVE n + 1 \in N
  <2>1. PICK f : f = [s \in Small(n) |-> TotalOf(f, s)]
    BY <1>3
  <2> DEFINE g == [s \in Small(n + 1) |-> TotalOf(f, s)]
  <2>2. \A s \in Small(n) : s \in Small(n + 1) /\ g[s] = f[s]
    <3>1. Small(n) \subseteq Small(n + 1)
      BY <1>1
    <3>2. QED BY <2>1, <3>1
  <2>3. ASSUME NEW s \in Small(n + 1) PROVE TotalOf(f, s) = TotalOf(g, s)
    <3>1. CASE s = {}
      BY <3>1 DEF TotalOf
    <3>2. CASE s # {}
      <4>1. Chosen(s) \in s
        BY <3>2, ChosenIn
      <4>2. s \in SUBSET S /\ Cardinality(s) <= n + 1 /\ IsFiniteSet(s)
        BY <1>1
      <4>3. s \ {Chosen(s)} \in Small(n)
        <5>1. Cardinality(s \ {Chosen(s)}) = Cardinality(s) - 1 /\ Cardinality(s) \in Nat
          BY <4>1, <4>2, OneLess
        <5>2. QED BY <4>2, <5>1
      <4> HIDE DEF Small, g
      <4>4. QED BY <2>2, <4>3 DEF TotalOf
    <3>3. QED BY <3>1, <3>2
  <2>4. g = [s \in Small(n + 1) |-> TotalOf(g, s)]
    BY <2>3
  <2> HIDE DEF g
  <2>5. \E h : h = [s \in Small(n + 1) |-> TotalOf(h, s)]
    BY <2>4
  <2>6. n + 1 \in Nat
    OBVIOUS
  <2> HIDE DEF Small
  <2>7. QED BY <2>5, <2>6
<1>4. Nat \subseteq N
  <2> HIDE DEF N
  <2>1. QED BY <1>2, <1>3, Induction
<1>5. SUBSET S = Small(Cardinality(S))
  BY FS_Subset
<1>6. Cardinality(S) \in N
  BY <1>1, <1>4
<1>7. QED BY <1>5, <1>6

\* ... which is the same however much larger the set was it was computed for.
LEMMA TotalsAgree ==
  ASSUME NEW S, IsFiniteSet(S), NEW T \in SUBSET S,
         NEW f, Totals(f, S), NEW g, Totals(g, T)
  PROVE  \A s \in SUBSET T : f[s] = g[s]
<1> DEFINE Good == {s \in SUBSET T : f[s] = g[s]}
<1>1. ASSUME NEW s \in SUBSET T, IsFiniteSet(s),
             \A t \in SUBSET T : IsFiniteSet(t) /\ Cardinality(t) < Cardinality(s) => t \in Good
      PROVE  s \in Good
  <2>1. f[s] = TotalOf(f, s) /\ g[s] = TotalOf(g, s)
    <3>1. s \in SUBSET S
      OBVIOUS
    <3>2. QED BY <3>1, Zenon DEF Totals
  <2>2. CASE s = {}
    BY <2>1, <2>2 DEF TotalOf
  <2>3. CASE s # {}
    <3>1. Chosen(s) \in s
      BY <2>3, ChosenIn
    <3>2. s \ {Chosen(s)} \in Good
      BY <1>1, <3>1, OneLess
    <3>3. QED BY <2>1, <2>3, <3>2 DEF TotalOf
  <2>4. QED BY <2>2, <2>3
<1>2. \A s \in SUBSET T : IsFiniteSet(s) => s \in Good
  <2> HIDE DEF Good
  <2>1. QED BY <1>1, SizeInduction
<1>3. \A s \in SUBSET T : IsFiniteSet(s)
  BY FS_Subset
<1>4. QED BY <1>2, <1>3

LEMMA TotalUnfolds ==
  ASSUME NEW S, IsFiniteSet(S), S # {}
  PROVE  Tables!Total(S) = Confidence[Chosen(S)] + Tables!Total(S \ {Chosen(S)})
<1> DEFINE T == S \ {Chosen(S)}
<1>1. PICK f : Totals(f, S) /\ Tables!Total(S) = f[S]
  BY TotalExists, TotalIsFold DEF Totals
<1>2. T \in SUBSET S /\ IsFiniteSet(T)
  BY FS_Subset
<1> HIDE DEF T
<1>3. PICK g : Totals(g, T) /\ Tables!Total(T) = g[T]
  BY <1>2, TotalExists, TotalIsFold DEF Totals
<1>4. \A s \in SUBSET T : f[s] = g[s]
  BY <1>1, <1>2, <1>3, TotalsAgree
<1>5. f[T] = Tables!Total(T)
  BY <1>3, <1>4
<1>6. f[S] = TotalOf(f, S)
  BY <1>1 DEF Totals
<1>7. QED BY <1>1, <1>5, <1>6 DEF TotalOf, T

LEMMA TotalOfNone == Tables!Total({}) = 0
<1>1. PICK f : /\ f = [s \in SUBSET {} |-> TotalOf(f, s)]
               /\ Tables!Total({}) = f[{}]
  BY TotalExists, TotalIsFold, FS_EmptySet
<1>2. f[{}] = TotalOf(f, {})
  BY <1>1
<1>3. QED BY <1>1, <1>2 DEF TotalOf

Numbered == Confidence \in [Tables!Events -> Nat]

\* A sum of confidences is a number; taking one of them away leaves the others.
LEMMA TotalType ==
  ASSUME Numbered
  PROVE  \A S \in SUBSET Tables!Events : IsFiniteSet(S) => Tables!Total(S) \in Nat
<1> DEFINE Good == {S \in SUBSET Tables!Events : Tables!Total(S) \in Nat}
<1>1. ASSUME NEW S \in SUBSET Tables!Events, IsFiniteSet(S),
             \A T \in SUBSET Tables!Events :
               IsFiniteSet(T) /\ Cardinality(T) < Cardinality(S) => T \in Good
      PROVE  S \in Good
  <2>1. CASE S = {}
    BY <2>1, TotalOfNone
  <2>2. CASE S # {}
    <3>1. Chosen(S) \in S
      BY <2>2, ChosenIn
    <3>2. S \ {Chosen(S)} \in Good
      BY <1>1, <3>1, OneLess
    <3>3. Confidence[Chosen(S)] \in Nat
      BY <3>1 DEF Numbered
    <3>4. Tables!Total(S) = Confidence[Chosen(S)] + Tables!Total(S \ {Chosen(S)})
      BY <1>1, <2>2, TotalUnfolds
    <3>5. QED BY <3>2, <3>3, <3>4
  <2>3. QED BY <2>1, <2>2
<1>2. \A S \in SUBSET Tables!Events : IsFiniteSet(S) => S \in Good
  <2> HIDE DEF Good
  <2>1. QED BY <1>1, SizeInduction
<1>3. QED BY <1>2

LEMMA TotalWithout ==
  ASSUME Numbered
  PROVE  \A S \in SUBSET Tables!Events : IsFiniteSet(S) =>
           \A x \in S : Tables!Total(S) = Confidence[x] + Tables!Total(S \ {x})
<1> DEFINE Good == {S \in SUBSET Tables!Events :
                      \A x \in S : Tables!Total(S) = Confidence[x] + Tables!Total(S \ {x})}
<1>1. ASSUME NEW S \in SUBSET Tables!Events, IsFiniteSet(S),
             \A T \in SUBSET Tables!Events :
               IsFiniteSet(T) /\ Cardinality(T) < Cardinality(S) => T \in Good
      PROVE  S \in Good
  <2> SUFFICES ASSUME NEW x \in S
               PROVE  Tables!Total(S) = Confidence[x] + Tables!Total(S \ {x})
    OBVIOUS
  <2> DEFINE c == Chosen(S)
  <2>1. c \in S /\ Tables!Total(S) = Confidence[c] + Tables!Total(S \ {c})
    BY <1>1, ChosenIn, TotalUnfolds
  <2> HIDE DEF c
  <2>2. CASE x = c
    BY <2>1, <2>2
  <2>3. CASE x # c
    <3>1. S \ {c} \in Good /\ S \ {x} \in Good
      BY <1>1, <2>1, OneLess
    <3>2. Tables!Total(S \ {c}) = Confidence[x] + Tables!Total((S \ {c}) \ {x})
      BY <2>3, <3>1
    <3>3. Tables!Total(S \ {x}) = Confidence[c] + Tables!Total((S \ {x}) \ {c})
      BY <2>1, <2>3, <3>1
    <3>4. (S \ {c}) \ {x} = (S \ {x}) \ {c}
      OBVIOUS
    <3>5. /\ Confidence[x] \in Nat /\ Confidence[c] \in Nat
          /\ Tables!Total((S \ {x}) \ {c}) \in Nat
      <4>1. IsFiniteSet((S \ {x}) \ {c})
        BY <1>1, FS_Subset
      <4>2. QED BY <2>1, <4>1, TotalType DEF Numbered
    <3> DEFINE rest == Tables!Total((S \ {x}) \ {c})
    <3>6. Tables!Total(S \ {c}) = Confidence[x] + rest
      BY <3>2, <3>4
    <3>7. rest \in Nat /\ Tables!Total(S \ {x}) = Confidence[c] + rest
      BY <3>3, <3>5
    <3> HIDE DEF rest, Good
    <3>8. Confidence[c] + (Confidence[x] + rest) = Confidence[x] + (Confidence[c] + rest)
      BY <3>5, <3>7
    <3>9. QED BY <2>1, <3>6, <3>7, <3>8
  <2>4. QED BY <2>2, <2>3
<1>2. \A S \in SUBSET Tables!Events : IsFiniteSet(S) => S \in Good
  <2> HIDE DEF Good
  <2>1. QED BY <1>1, SizeInduction
<1>3. QED BY <1>2

\* The sum over two sets of rows is the sum of their sums.
LEMMA TotalOfUnion ==
  ASSUME Numbered, NEW S \in SUBSET Tables!Events, IsFiniteSet(S)
  PROVE  \A T \in SUBSET Tables!Events : IsFiniteSet(T) /\ S \cap T = {} =>
           Tables!Total(S \cup T) = Tables!Total(S) + Tables!Total(T)
<1> DEFINE Good == {T \in SUBSET Tables!Events :
                      S \cap T = {} => Tables!Total(S \cup T) = Tables!Total(S) + Tables!Total(T)}
<1>1. ASSUME NEW T \in SUBSET Tables!Events, IsFiniteSet(T),
             \A U \in SUBSET Tables!Events :
               IsFiniteSet(U) /\ Cardinality(U) < Cardinality(T) => U \in Good
      PROVE  T \in Good
  <2> SUFFICES ASSUME S \cap T = {}
               PROVE  Tables!Total(S \cup T) = Tables!Total(S) + Tables!Total(T)
    OBVIOUS
  <2>1. Tables!Total(S) \in Nat
    BY TotalType
  <2>2. CASE T = {}
    <3>1. S \cup T = S /\ Tables!Total(T) = 0
      BY <2>2, TotalOfNone
    <3>2. QED BY <2>1, <3>1
  <2>3. CASE T # {}
    <3>1. PICK x : x \in T
      BY <2>3
    <3>2. IsFiniteSet(T \ {x}) /\ T \ {x} \in Good
      BY <1>1, <3>1, OneLess
    <3>3. Tables!Total(S \cup (T \ {x})) = Tables!Total(S) + Tables!Total(T \ {x})
      BY <3>2
    <3>4. Tables!Total(T) = Confidence[x] + Tables!Total(T \ {x})
      BY <1>1, <3>1, TotalWithout
    <3>5. Tables!Total(S \cup T) = Confidence[x] + Tables!Total((S \cup T) \ {x})
      <4>1. IsFiniteSet(S \cup T) /\ S \cup T \in SUBSET Tables!Events /\ x \in S \cup T
        BY <1>1, <3>1, FS_Union
      <4>2. QED BY <4>1, TotalWithout
    <3>6. (S \cup T) \ {x} = S \cup (T \ {x})
      BY <3>1
    <3>7. Confidence[x] \in Nat /\ Tables!Total(T \ {x}) \in Nat
      BY <3>1, <3>2, TotalType DEF Numbered
    <3> HIDE DEF Good
    <3>8. QED BY <2>1, <3>3, <3>4, <3>5, <3>6, <3>7
  <2>4. QED BY <2>2, <2>3
<1>2. \A T \in SUBSET Tables!Events : IsFiniteSet(T) => T \in Good
  <2> HIDE DEF Good
  <2>1. QED BY <1>1, SizeInduction
<1>3. QED BY <1>2

-----------------------------------------------------------------------------
(* Summaries *)

\* What Retention assumes of its constants.
TableConstants ==
  /\ Suppressed \cap Passed = {}
  /\ Confidence \in [Tables!Events -> Nat]
  /\ DayLength \in Nat \ {0}
  /\ RawAge \in Nat
  /\ DailyAge \in Nat
  /\ MaxDelay \in 0..RawAge
  /\ MaxTime \in Nat
  /\ MaxFaults \in Nat

\* A row or a group has the number and the average of these events.
Tells(row, R) ==
  row.count = Cardinality(R) /\ row.sum * row.count = row.den * Tables!Total(R)

\* The weighted average: of a, of average s / q, and of n, of sum t.
LEMMA Weighted ==
  ASSUME NEW a \in Nat, NEW s \in Nat, NEW q \in Nat, NEW n \in Nat, NEW t \in Nat, NEW u \in Nat,
         s * a = q * u
  PROVE  (s * a * n + t * n * q) * (a + n) = (q * n * (a + n)) * (u + t)
<1>1. s * a * n + t * n * q = q * u * n + t * n * q
  OBVIOUS
<1>2. q * u * n + t * n * q = (q * n) * (u + t)
  OBVIOUS
<1>3. ((q * n) * (u + t)) * (a + n) = ((q * n) * (a + n)) * (u + t)
  <2> DEFINE x == q * n
             y == u + t
             z == a + n
  <2>1. x \in Nat /\ y \in Nat /\ z \in Nat
    OBVIOUS
  <2> HIDE DEF x, y, z
  <2>2. (x * y) * z = (x * z) * y
    BY <2>1
  <2>3. QED BY <2>2 DEF x, y, z
<1>4. QED BY <1>1, <1>2, <1>3

LEMMA SameSize == \A S : Tables!Cardinality(S) = Cardinality(S)
BY Zenon DEF Tables!Cardinality, Cardinality

LEMMA GroupType ==
  ASSUME TableConstants, NEW R \in SUBSET Tables!Events, IsFiniteSet(R), R # {}
  PROVE  /\ Tables!Group(R) \in Tables!Summary
         /\ Tables!Group(R).count = Cardinality(R)
         /\ Tables!Group(R).den = Cardinality(R)
         /\ Tables!Group(R).sum = Tables!Total(R)
<1>1. Cardinality(R) \in Nat \ {0}
  BY FS_CardinalityType, FS_EmptySet
<1>2. Tables!Total(R) \in Nat
  BY TotalType DEF TableConstants, Numbered
<1> DEFINE n == Cardinality(R)
           t == Tables!Total(R)
<1>3. Tables!Group(R) = [count |-> n, sum |-> t, den |-> n]
  BY SameSize DEF Tables!Group
<1> HIDE DEF n, t
<1>4. /\ Tables!Group(R).count = n
      /\ Tables!Group(R).den = n
      /\ Tables!Group(R).sum = t
  BY <1>3
<1>5. n \in Nat \ {0} /\ t \in Nat
  BY <1>1, <1>2 DEF n, t
<1>6. Tables!Group(R) \in Tables!Summary
  BY <1>3, <1>5 DEF Tables!Summary
<1>7. QED BY <1>4, <1>6 DEF n, t

LEMMA MergeType ==
  ASSUME NEW row \in Tables!Summary, NEW new \in Tables!Summary
  PROVE  Tables!Merge(row, new) \in Tables!Summary
<1> USE DEF Tables!Summary
<1>1. CASE row.count = 0
  BY <1>1 DEF Tables!Merge
<1>2. CASE row.count # 0
  <2> DEFINE a == row.count   s == row.sum   q == row.den
             n == new.count   t == new.sum   p == new.den
  <2>1. a \in Nat \ {0} /\ s \in Nat /\ q \in Nat \ {0} /\ n \in Nat /\ t \in Nat /\ p \in Nat \ {0}
    BY <1>2
  <2>2. Tables!Merge(row, new)
          = [count |-> a + n, sum |-> s * a * p + t * n * q, den |-> q * p * (a + n)]
    BY <1>2 DEF Tables!Merge
  <2> HIDE DEF a, s, q, n, t, p
  <2>3. a + n \in Nat \ {0} /\ s * a * p + t * n * q \in Nat
    <3>1. \A x, y, z \in Nat : x * y * z \in Nat
      OBVIOUS
    <3>2. QED BY <2>1, <3>1
  <2>4. q * p * (a + n) \in Nat \ {0}
    <3>1. \A x, y \in Nat \ {0} : x * y \in Nat \ {0}
      OBVIOUS
    <3>2. q * p \in Nat \ {0}
      BY <2>1, <3>1
    <3>3. QED BY <2>3, <3>1, <3>2
  <2>5. QED BY <2>2, <2>3, <2>4
<1>3. QED BY <1>1, <1>2

\* ON CONFLICT computes the average of all.
LEMMA MergeTells ==
  ASSUME TableConstants, NEW S \in SUBSET Tables!Events, IsFiniteSet(S),
         NEW E \in SUBSET Tables!Events, IsFiniteSet(E), E # {}, S \cap E = {},
         NEW row \in Tables!Summary, Tells(row, S)
  PROVE  Tells(Tables!Merge(row, Tables!Group(E)), S \cup E)
<1> DEFINE new == Tables!Group(E)
           n == Cardinality(E)
           a == Cardinality(S)
           t == Tables!Total(E)
           u == Tables!Total(S)
<1>1. n \in Nat \ {0} /\ a \in Nat /\ t \in Nat /\ u \in Nat
  BY FS_CardinalityType, FS_EmptySet, TotalType DEF TableConstants, Numbered
<1>2. Cardinality(S \cup E) = a + n /\ Tables!Total(S \cup E) = u + t
  <2>1. Cardinality(S \cup E) = a + n - Cardinality({})
    BY FS_Union
  <2>2. Tables!Total(S \cup E) = u + t
    BY TotalOfUnion DEF TableConstants, Numbered
  <2>3. QED BY <1>1, <2>1, <2>2, FS_EmptySet
<1>3. new.count = n /\ new.den = n /\ new.sum = t
  BY GroupType
<1>4. row.count = a /\ row.sum * a = row.den * u /\ row.sum \in Nat /\ row.den \in Nat \ {0}
  BY DEF Tells, Tables!Summary
<1>5. CASE a = 0
  <2>1. S = {} /\ S \cup E = E
    BY <1>5, FS_EmptySet
  <2>2. Tables!Merge(row, new) = new
    BY <1>4, <1>5 DEF Tables!Merge
  <2> HIDE DEF new, n, t
  <2>3. new.sum * new.count = new.den * t
    BY <1>1, <1>3
  <2>4. QED BY <1>3, <2>1, <2>2, <2>3 DEF Tells, n, t, new
<1>6. CASE a # 0
  <2>1. Tables!Merge(row, new)
          = [count |-> a + n, sum |-> row.sum * a * n + t * n * row.den,
             den |-> row.den * n * (a + n)]
    <3> HIDE DEF new, n, a, t
    <3>1. QED BY <1>3, <1>4, <1>6 DEF Tables!Merge
  <2> HIDE DEF new, n, a, t, u
  <2>2. (row.sum * a * n + t * n * row.den) * (a + n) = (row.den * n * (a + n)) * (u + t)
    BY <1>1, <1>4, Weighted
  <2>3. QED BY <1>2, <2>1, <2>2 DEF Tells, new
<1>7. QED BY <1>1, <1>5, <1>6

\* DATE() of a timestamp, and no day comes after that of a later one.
LEMMA Calendar ==
  ASSUME TableConstants
  PROVE  /\ \A t \in Int : Tables!Day(t) \in Int
         /\ \A s, t \in Int : s <= t => Tables!Day(s) <= Tables!Day(t)
         /\ \A t \in Tables!Times : Tables!Day(t) \in Tables!Days
<1>1. DayLength \in Nat \ {0} /\ MaxTime \in Nat
  BY DEF TableConstants
<1>2. ASSUME NEW t \in Int
      PROVE  \E r \in 0..(DayLength - 1) :
               Tables!Day(t) \in Int /\ t = DayLength * Tables!Day(t) + r
  <2> DEFINE q == t \div DayLength
             r == t % DayLength
  <2>1. q \in Int /\ r \in 0..(DayLength - 1) /\ t = DayLength * q + r
    BY <1>1
  <2>2. Tables!Day(t) = q
    BY DEF Tables!Day
  <2> HIDE DEF q, r
  <2>3. QED BY <2>1, <2>2
<1>3. ASSUME NEW s \in Int, NEW t \in Int, s <= t
      PROVE  Tables!Day(s) <= Tables!Day(t)
  <2> DEFINE p == Tables!Day(s)
             q == Tables!Day(t)
  <2>1. PICK a \in 0..(DayLength - 1), b \in 0..(DayLength - 1) :
          /\ p \in Int /\ q \in Int
          /\ s = DayLength * p + a
          /\ t = DayLength * q + b
    <3>1. PICK a \in 0..(DayLength - 1) : p \in Int /\ s = DayLength * p + a
      BY <1>2
    <3>2. PICK b \in 0..(DayLength - 1) : q \in Int /\ t = DayLength * q + b
      BY <1>2
    <3>3. QED BY <3>1, <3>2
  <2> HIDE DEF p, q
  <2>2. SUFFICES ASSUME q < p PROVE FALSE
    BY <2>1 DEF p, q
  <2>3. DayLength * p = DayLength * q + DayLength * (p - q)
    BY <1>1, <2>1
  <2>4. DayLength * (p - q) >= DayLength
    <3>1. \A k \in Nat, j \in Nat \ {0} : j * (k + 1) = j * k + j /\ j * k >= 0
      OBVIOUS
    <3>2. p - q - 1 \in Nat /\ p - q = (p - q - 1) + 1
      BY <2>1, <2>2
    <3>3. DayLength * (p - q) = DayLength * (p - q - 1) + DayLength /\ DayLength * (p - q - 1) >= 0
      BY <1>1, <3>1, <3>2
    <3>4. DayLength * (p - q - 1) \in Int
      BY <1>1, <3>2
    <3>5. QED BY <1>1, <3>3, <3>4
  <2>5. DayLength * p \in Int /\ DayLength * q \in Int /\ DayLength * (p - q) \in Int
    BY <1>1, <2>1
  <2> DEFINE x == DayLength * p
             y == DayLength * q
             z == DayLength * (p - q)
  <2>6. x \in Int /\ y \in Int /\ z \in Int /\ x = y + z /\ z >= DayLength
        /\ s = x + a /\ t = y + b
    BY <2>1, <2>3, <2>4, <2>5
  <2> HIDE DEF x, y, z
  <2>7. QED BY <1>1, <1>3, <2>1, <2>6
<1>4. Tables!Day(0) = 0
  <2>1. 0 \div DayLength = 0
    BY <1>1
  <2>2. QED BY <2>1 DEF Tables!Day
<1>5. ASSUME NEW t \in Tables!Times PROVE Tables!Day(t) \in Tables!Days
  <2>1. t \in Int /\ MaxTime \in Int /\ 0 <= t /\ t <= MaxTime
    BY <1>1 DEF Tables!Times
  <2>2. Tables!Day(t) \in Int /\ Tables!Day(MaxTime) \in Int
    BY <1>2, <2>1
  <2>3. 0 <= Tables!Day(t) /\ Tables!Day(t) <= Tables!Day(MaxTime)
    BY <1>3, <1>4, <2>1
  <2>4. QED BY <2>2, <2>3 DEF Tables!Days
<1>6. QED BY <1>2, <1>3, <1>5

\* The rows of a day.
On(R, d) == {e \in R : Tables!Day(at[e]) = d}

\* The rows of a day that the cycle counts and purges.
Old(d) == On(Tables!Expired(raw, cutoff), d)

Made == {e \in Tables!Events : at[e] # Tables!NoTime}

\* The fetched groups are those of the rows that are old now, one for each day.
LEMMA GroupsAre ==
  ASSUME TableConstants, Tables!TypeOK, NEW R \in SUBSET Made, IsFiniteSet(R)
  PROVE  /\ \A g \in Tables!GroupsOf(R) :
              /\ g[1] \in Tables!Days /\ g[2] \in Tables!Summary /\ g = <<g[1], g[2]>>
              /\ On(R, g[1]) # {} /\ g[2] = Tables!Group(On(R, g[1]))
         /\ \A d : On(R, d) # {} => \E g \in Tables!GroupsOf(R) : g[1] = d
<1>1. \A e \in R : e \in Tables!Events /\ at[e] \in Tables!Times
  BY DEF Made, Tables!TypeOK
<1>2. ASSUME NEW g \in Tables!GroupsOf(R)
      PROVE  /\ g[1] \in Tables!Days /\ g[2] \in Tables!Summary /\ g = <<g[1], g[2]>>
             /\ On(R, g[1]) # {} /\ g[2] = Tables!Group(On(R, g[1]))
  <2>1. PICK e \in R : g = <<Tables!Day(at[e]), Tables!Group(On(R, Tables!Day(at[e])))>>
    BY DEF Tables!GroupsOf, On
  <2> DEFINE d == Tables!Day(at[e])
             S == On(R, d)
  <2>2. d \in Tables!Days /\ e \in S
    BY <1>1, Calendar DEF On
  <2>3. S \in SUBSET Tables!Events /\ S \subseteq R
    BY <1>1 DEF On
  <2>4. IsFiniteSet(S)
    BY <2>3, FS_Subset
  <2>5. Tables!Group(S) \in Tables!Summary
    BY <2>2, <2>3, <2>4, GroupType
  <2> HIDE DEF d, S
  <2>6. g = <<d, Tables!Group(S)>>
    BY <2>1 DEF d, S
  <2>7. g[1] = d /\ g[2] = Tables!Group(S)
    BY <2>6
  <2>8. On(R, g[1]) = S
    BY <2>7 DEF S
  <2>9. QED BY <2>2, <2>5, <2>6, <2>7, <2>8
<1>3. ASSUME NEW d, On(R, d) # {}
      PROVE  \E g \in Tables!GroupsOf(R) : g[1] = d
  <2>1. PICK e \in R : Tables!Day(at[e]) = d
    BY <1>3 DEF On
  <2>2. <<d, Tables!Group(On(R, d))>> \in Tables!GroupsOf(R)
    BY <2>1 DEF Tables!GroupsOf, On
  <2>3. QED BY <2>2
<1>4. QED BY <1>2, <1>3

Fine(d) == Tells(daily[d], Tables!Counted(d))

\* The old rows are counted and not purged yet.
Ahead(d) == Tells(daily[d], Tables!Counted(d) \cup Old(d))

\* A crash would change nothing.
Synced(d) == savedDaily[d] = daily[d] /\ savedRaw \cap Tables!MadeOn(d) \subseteq raw

ToCome(d) == \E g \in groups : g[1] = d

\* What a day's summary has counted, at each statement of a cycle.
InStep(d) ==
  /\ step \in {"idle", "drop", "commitDrop", "orphans"} => Fine(d) /\ Synced(d)
  /\ step = "upsert" =>
       IF Old(d) = {} THEN Fine(d) /\ Synced(d)
       ELSE IF ToCome(d) THEN Fine(d) ELSE Ahead(d)
  /\ step = "purge" => Ahead(d) /\ Synced(d)
  /\ step = "commitPurge" =>
       /\ Fine(d)
       /\ savedDaily[d] = daily[d]
       /\ \A e \in savedRaw \cap Tables!MadeOn(d) : e \in raw \/ at[e] < cutoff

Undisturbed(d) == d \in Tables!Days /\ d \notin disturbed /\ ~Tables!Outdated(d)

Fetched == groups \subseteq Tables!GroupsOf(Tables!Expired(raw, cutoff))

Clocked == cutoff <= now - RawAge /\ (step # "idle" => cutoff = now - RawAge)

TableTypes == Tables!TypeOK /\ IsFiniteSet(Made) /\ Fetched /\ Clocked

TableInv == TableTypes /\ \A d : Undisturbed(d) => InStep(d)

LEMMA TablesInit == ASSUME TableConstants PROVE Tables!Init => TableInv
<1> SUFFICES ASSUME Tables!Init PROVE TableInv
  OBVIOUS
<1>1. Made = {}
  BY DEF Made, Tables!Init
<1>2. 0 \in Tables!Times /\ -RawAge \in (-RawAge)..MaxTime
  BY DEF TableConstants, Tables!Times
<1>3. Tables!NoRow \in Tables!Summary
  BY DEF Tables!NoRow, Tables!Summary
<1>4. Tables!TypeOK
  BY <1>2, <1>3 DEF Tables!Init, Tables!TypeOK, Tables!Times
<1>5. TableTypes
  BY <1>1, <1>4, FS_EmptySet DEF Tables!Init, TableTypes, Fetched, Clocked, TableConstants
<1>6. ASSUME NEW d \in Tables!Days PROVE InStep(d)
  <2>1. Tables!Counted(d) = {} /\ Tables!MadeOn(d) = {}
    BY DEF Tables!Init, Tables!Counted, Tables!MadeOn
  <2>2. daily[d] = Tables!NoRow /\ savedDaily[d] = Tables!NoRow /\ savedRaw = {} /\ step = "idle"
    BY DEF Tables!Init
  <2>3. Fine(d)
    BY <2>1, <2>2, TotalOfNone, FS_EmptySet DEF Fine, Tells, Tables!NoRow
  <2>4. QED BY <2>2, <2>3 DEF InStep, Synced
<1>7. QED BY <1>5, <1>6 DEF TableInv, Undisturbed

-----------------------------------------------------------------------------
(* The types, and the clock and the groups of the cycle *)

LEMMA Expiring ==
  ASSUME TableConstants, TableTypes
  PROVE  /\ Tables!Expired(raw, cutoff) \in SUBSET Made
         /\ IsFiniteSet(Tables!Expired(raw, cutoff))
         /\ raw \in SUBSET Made /\ savedRaw \in SUBSET Made
         /\ \A d : Old(d) \subseteq Tables!Expired(raw, cutoff)
         /\ \A e \in Made : at[e] \in Tables!Times /\ at[e] \in Int
<1>1. raw \in SUBSET Made /\ savedRaw \in SUBSET Made
  BY DEF TableTypes, Tables!TypeOK, Made
<1>2. Tables!Expired(raw, cutoff) \in SUBSET Made
  BY <1>1 DEF Tables!Expired
<1>3. IsFiniteSet(Tables!Expired(raw, cutoff))
  BY <1>2, FS_Subset DEF TableTypes
<1>4. \A e \in Made : at[e] \in Tables!Times /\ at[e] \in Int
  BY DEF TableTypes, Tables!TypeOK, Made, Tables!Times, TableConstants
<1>5. QED BY <1>1, <1>2, <1>3, <1>4 DEF Old, On

\* A new row is too young for the cycle, which takes no notice of it.
LEMMA RowInserted ==
  ASSUME TableConstants, TableTypes, NEW e \in Tables!Events, Tables!InsertRow(e),
         now' = now, cutoff' = cutoff
  PROVE  /\ at' \in [Tables!Events -> Tables!Times \cup {Tables!NoTime}]
         /\ at'[e] \in Tables!Times /\ at'[e] >= cutoff
         /\ Made' = Made \cup {e} /\ IsFiniteSet(Made') /\ e \notin Made
         /\ raw' = raw \cup {e}
         /\ \A x \in Made : at'[x] = at[x]
<1>1. /\ at \in [Tables!Events -> Tables!Times \cup {Tables!NoTime}] /\ at[e] = Tables!NoTime
      /\ raw' = raw \cup {e} /\ now \in Tables!Times /\ IsFiniteSet(Made)
  BY DEF TableTypes, Tables!TypeOK, Tables!InsertRow
<1>2. PICK delay \in 0..MaxDelay : delay <= now /\ at' = [at EXCEPT ![e] = now - delay]
  BY DEF Tables!InsertRow
<1>3. now - delay \in Tables!Times /\ now - delay >= cutoff
  BY <1>1, <1>2 DEF TableTypes, Clocked, Tables!Times, TableConstants, Tables!TypeOK
<1>4. /\ at' \in [Tables!Events -> Tables!Times \cup {Tables!NoTime}] /\ at'[e] = now - delay
      /\ \A x \in Tables!Events \ {e} : at'[x] = at[x]
  BY <1>1, <1>2, <1>3
<1>5. e \notin Made
  BY <1>1 DEF Made
<1>6. Made' = Made \cup {e}
  <2>1. now - delay # Tables!NoTime
    BY <1>3 DEF Tables!Times, Tables!NoTime, TableConstants
  <2>2. QED BY <1>1, <1>4, <2>1 DEF Made
<1>7. IsFiniteSet(Made \cup {e})
  BY <1>1, FS_AddElement
<1>8. \A x \in Made : x \in Tables!Events \ {e}
  BY <1>5 DEF Made
<1>9. QED BY <1>1, <1>3, <1>4, <1>5, <1>6, <1>7, <1>8

\* It changes neither the groups, nor a day's old or counted rows.
LEMMA RowIgnored ==
  ASSUME TableConstants, TableTypes, NEW e \in Tables!Events, Tables!InsertRow(e),
         now' = now, cutoff' = cutoff
  PROVE  /\ Tables!GroupsOf(Tables!Expired(raw, cutoff))' = Tables!GroupsOf(Tables!Expired(raw, cutoff))
         /\ \A d : /\ Old(d)' = Old(d)
                   /\ Tables!Counted(d)' = Tables!Counted(d)
                   /\ savedRaw \cap Tables!MadeOn(d)' = savedRaw \cap Tables!MadeOn(d)
<1> DEFINE S == Tables!Expired(raw, cutoff)
<1>1. /\ at'[e] \in Tables!Times /\ at'[e] >= cutoff
      /\ Made' = Made \cup {e} /\ e \notin Made
      /\ raw' = raw \cup {e}
      /\ \A x \in Made : at'[x] = at[x]
  BY RowInserted
<1>2. /\ S \in SUBSET Made /\ raw \in SUBSET Made /\ savedRaw \in SUBSET Made
      /\ \A x \in Made : at[x] \in Int
      /\ cutoff \in Int
  BY Expiring DEF TableTypes, Tables!TypeOK, TableConstants
<1>3. S' = S
  <2>1. at'[e] \in Int
    BY <1>1 DEF Tables!Times, TableConstants
  <2>2. \A x \in raw' : at'[x] < cutoff' <=> x \in raw /\ at[x] < cutoff
    BY <1>1, <1>2, <2>1
  <2>3. QED BY <2>2, <1>1 DEF Tables!Expired
<1>4. \A x \in S : Tables!Day(at[x])' = Tables!Day(at[x])
  BY <1>1, <1>2 DEF Tables!Day
<1>5. \A d : On(S, d)' = On(S, d)
  BY <1>3, <1>4 DEF On, Tables!Day
<1>6. Tables!GroupsOf(S)' = Tables!GroupsOf(S)
  <2>1. \A x \in S : at'[x] = at[x]
    BY <1>1, <1>2
  <2> HIDE DEF S
  <2>2. {Tables!Day(at[x]) : x \in S}' = {Tables!Day(at[x]) : x \in S}
    BY <1>3, <2>1 DEF Tables!Day
  <2> DEFINE D == {Tables!Day(at[x]) : x \in S}
  <2>3. Tables!GroupsOf(S) = {<<d, Tables!Group(On(S, d))>> : d \in D}
    BY DEF Tables!GroupsOf, On
  <2>4. Tables!GroupsOf(S)' = {<<d, Tables!Group(On(S, d)')>> : d \in D'}
    BY DEF Tables!GroupsOf, On, Tables!Group
  <2> HIDE DEF D
  <2>5. D' = D
    BY <2>2 DEF D
  <2>6. \A d : Tables!Group(On(S, d)') = Tables!Group(On(S, d))
    BY <1>5
  <2>7. {<<d, Tables!Group(On(S, d)')>> : d \in D'} = {<<d, Tables!Group(On(S, d))>> : d \in D}
    BY <2>5, <2>6
  <2>8. QED BY <2>3, <2>4, <2>7
<1>7. ASSUME NEW d
      PROVE  /\ Old(d)' = Old(d)
             /\ Tables!Counted(d)' = Tables!Counted(d)
             /\ savedRaw \cap Tables!MadeOn(d)' = savedRaw \cap Tables!MadeOn(d)
  <2>1. Old(d)' = Old(d)
    BY <1>5 DEF Old
  <2>2. \A x \in Made : x \in Tables!MadeOn(d)' <=> x \in Tables!MadeOn(d)
    BY <1>1 DEF Made, Tables!MadeOn, Tables!Day
  <2>3. Tables!MadeOn(d)' \subseteq Made \cup {e} /\ Tables!MadeOn(d) \subseteq Made
    BY <1>1 DEF Made, Tables!MadeOn
  <2>4. QED BY <1>1, <1>2, <2>1, <2>2, <2>3 DEF Tables!Counted
<1>8. QED BY <1>6, <1>7

\* What leaves the events and the clock alone.
LEMMA SameEvents ==
  ASSUME at' = at, raw' = raw, cutoff' = cutoff
  PROVE  /\ Made' = Made
         /\ Tables!Expired(raw, cutoff)' = Tables!Expired(raw, cutoff)
         /\ Tables!GroupsOf(Tables!Expired(raw, cutoff))' = Tables!GroupsOf(Tables!Expired(raw, cutoff))
         /\ \A d : /\ Tables!Counted(d)' = Tables!Counted(d)
                   /\ Tables!MadeOn(d)' = Tables!MadeOn(d)
                   /\ Old(d)' = Old(d)
                   /\ Tables!Outdated(d)' <=> Tables!Outdated(d)
BY DEF Made, Tables!Expired, Tables!GroupsOf, Tables!Counted, Tables!MadeOn, Old, On, Tables!Day,
       Tables!Outdated, Tables!Group

LEMMA OthersTyped ==
  ASSUME TableConstants, TableTypes, Tables!Others
  PROVE  TableTypes'
<1> USE DEF TableConstants
<1>1. Tables!TypeOK /\ Fetched /\ Clocked /\ IsFiniteSet(Made)
  BY DEF TableTypes
<1>2. ASSUME NEW e \in Tables!Events, Tables!InsertRow(e), now' = now, cutoff' = cutoff,
             groups' = groups, step' = step, daily' = daily, revived' = revived, disturbed' = disturbed,
             failures' \in Nat, inserting' \in BOOLEAN,
             embeddings' \subseteq Passed,
             \/ savedRaw' = savedRaw /\ savedDaily' = savedDaily
             \/ savedRaw' = raw' /\ savedDaily' = daily'
      PROVE  TableTypes'
  <2>1. /\ at' \in [Tables!Events -> Tables!Times \cup {Tables!NoTime}]
        /\ Made' = Made \cup {e} /\ IsFiniteSet(Made')
        /\ raw' = raw \cup {e}
    BY <1>2, RowInserted
  <2>2. Tables!GroupsOf(Tables!Expired(raw, cutoff))' = Tables!GroupsOf(Tables!Expired(raw, cutoff))
    BY <1>2, RowIgnored
  <2>3. raw \subseteq Made /\ savedRaw \subseteq Made
    BY Expiring
  <2>4. raw' \subseteq Made' /\ savedRaw' \subseteq Made'
    BY <1>2, <2>1, <2>3
  <2>5. Tables!TypeOK'
    BY <1>1, <1>2, <2>1, <2>4 DEF Tables!TypeOK, Made
  <2>6. Fetched' /\ Clocked'
    BY <1>1, <1>2, <2>2 DEF Fetched, Clocked
  <2>7. QED BY <2>1, <2>5, <2>6 DEF TableTypes
<1>3. ASSUME NEW e \in Suppressed, Tables!Insert(e) PROVE TableTypes'
  BY <1>1, <1>2, <1>3 DEF Tables!Insert, Tables!file, Tables!Events, Tables!TypeOK
<1>4. ASSUME NEW e \in Passed, Tables!EmbedAndLog(e) PROVE TableTypes'
  <2>1. failures' \in Nat
    BY <1>1, <1>4 DEF Tables!EmbedAndLog, Tables!TypeOK
  <2>2. QED BY <1>1, <1>2, <1>4, <2>1 DEF Tables!EmbedAndLog, Tables!file, Tables!Events, Tables!TypeOK
<1>5. ASSUME at' = at, raw' = raw, daily' = daily, cutoff' = cutoff, now' = now, groups' = groups,
             step' = step, disturbed' = disturbed, revived' = revived, inserting' \in BOOLEAN,
             failures' \in Nat, embeddings' \subseteq Passed,
             \/ savedRaw' = savedRaw /\ savedDaily' = savedDaily
             \/ savedRaw' = raw /\ savedDaily' = daily
      PROVE  TableTypes'
  <2>1. Tables!TypeOK'
    BY <1>1, <1>5 DEF Tables!TypeOK
  <2>2. QED BY <1>1, <1>5, <2>1, SameEvents DEF TableTypes, Fetched, Clocked
<1>6. CASE Tables!CommitInsert
  BY <1>1, <1>5, <1>6 DEF Tables!CommitInsert, Tables!history, Tables!TypeOK
<1>7. CASE Tables!CommitInsertFails
  <2>1. failures' \in Nat /\ embeddings \subseteq Passed
    BY <1>1, <1>7 DEF Tables!CommitInsertFails, Tables!TypeOK
  <2>2. QED BY <1>5, <1>7, <2>1 DEF Tables!CommitInsertFails, Tables!history, Tables!file
<1>8. ASSUME NEW e \in Passed, Tables!Embed(e) PROVE TableTypes'
  BY <1>1, <1>5, <1>8 DEF Tables!Embed, Tables!history, Tables!file, Tables!TypeOK
<1>9. QED BY <1>3, <1>4, <1>6, <1>7, <1>8 DEF Tables!Others

LEMMA CycleTyped ==
  ASSUME TableConstants, TableTypes, Tables!Cycle
  PROVE  TableTypes'
<1>1. Tables!TypeOK /\ Fetched /\ Clocked /\ IsFiniteSet(Made)
  BY DEF TableTypes
<1>2. CASE Tables!BeginCycle
  <2>1. /\ at' = at /\ raw' = raw /\ now' = now /\ cutoff' = now - RawAge /\ step' = "upsert"
        /\ groups' = Tables!GroupsOf(Tables!Expired(raw, cutoff'))
    BY <1>2 DEF Tables!BeginCycle, Tables!history
  <2>2. Made' = Made
    BY <2>1 DEF Made
  <2>3. Tables!GroupsOf(Tables!Expired(raw, cutoff))' = groups'
    BY <2>1 DEF Tables!GroupsOf, Tables!Expired, Tables!Day, Tables!Group
  <2> DEFINE S == Tables!Expired(raw, cutoff')
  <2>4. S \in SUBSET Made /\ IsFiniteSet(S)
    <3>1. S \subseteq raw /\ raw \subseteq Made
      BY Expiring DEF Tables!Expired
    <3>2. QED BY <1>1, <3>1, FS_Subset
  <2>5. groups' \subseteq Tables!Days \X Tables!Summary
    <3>1. \A g \in Tables!GroupsOf(S) :
            g[1] \in Tables!Days /\ g[2] \in Tables!Summary /\ g = <<g[1], g[2]>>
      BY <1>1, <2>4, GroupsAre
    <3>2. QED BY <2>1, <3>1
  <2>6. cutoff' \in (-RawAge)..MaxTime
    BY <1>1, <2>1 DEF Tables!TypeOK, Tables!Times, TableConstants
  <2>7. Tables!TypeOK'
    BY <1>1, <1>2, <2>1, <2>5, <2>6 DEF Tables!BeginCycle, Tables!TypeOK, Tables!file, Tables!history
  <2>8. Clocked'
    BY <1>1, <2>1 DEF Clocked, Tables!TypeOK, Tables!Times, TableConstants
  <2>9. QED BY <1>1, <2>2, <2>3, <2>7, <2>8 DEF TableTypes, Fetched
<1>3. CASE Tables!Upsert
  <2>1. PICK g \in groups : /\ daily' = [daily EXCEPT ![g[1]] = Tables!Merge(@, g[2])]
                            /\ groups' = groups \ {g}
    BY <1>3 DEF Tables!Upsert
  <2>2. /\ UNCHANGED <<now, at, disturbed, revived, raw, savedRaw, savedDaily, embeddings, inserting,
                       step, cutoff, failures>>
        /\ step = "upsert"
    BY <1>3 DEF Tables!Upsert, Tables!history, Tables!file
  <2>3. daily' \in [Tables!Days -> Tables!Summary]
    <3>1. g[1] \in Tables!Days /\ g[2] \in Tables!Summary /\ daily \in [Tables!Days -> Tables!Summary]
      BY <1>1 DEF Tables!TypeOK
    <3>2. Tables!Merge(daily[g[1]], g[2]) \in Tables!Summary
      BY <3>1, MergeType
    <3>3. QED BY <2>1, <3>1, <3>2
  <2>4. Tables!TypeOK'
    BY <1>1, <2>1, <2>2, <2>3 DEF Tables!TypeOK
  <2>5. QED BY <1>1, <2>1, <2>2, <2>4, SameEvents DEF TableTypes, Fetched, Clocked
<1>4. CASE Tables!CommitUpserts \/ Tables!CommitPurge \/ Tables!CommitDrop \/ Tables!PurgeOrphans
  <2>1. /\ UNCHANGED <<now, at, disturbed, revived, raw, daily, inserting, cutoff, groups, failures>>
        /\ groups = {} /\ step # "idle"
        /\ embeddings' \subseteq Passed
        /\ step' \in {"purge", "drop", "orphans", "idle"}
        /\ \/ savedRaw' = savedRaw /\ savedDaily' = savedDaily
           \/ savedRaw' = raw /\ savedDaily' = daily
    BY <1>1, <1>4 DEF Tables!CommitUpserts, Tables!CommitPurge, Tables!CommitDrop, Tables!PurgeOrphans,
                      Tables!Commit, Tables!history, Tables!file, Tables!TypeOK
  <2>2. Tables!TypeOK'
    BY <1>1, <2>1 DEF Tables!TypeOK
  <2>3. QED BY <1>1, <2>1, <2>2, SameEvents DEF TableTypes, Fetched, Clocked
<1>5. CASE Tables!Purge
  <2>1. /\ UNCHANGED <<now, at, disturbed, revived, daily, savedRaw, savedDaily, embeddings, inserting,
                       cutoff, groups, failures>>
        /\ groups = {} /\ step = "purge" /\ step' = "commitPurge"
        /\ raw' \subseteq raw
    BY <1>1, <1>5 DEF Tables!Purge, Tables!history, Tables!file, Tables!TypeOK
  <2>2. Tables!TypeOK'
    BY <1>1, <2>1 DEF Tables!TypeOK
  <2>3. Made' = Made
    BY <2>1 DEF Made
  <2>4. QED BY <1>1, <2>1, <2>2, <2>3 DEF TableTypes, Fetched, Clocked
<1>6. CASE Tables!Drop
  <2>1. /\ UNCHANGED <<now, at, disturbed, revived, raw, savedRaw, savedDaily, embeddings, inserting,
                       cutoff, groups, failures>>
        /\ groups = {} /\ step = "drop" /\ step' = "commitDrop"
    BY <1>1, <1>6 DEF Tables!Drop, Tables!history, Tables!file, Tables!TypeOK
  <2>2. daily' \in [Tables!Days -> Tables!Summary]
    BY <1>1, <1>6 DEF Tables!Drop, Tables!TypeOK, Tables!NoRow, Tables!Summary
  <2>3. Tables!TypeOK'
    BY <1>1, <2>1, <2>2 DEF Tables!TypeOK
  <2>4. QED BY <1>1, <2>1, <2>3, SameEvents DEF TableTypes, Fetched, Clocked
<1>7. QED BY <1>2, <1>3, <1>4, <1>5, <1>6 DEF Tables!Cycle

\* An exception leads to a later statement of the cycle, or out of it.
LEMMA GoesOn ==
  ASSUME Tables!StatementFails, Tables!TypeOK
  PROVE  \/ step = "upsert" /\ step' = "purge"
         \/ step \in {"purge", "commitPurge"} /\ step' = "drop"
         \/ step \in {"drop", "commitDrop"} /\ step' = "orphans"
         \/ step = "orphans" /\ step' = "idle"
BY DEF Tables!StatementFails, Tables!AfterFailure, Tables!TypeOK

LEMMA TablesTyped ==
  ASSUME TableConstants, TableTypes, [Tables!Next]_(Tables!vars)
  PROVE  TableTypes'
<1>1. Tables!TypeOK /\ Fetched /\ Clocked /\ IsFiniteSet(Made)
  BY DEF TableTypes
<1>2. CASE Tables!Tick
  <2>1. /\ UNCHANGED <<at, disturbed, revived, raw, daily, savedRaw, savedDaily, embeddings, inserting,
                       step, cutoff, groups, failures>>
        /\ step = "idle" /\ now' = now + 1 /\ now' \in Tables!Times
    BY <1>1, <1>2
       DEF Tables!Tick, Tables!history, Tables!file, Tables!TypeOK, Tables!Times, TableConstants
  <2>2. Tables!TypeOK'
    BY <1>1, <2>1 DEF Tables!TypeOK
  <2>3. Clocked'
    BY <1>1, <2>1 DEF Clocked, Tables!TypeOK, Tables!Times, TableConstants
  <2>4. QED BY <1>1, <2>1, <2>2, <2>3, SameEvents DEF TableTypes, Fetched
<1>3. CASE Tables!StatementFails
  <2>1. /\ UNCHANGED <<now, at, revived, raw, daily, savedRaw, savedDaily, embeddings, inserting, cutoff>>
        /\ groups' = {} /\ disturbed' = disturbed \cup Tables!AtStake
        /\ step # "idle" /\ failures' \in Nat
    BY <1>1, <1>3 DEF Tables!StatementFails, Tables!file, Tables!TypeOK
  <2>2. Tables!AtStake \subseteq Tables!Days
    <3>1. \A e \in raw \cup savedRaw : Tables!Day(at[e]) \in Tables!Days
      BY Expiring, Calendar
    <3>2. QED BY <3>1 DEF Tables!AtStake, Tables!Expired
  <2>3. Tables!TypeOK'
    BY <1>1, <1>3, <2>1, <2>2, GoesOn DEF Tables!TypeOK
  <2>4. QED BY <1>1, <2>1, <2>3, SameEvents DEF TableTypes, Fetched, Clocked
<1>4. CASE Tables!Restart
  <2>1. /\ UNCHANGED <<now, savedRaw, savedDaily, embeddings, cutoff>>
        /\ raw' = savedRaw /\ daily' = savedDaily /\ inserting' = FALSE /\ step' = "idle" /\ groups' = {}
        /\ at' = [e \in Tables!Events |-> IF e \in raw \ savedRaw THEN Tables!NoTime ELSE at[e]]
        /\ failures' \in Nat
        /\ revived' = revived \cup (savedRaw \ raw)
        /\ disturbed' = disturbed \cup (IF step = "idle" THEN {} ELSE Tables!AtStake)
    BY <1>1, <1>4 DEF Tables!Restart, Tables!file, Tables!TypeOK
  <2>2. Tables!AtStake \subseteq Tables!Days
    <3>1. \A e \in raw \cup savedRaw : Tables!Day(at[e]) \in Tables!Days
      BY Expiring, Calendar
    <3>2. QED BY <3>1 DEF Tables!AtStake, Tables!Expired
  <2>3. Made' = Made \ (raw \ savedRaw)
    BY <2>1 DEF Made
  <2>4. savedRaw \subseteq Made /\ savedRaw \subseteq Tables!Events
    BY Expiring DEF Made
  <2>5. at' \in [Tables!Events -> Tables!Times \cup {Tables!NoTime}]
    BY <1>1, <2>1 DEF Tables!TypeOK
  <2>6. savedRaw \subseteq Made'
    BY <2>3, <2>4
  <2>7. Tables!TypeOK'
    BY <1>1, <2>1, <2>2, <2>4, <2>5, <2>6 DEF Tables!TypeOK, Made
  <2>8. IsFiniteSet(Made')
    BY <1>1, <2>3, FS_Subset
  <2>9. QED BY <1>1, <2>1, <2>7, <2>8 DEF TableTypes, Fetched, Clocked
<1>5. CASE UNCHANGED Tables!vars
  <2>1. UNCHANGED <<now, at, raw, daily, savedRaw, savedDaily, embeddings, inserting, step, cutoff,
                    groups, failures, disturbed, revived>>
    BY <1>5 DEF Tables!vars
  <2>2. Tables!TypeOK'
    BY <1>1, <2>1 DEF Tables!TypeOK
  <2>3. QED BY <1>1, <2>1, <2>2, SameEvents DEF TableTypes, Fetched, Clocked
<1>6. QED BY <1>2, <1>3, <1>4, <1>5, OthersTyped, CycleTyped DEF Tables!Next

-----------------------------------------------------------------------------
(* What the summaries have counted *)

LEMMA SameTells ==
  ASSUME NEW d, daily'[d] = daily[d]
  PROVE  /\ Tables!Counted(d)' = Tables!Counted(d) => (Fine(d)' <=> Fine(d))
         /\ Tables!Counted(d)' = Tables!Counted(d) /\ Old(d)' = Old(d) => (Ahead(d)' <=> Ahead(d))
BY DEF Fine, Ahead, Tells

LEMMA StillUndisturbed ==
  ASSUME NEW d, Undisturbed(d)', cutoff' = cutoff, disturbed \subseteq disturbed'
  PROVE  Undisturbed(d)
BY DEF Undisturbed, Tables!Outdated, Tables!Days, Tables!Day

\* An old row, in the file or in the transaction, puts its day at stake.
LEMMA Settled ==
  ASSUME TableConstants, TableInv, NEW d, Undisturbed(d), step = "idle" \/ d \notin Tables!AtStake
  PROVE  Fine(d) /\ Synced(d)
<1>1. InStep(d)
  BY DEF TableInv
<1>2. CASE step = "idle"
  BY <1>1, <1>2 DEF InStep
<1>3. CASE step # "idle"
  <2>1. \A e \in raw \cup savedRaw : Tables!Day(at[e]) = d => ~(at[e] < cutoff)
    BY <1>3 DEF Tables!AtStake, Tables!Expired
  <2>2. Old(d) = {}
    BY <2>1 DEF Old, On, Tables!Expired
  <2>3. Ahead(d) => Fine(d)
    <3>1. Tables!Counted(d) \cup Old(d) = Tables!Counted(d)
      BY <2>2
    <3>2. QED BY <3>1 DEF Ahead, Fine
  <2>4. CASE step \in {"upsert", "purge", "drop", "commitDrop", "orphans"}
    BY <1>1, <2>2, <2>3, <2>4 DEF InStep
  <2>5. CASE step = "commitPurge"
    <3>1. Fine(d) /\ savedDaily[d] = daily[d]
          /\ \A e \in savedRaw \cap Tables!MadeOn(d) : e \in raw \/ at[e] < cutoff
      BY <1>1, <2>5 DEF InStep
    <3>2. \A e \in Tables!MadeOn(d) : Tables!Day(at[e]) = d
      BY DEF Tables!MadeOn
    <3>3. QED BY <2>1, <3>1, <3>2 DEF Synced
  <2>6. step \in {"idle", "upsert", "purge", "commitPurge", "drop", "commitDrop", "orphans"}
    BY DEF TableInv, TableTypes, Tables!TypeOK
  <2>7. QED BY <1>3, <2>4, <2>5, <2>6
<1>4. QED BY <1>2, <1>3

LEMMA OthersCount ==
  ASSUME TableConstants, TableInv, Tables!Others, NEW d, Undisturbed(d)'
  PROVE  InStep(d)'
<1>1. /\ UNCHANGED <<now, daily, step, cutoff, groups, disturbed>>
      /\ \/ savedRaw' = savedRaw /\ savedDaily' = savedDaily
         \/ savedRaw' = raw' /\ savedDaily' = daily'
      /\ \/ UNCHANGED <<at, raw>>
         \/ \E e \in Tables!Events : Tables!InsertRow(e)
  BY DEF Tables!Others, Tables!Insert, Tables!CommitInsert, Tables!CommitInsertFails,
         Tables!EmbedAndLog, Tables!Embed, Tables!history, Tables!file, Tables!Events
<1>2. Undisturbed(d) /\ InStep(d) /\ TableTypes
  BY <1>1, StillUndisturbed DEF TableInv
<1>3. /\ Old(d)' = Old(d)
      /\ Tables!Counted(d)' = Tables!Counted(d)
      /\ savedRaw \cap Tables!MadeOn(d)' = savedRaw \cap Tables!MadeOn(d)
  BY <1>1, <1>2, SameEvents, RowIgnored
<1>4. raw \subseteq raw'
  BY <1>1 DEF Tables!InsertRow
<1>5. (Fine(d)' <=> Fine(d)) /\ (Ahead(d)' <=> Ahead(d)) /\ (ToCome(d)' <=> ToCome(d))
  <2>1. daily'[d] = daily[d]
    BY <1>1
  <2>2. QED BY <1>1, <1>3, <2>1, SameTells DEF ToCome
<1>6. Synced(d) => Synced(d)'
  BY <1>1, <1>3, <1>4 DEF Synced
<1>7. ASSUME savedDaily[d] = daily[d],
             \A e \in savedRaw \cap Tables!MadeOn(d) : e \in raw \/ at[e] < cutoff
      PROVE  /\ savedDaily'[d] = daily'[d]
             /\ \A e \in savedRaw' \cap Tables!MadeOn(d)' : e \in raw' \/ at'[e] < cutoff'
  <2>1. \A e \in savedRaw : at'[e] = at[e]
    <3>1. CASE at' = at
      BY <3>1
    <3>2. CASE \E e \in Tables!Events : Tables!InsertRow(e)
      <4>1. PICK e \in Tables!Events : Tables!InsertRow(e)
        BY <3>2
      <4>2. \A x \in Made : at'[x] = at[x]
        BY <1>1, <1>2, <4>1, RowInserted
      <4>3. QED BY <1>2, <4>2, Expiring
    <3>3. QED BY <1>1, <3>1, <3>2
  <2>2. QED BY <1>1, <1>3, <1>4, <1>7, <2>1
<1>8. QED BY <1>1, <1>2, <1>3, <1>5, <1>6, <1>7 DEF InStep

\* A cycle begins: the rows it is to count are its groups.  No day is judged anew.
LEMMA BeginCounts ==
  ASSUME TableConstants, TableInv, Tables!BeginCycle, NEW d, Undisturbed(d)'
  PROVE  InStep(d)'
<1>1. /\ UNCHANGED <<at, raw, daily, savedRaw, savedDaily, disturbed>>
      /\ step = "idle" /\ step' = "upsert"
      /\ cutoff' = now - RawAge
      /\ groups' = Tables!GroupsOf(Tables!Expired(raw, cutoff'))
  BY DEF Tables!BeginCycle, Tables!history, Tables!file
<1>2. Undisturbed(d)
  <2> DEFINE old == cutoff + RawAge - DailyAge
             new == cutoff' + RawAge - DailyAge
  <2>1. old \in Int /\ new \in Int /\ old <= new
    BY <1>1 DEF TableConstants, TableInv, TableTypes, Clocked, Tables!TypeOK, Tables!Times
  <2>2. Tables!Day(old) \in Int /\ Tables!Day(new) \in Int /\ Tables!Day(old) <= Tables!Day(new)
    <3> HIDE DEF old, new
    <3>1. QED BY <2>1, Calendar
  <2>3. d \in Tables!Days /\ d \notin disturbed
    BY <1>1 DEF Undisturbed, Tables!Days, Tables!Day
  <2>4. d \in Int
    <3>1. Tables!Day(MaxTime) \in Int
      BY Calendar DEF TableConstants
    <3>2. QED BY <2>3, <3>1 DEF Tables!Days
  <2>5. ~(d < Tables!Day(new))
    BY <1>1 DEF Undisturbed, Tables!Outdated, Tables!Day
  <2> HIDE DEF old, new
  <2>6. ~(d < Tables!Day(old))
    BY <2>2, <2>4, <2>5
  <2>7. QED BY <2>3, <2>6 DEF Undisturbed, Tables!Outdated, old
<1>3. Fine(d) /\ Synced(d)
  BY <1>1, <1>2 DEF TableInv, InStep
<1>4. Fine(d)' /\ Synced(d)'
  <2>1. Tables!Counted(d)' = Tables!Counted(d) /\ Tables!MadeOn(d)' = Tables!MadeOn(d)
    BY <1>1 DEF Tables!Counted, Tables!MadeOn, Tables!Day
  <2>2. daily'[d] = daily[d]
    BY <1>1
  <2>3. QED BY <1>1, <1>3, <2>1, <2>2, SameTells DEF Synced
<1>5. ASSUME Old(d)' # {} PROVE ToCome(d)'
  <2> DEFINE S == Tables!Expired(raw, cutoff')
  <2>1. S \in SUBSET Made /\ IsFiniteSet(S)
    <3>1. S \subseteq raw /\ raw \subseteq Made
      BY Expiring DEF TableInv, Tables!Expired
    <3>2. QED BY <3>1, FS_Subset DEF TableInv, TableTypes
  <2>2. On(S, d) # {}
    BY <1>1, <1>5 DEF Old, On, Tables!Expired, Tables!Day
  <2> HIDE DEF S
  <2>3. \E g \in Tables!GroupsOf(S) : g[1] = d
    BY <2>1, <2>2, GroupsAre DEF TableInv, TableTypes
  <2>4. QED BY <1>1, <2>3 DEF ToCome, S
<1>6. QED BY <1>1, <1>4, <1>5 DEF InStep

\* The group of a day is that of its old rows, and there is one.
LEMMA UpsertCounts ==
  ASSUME TableConstants, TableInv, Tables!Upsert, NEW d, Undisturbed(d)'
  PROVE  InStep(d)'
<1>1. PICK g \in groups : /\ daily' = [daily EXCEPT ![g[1]] = Tables!Merge(@, g[2])]
                          /\ groups' = groups \ {g}
  BY DEF Tables!Upsert
<1>2. /\ UNCHANGED <<at, raw, savedRaw, savedDaily, disturbed, step, cutoff>>
      /\ step = "upsert"
  BY DEF Tables!Upsert, Tables!history, Tables!file
<1>3. Undisturbed(d) /\ InStep(d) /\ TableTypes
  BY <1>2, StillUndisturbed DEF TableInv
<1>4. /\ Old(d)' = Old(d) /\ Tables!Counted(d)' = Tables!Counted(d)
      /\ Tables!MadeOn(d)' = Tables!MadeOn(d)
  BY <1>2, SameEvents
<1> DEFINE S == Tables!Expired(raw, cutoff)
<1>5. S \in SUBSET Made /\ IsFiniteSet(S)
  BY <1>3, Expiring
<1>6. groups \subseteq Tables!GroupsOf(S)
  BY <1>3 DEF TableTypes, Fetched
<1>7. /\ \A h \in groups : /\ h[1] \in Tables!Days /\ h = <<h[1], h[2]>>
                           /\ On(S, h[1]) # {} /\ h[2] = Tables!Group(On(S, h[1]))
  BY <1>3, <1>5, <1>6, GroupsAre DEF TableTypes
<1> HIDE DEF S
<1>8. daily \in [Tables!Days -> Tables!Summary] /\ d \in Tables!Days
  BY <1>3 DEF TableTypes, Tables!TypeOK, Undisturbed
<1>9. CASE d = g[1]
  <2>1. Old(d) # {} /\ g[2] = Tables!Group(Old(d)) /\ ToCome(d)
    BY <1>7, <1>9 DEF Old, S, ToCome
  <2>2. Fine(d)
    BY <1>2, <1>3, <2>1 DEF InStep
  <2>3. ~ToCome(d)'
    BY <1>1, <1>7, <1>9 DEF ToCome
  <2>4. daily'[d] = Tables!Merge(daily[d], Tables!Group(Old(d)))
    BY <1>1, <1>8, <1>9, <2>1
  <2>5. /\ Tables!Counted(d) \in SUBSET Tables!Events /\ IsFiniteSet(Tables!Counted(d))
        /\ Old(d) \in SUBSET Tables!Events /\ IsFiniteSet(Old(d))
        /\ Tables!Counted(d) \cap Old(d) = {}
    <3>1. Tables!Counted(d) \subseteq Made /\ Old(d) \subseteq S /\ S \subseteq raw
      BY <1>3 DEF Tables!Counted, Tables!MadeOn, Made, Old, On, S, Tables!Expired
    <3>2. IsFiniteSet(Made) /\ Made \subseteq Tables!Events
      BY <1>3 DEF TableTypes, Made
    <3>3. QED BY <1>5, <3>1, <3>2, FS_Subset DEF Tables!Counted
  <2>6. Tells(Tables!Merge(daily[d], Tables!Group(Old(d))), Tables!Counted(d) \cup Old(d))
    BY <1>8, <2>1, <2>2, <2>5, MergeTells DEF Fine
  <2>7. Ahead(d)'
    BY <1>4, <2>4, <2>6 DEF Ahead, Tells
  <2>8. QED BY <1>2, <1>4, <2>1, <2>3, <2>7 DEF InStep
<1>10. CASE d # g[1]
  <2>1. daily'[d] = daily[d]
    BY <1>1, <1>8, <1>10
  <2>2. ToCome(d)' <=> ToCome(d)
    BY <1>1, <1>10 DEF ToCome
  <2>3. (Fine(d)' <=> Fine(d)) /\ (Ahead(d)' <=> Ahead(d)) /\ (Synced(d)' <=> Synced(d))
    BY <1>2, <1>4, <2>1, SameTells DEF Synced
  <2>4. QED BY <1>2, <1>3, <1>4, <2>2, <2>3 DEF InStep
<1>11. QED BY <1>9, <1>10

LEMMA PurgeCounts ==
  ASSUME TableConstants, TableInv, Tables!Purge, NEW d, Undisturbed(d)'
  PROVE  InStep(d)'
<1>1. /\ UNCHANGED <<at, daily, savedRaw, savedDaily, disturbed, cutoff>>
      /\ step = "purge" /\ step' = "commitPurge"
      /\ raw' = raw \ Tables!Expired(raw, cutoff)
  BY DEF Tables!Purge, Tables!history, Tables!file
<1>2. Undisturbed(d) /\ InStep(d) /\ TableTypes
  BY <1>1, StillUndisturbed DEF TableInv
<1>3. Ahead(d) /\ Synced(d)
  BY <1>1, <1>2 DEF InStep
<1>4. Tables!Counted(d)' = Tables!Counted(d) \cup Old(d)
  <2>1. Tables!MadeOn(d)' = Tables!MadeOn(d)
    BY <1>1 DEF Tables!MadeOn, Tables!Day
  <2>2. \A e \in Made : e \in Tables!MadeOn(d) <=> Tables!Day(at[e]) = d
    BY DEF Made, Tables!MadeOn
  <2>3. raw \subseteq Made /\ Tables!Expired(raw, cutoff) \subseteq raw /\ Tables!MadeOn(d) \subseteq Made
    BY <1>2, Expiring DEF Tables!Expired, Tables!MadeOn, Made
  <2>4. QED BY <1>1, <2>1, <2>2, <2>3 DEF Tables!Counted, Old, On
<1>5. Fine(d)'
  BY <1>1, <1>3, <1>4 DEF Fine, Ahead, Tells
<1>6. /\ savedDaily'[d] = daily'[d]
      /\ \A e \in savedRaw' \cap Tables!MadeOn(d)' : e \in raw' \/ at'[e] < cutoff'
  <2>1. Tables!MadeOn(d)' = Tables!MadeOn(d)
    BY <1>1 DEF Tables!MadeOn, Tables!Day
  <2>2. QED BY <1>1, <1>3, <2>1 DEF Synced, Tables!Expired
<1>7. QED BY <1>1, <1>5, <1>6 DEF InStep

LEMMA CycleCounts ==
  ASSUME TableConstants, TableInv, Tables!Cycle, NEW d, Undisturbed(d)'
  PROVE  InStep(d)'
<1>1. CASE Tables!CommitUpserts \/ Tables!CommitPurge \/ Tables!CommitDrop \/ Tables!PurgeOrphans
  <2>1. /\ UNCHANGED <<at, raw, daily, groups, disturbed, cutoff>>
        /\ \/ step = "upsert" /\ groups = {} /\ step' = "purge" /\ savedRaw' = raw /\ savedDaily' = daily
           \/ step = "commitPurge" /\ step' = "drop" /\ savedRaw' = raw /\ savedDaily' = daily
           \/ step = "commitDrop" /\ step' = "orphans" /\ savedRaw' = raw /\ savedDaily' = daily
           \/ step = "orphans" /\ step' = "idle" /\ UNCHANGED <<savedRaw, savedDaily>>
    BY <1>1 DEF Tables!CommitUpserts, Tables!CommitPurge, Tables!CommitDrop, Tables!PurgeOrphans,
                Tables!Commit, Tables!history, Tables!file
  <2>2. Undisturbed(d) /\ InStep(d)
    BY <2>1, StillUndisturbed DEF TableInv
  <2>3. /\ Old(d)' = Old(d) /\ Tables!Counted(d)' = Tables!Counted(d)
        /\ Tables!MadeOn(d)' = Tables!MadeOn(d) /\ daily'[d] = daily[d]
    BY <2>1, SameEvents
  <2>4. (Fine(d)' <=> Fine(d)) /\ (Ahead(d)' <=> Ahead(d))
    BY <2>3, SameTells
  <2>5. savedRaw' = raw /\ savedDaily' = daily => Synced(d)'
    BY <2>1, <2>3 DEF Synced
  <2>6. CASE step = "upsert"
    <3>1. ~ToCome(d)
      BY <2>1, <2>6 DEF ToCome
    <3>2. Old(d) = {} => (Fine(d) <=> Ahead(d))
      <4>1. Old(d) = {} => Tables!Counted(d) \cup Old(d) = Tables!Counted(d)
        OBVIOUS
      <4>2. QED BY <4>1 DEF Fine, Ahead
    <3>3. Ahead(d)
      BY <2>2, <2>6, <3>1, <3>2 DEF InStep
    <3>4. QED BY <2>1, <2>4, <2>5, <2>6, <3>3 DEF InStep
  <2>7. CASE step \in {"commitPurge", "commitDrop"}
    BY <2>1, <2>2, <2>4, <2>5, <2>7 DEF InStep
  <2>8. CASE step = "orphans"
    <3>1. Fine(d) /\ Synced(d)
      BY <2>2, <2>8 DEF InStep
    <3>2. Synced(d)'
      BY <2>1, <2>3, <2>8, <3>1 DEF Synced
    <3>3. QED BY <2>1, <2>4, <2>8, <3>1, <3>2 DEF InStep
  <2>9. QED BY <2>1, <2>6, <2>7, <2>8
<1>2. CASE Tables!Drop
  <2>1. /\ UNCHANGED <<at, raw, savedRaw, savedDaily, disturbed, cutoff>>
        /\ step = "drop" /\ step' = "commitDrop"
        /\ daily' = [x \in Tables!Days |-> IF Tables!Outdated(x) THEN Tables!NoRow ELSE daily[x]]
    BY <1>2 DEF Tables!Drop, Tables!history, Tables!file
  <2>2. Undisturbed(d) /\ InStep(d)
    BY <2>1, StillUndisturbed DEF TableInv
  <2>3. daily'[d] = daily[d]
    BY <2>1, <2>2 DEF Undisturbed
  <2>4. (Fine(d)' <=> Fine(d)) /\ (Synced(d)' <=> Synced(d))
    BY <2>1, <2>3, SameEvents, SameTells DEF Synced
  <2>5. QED BY <2>1, <2>2, <2>4 DEF InStep
<1>3. QED BY <1>1, <1>2, BeginCounts, UpsertCounts, PurgeCounts DEF Tables!Cycle

\* A failure or a crash leaves the days alone that had no row at stake.
LEMMA FailureCounts ==
  ASSUME TableConstants, TableInv, Tables!StatementFails, NEW d, Undisturbed(d)'
  PROVE  InStep(d)'
<1>1. /\ UNCHANGED <<at, raw, daily, savedRaw, savedDaily, cutoff>>
      /\ groups' = {} /\ disturbed' = disturbed \cup Tables!AtStake
      /\ step' \in {"purge", "drop", "orphans", "idle"}
  BY GoesOn DEF Tables!StatementFails, Tables!file, TableInv, TableTypes
<1>2. Undisturbed(d) /\ d \notin Tables!AtStake
  BY <1>1, StillUndisturbed DEF Undisturbed
<1>3. Fine(d) /\ Synced(d)
  BY <1>2, Settled
<1>4. Fine(d)' /\ Synced(d)' /\ Old(d)' = Old(d)
  <2>1. daily'[d] = daily[d]
    BY <1>1
  <2>2. QED BY <1>1, <1>3, <2>1, SameEvents, SameTells DEF Synced
<1>5. step' = "purge" => Ahead(d)'
  <2>1. step' = "purge" => step \in {"upsert"}
    BY GoesOn DEF TableInv, TableTypes
  <2>2. step # "idle" => Old(d) = {}
    BY <1>2 DEF Tables!AtStake, Old, On, Tables!Expired
  <2>3. step' = "purge" => Old(d)' = {}
    BY <1>4, <2>1, <2>2
  <2>4. step' = "purge" => Tables!Counted(d)' \cup Old(d)' = Tables!Counted(d)'
    BY <2>3
  <2>5. QED BY <1>4, <2>4 DEF Ahead, Fine, Tells
<1>6. QED BY <1>1, <1>4, <1>5 DEF InStep

LEMMA RestartCounts ==
  ASSUME TableConstants, TableInv, Tables!Restart, NEW d, Undisturbed(d)'
  PROVE  InStep(d)'
<1>1. /\ UNCHANGED <<savedRaw, savedDaily, cutoff>>
      /\ raw' = savedRaw /\ daily' = savedDaily /\ step' = "idle"
      /\ at' = [e \in Tables!Events |-> IF e \in raw \ savedRaw THEN Tables!NoTime ELSE at[e]]
      /\ disturbed' = disturbed \cup (IF step = "idle" THEN {} ELSE Tables!AtStake)
  BY DEF Tables!Restart, Tables!file
<1>2. Undisturbed(d) /\ (step = "idle" \/ d \notin Tables!AtStake)
  BY <1>1, StillUndisturbed DEF Undisturbed
<1>3. Fine(d) /\ Synced(d)
  BY <1>2, Settled
<1>4. \A e \in Tables!Events : e \in Tables!MadeOn(d)' <=> e \in Tables!MadeOn(d) \ (raw \ savedRaw)
  BY <1>1 DEF Tables!MadeOn, Tables!Day
<1>5. Tables!Counted(d)' = Tables!Counted(d)
  <2>1. Tables!MadeOn(d) \subseteq Tables!Events /\ Tables!MadeOn(d)' \subseteq Tables!Events
    BY DEF Tables!MadeOn, Tables!Events
  <2>2. QED BY <1>1, <1>3, <1>4, <2>1 DEF Tables!Counted, Synced
<1>6. daily'[d] = daily[d]
  BY <1>1, <1>3 DEF Synced
<1>7. Fine(d)'
  BY <1>3, <1>5, <1>6, SameTells
<1>8. Synced(d)'
  BY <1>1 DEF Synced
<1>9. QED BY <1>1, <1>7, <1>8 DEF InStep

LEMMA TablesStep ==
  ASSUME TableConstants, TableInv, [Tables!Next]_(Tables!vars)
  PROVE  TableInv'
<1>1. TableTypes'
  BY TablesTyped DEF TableInv
<1>2. ASSUME NEW d, Undisturbed(d)' PROVE InStep(d)'
  <2>1. CASE Tables!Tick \/ UNCHANGED Tables!vars
    <3>1. UNCHANGED <<at, raw, daily, savedRaw, savedDaily, step, groups, cutoff, disturbed>>
      BY <2>1 DEF Tables!Tick, Tables!vars, Tables!history, Tables!file
    <3>2. Undisturbed(d) /\ InStep(d)
      BY <1>2, <3>1, StillUndisturbed DEF TableInv
    <3>3. /\ Old(d)' = Old(d) /\ Tables!MadeOn(d)' = Tables!MadeOn(d) /\ daily'[d] = daily[d]
          /\ (Fine(d)' <=> Fine(d)) /\ (Ahead(d)' <=> Ahead(d))
      BY <3>1, SameEvents, SameTells
    <3>4. (Synced(d)' <=> Synced(d)) /\ (ToCome(d)' <=> ToCome(d))
      BY <3>1, <3>3 DEF Synced, ToCome
    <3>5. QED BY <3>1, <3>2, <3>3, <3>4 DEF InStep
  <2>2. QED BY <1>2, <2>1, CycleCounts, OthersCount, FailureCounts, RestartCounts DEF Tables!Next
<1>3. QED BY <1>1, <1>2 DEF TableInv

\* timeseries_db.py aggregate_events and purge_raw_events: of a day no failure or crash
\* has disturbed, between two cycles, every event is a row or counted once in the
\* day's summary, and the summary's average is theirs; for any number of events, any
\* confidences, ages and delays up to RawAge, and any number of faults.
THEOREM EventsCountedOnce ==
  ASSUME TableConstants
  PROVE  Tables!Spec => []Tables!CountedOnce
<1>1. Tables!Init => TableInv
  BY TablesInit
<1>2. TableInv /\ [Tables!Next]_(Tables!vars) => TableInv'
  BY TablesStep
<1>3. TableInv => Tables!CountedOnce
  <2> SUFFICES ASSUME TableInv, NEW d \in Tables!Days \ disturbed, step = "idle", ~Tables!Outdated(d)
               PROVE  /\ daily[d].count = Tables!Cardinality(Tables!Counted(d))
                      /\ daily[d].sum * daily[d].count
                           = daily[d].den * Tables!Total(Tables!Counted(d))
    BY DEF Tables!CountedOnce
  <2>1. Undisturbed(d)
    BY DEF Undisturbed
  <2>2. Fine(d)
    BY <2>1, Settled
  <2>3. QED BY <2>2, SameSize DEF Fine, Tells
<1>4. QED BY <1>1, <1>2, <1>3, PTL DEF Tables!Spec

\* The tables' type, of which the summaries' is the part that needs an argument.
THEOREM TablesTypeCorrect ==
  ASSUME TableConstants
  PROVE  Tables!Spec => []Tables!TypeOK
<1>1. Tables!Init => TableTypes
  BY TablesInit DEF TableInv
<1>2. TableTypes /\ [Tables!Next]_(Tables!vars) => TableTypes'
  BY TablesTyped
<1>3. TableTypes => Tables!TypeOK
  BY DEF TableTypes
<1>4. QED BY <1>1, <1>2, <1>3, PTL DEF Tables!Spec
=============================================================================
