--------------------------- MODULE FrameCropStore ---------------------------
(***************************************************************************)
(* frame_crop_store.py: encrypted crop files, the crop_metadata table that  *)
(* says when each was stored, and main.py's _frame_crop_purge_loop.         *)
(*                                                                          *)
(* Files and table are two stores with no common transaction.  Every call   *)
(* runs on the event loop and keeps it until it returns, so calls do not    *)
(* interleave; but a disk fills, a statement raises and the process dies    *)
(* between any two steps of one, and nothing is undone afterwards.  Of a    *)
(* file the model keeps whether it decrypts, of a time how long ago it is;  *)
(* a tick is long against a call.                                           *)
(***************************************************************************)
EXTENDS Integers

CONSTANTS
  Events,       \* event ids: an event delivered twice is stored twice
  Tenants,
  AllTenants,   \* Python's None where a tenant is expected
  TenantOf,     \* of an event
  NoEvent,
  Retention,    \* retention_hours
  UrlLife,      \* url_expiry_seconds
  PurgePeriod,  \* interval_seconds of the purge loop
  MaxFaults     \* bound on failures and crashes

ASSUME CropAssumption ==
  /\ NoEvent \notin Events
  /\ AllTenants \notin Tenants
  /\ TenantOf \in [Events -> Tenants]
  /\ Retention \in Nat
  /\ UrlLife \in Nat
  /\ PurgePeriod \in Nat \ {0}
  /\ MaxFaults \in Nat

VARIABLES
  file,      \* <event id>.enc: absent, whole, or cut short
  rows,      \* crop_metadata as the connection sees it: the age of each row's created_at
  saved,     \* the same as the database file has it
  pc,        \* the next step of the call at work
  event,     \* the event being stored
  scope,     \* the tenant being purged
  batch,     \* rows fetched whose files are still to be removed
  asleep,    \* ticks until the purge loop wakes up
  faults,
  stored,    \* history: the age of the row that the last completed store_crop inserted
  orphaned   \* history: events whose last store or removal was cut short

store == <<file, rows, saved>>
call == <<pc, event, scope, batch>>
vars == <<file, rows, saved, pc, event, scope, batch, asleep, faults, stored, orphaned>>

\* An age is counted until it is past the retention period.
NoRow == -1
Ages == 0..(Retention + 1)
Table == [Events -> Ages \cup {NoRow}]

TypeOK ==
  /\ file \in [Events -> {"absent", "whole", "short"}]
  /\ rows \in Table
  /\ saved \in Table
  /\ pc \in {"idle", "write", "insert", "commit", "remove", "delete", "commitDelete"}
  /\ event \in Events \cup {NoEvent}
  /\ scope \in Tenants \cup {AllTenants}
  /\ batch \subseteq Events
  /\ asleep \in 0..PurgePeriod
  /\ faults \in 0..MaxFaults
  /\ stored \in Table
  /\ orphaned \subseteq Events

Init ==
  /\ file = [e \in Events |-> "absent"]
  /\ rows = [e \in Events |-> NoRow]
  /\ saved = rows
  /\ pc = "idle"
  /\ event = NoEvent
  /\ scope = AllTenants
  /\ batch = {}
  /\ asleep = 0
  /\ faults = 0
  /\ stored = [e \in Events |-> NoRow]
  /\ orphaned = {}

\* SELECT ... WHERE created_at < cutoff, of a tenant or of all.
Expired(s) ==
  {e \in Events : rows[e] > Retention /\ (s = AllTenants \/ TenantOf[e] = s)}

Storing(e) == pc \in {"write", "insert", "commit"} /\ event = e

Fault == faults < MaxFaults /\ faults' = faults + 1

Older(table) ==
  [e \in Events |-> IF table[e] \in 0..Retention THEN table[e] + 1 ELSE table[e]]

Tick ==
  /\ pc = "idle"
  /\ rows' = Older(rows)
  /\ saved' = Older(saved)
  /\ stored' = Older(stored)
  /\ asleep' = IF asleep > 0 THEN asleep - 1 ELSE asleep
  /\ UNCHANGED <<file, call, faults, orphaned>>

-----------------------------------------------------------------------------
(* store_crop, called by FrameCropStoreTool *)

\* open(..., "wb") makes the file, or empties the one that is there.
OpenFile(e) ==
  /\ pc = "idle"
  /\ pc' = "write"
  /\ event' = e
  /\ file' = [file EXCEPT ![e] = "short"]
  /\ UNCHANGED <<rows, saved, scope, batch, asleep, faults, stored,
                 orphaned>>

WriteFile ==
  /\ pc = "write"
  /\ pc' = "insert"
  /\ file' = [file EXCEPT ![event] = "whole"]
  /\ UNCHANGED <<rows, saved, event, scope, batch, asleep, faults, stored, orphaned>>

\* Mutant of InsertRow: INSERT OR IGNORE.
InsertRowIfNew ==
  /\ pc = "insert"
  /\ pc' = "commit"
  /\ rows' = IF rows[event] = NoRow THEN [rows EXCEPT ![event] = 0] ELSE rows
  /\ UNCHANGED <<file, saved, event, scope, batch, asleep, faults, stored, orphaned>>

\* INSERT OR REPLACE ... created_at = time.time()
InsertRow ==
  /\ pc = "insert"
  /\ pc' = "commit"
  /\ rows' = [rows EXCEPT ![event] = 0]
  /\ UNCHANGED <<file, saved, event, scope, batch, asleep, faults, stored, orphaned>>

\* The commit writes what failed calls left uncommitted too; the URL follows.
CommitRow ==
  /\ pc = "commit"
  /\ pc' = "idle"
  /\ saved' = rows
  /\ stored' = [stored EXCEPT ![event] = 0]
  /\ orphaned' = orphaned \ {event}
  /\ event' = NoEvent
  /\ UNCHANGED <<file, rows, scope, batch, asleep, faults>>

\* The write or a statement raises and the tool returns a failure: the alert is
\* sent without a URL.  What is on the disk stays; a failed commit may or may not
\* have rolled the connection's transaction back.
StoreRaises ==
  /\ Fault
  /\ pc \in {"write", "insert", "commit"}
  /\ rows' \in IF pc = "commit" THEN {rows, saved} ELSE {rows}
  /\ orphaned' = orphaned \cup {event}
  /\ pc' = "idle"
  /\ event' = NoEvent
  /\ UNCHANGED <<file, saved, scope, batch, asleep, stored>>

-----------------------------------------------------------------------------
(* Reading: a URL is signed, not recorded *)

\* generate_presigned_url, some time ago.
UrlOf(e, ago) == [event |-> e, age |-> ago]

UrlExpired(u) == u.age > UrlLife

\* validate_presigned_url and get_crop: the file is there and decrypts.
GetCrop(u) == ~UrlExpired(u) /\ file[u.event] = "whole"

\* get_crop_by_event_id and generate_url of a tenant: the row must be the tenant's.
Belongs(e, t) == rows[e] # NoRow /\ TenantOf[e] = t

GetCropByEventId(e, t) == Belongs(e, t) /\ file[e] = "whole"

-----------------------------------------------------------------------------
(* purge_expired *)

\* The call is over; the loop, whose call is for all tenants, goes to sleep.
EndPurge ==
  /\ pc' = "idle"
  /\ batch' = {}
  /\ scope' = AllTenants
  /\ asleep' = IF scope = AllTenants THEN PurgePeriod ELSE asleep

\* The SELECT.  Without rows the call ends here.
BeginPurge(s) ==
  /\ pc = "idle"
  /\ s = AllTenants => asleep = 0
  /\ IF Expired(s) = {}
     THEN /\ asleep' = IF s = AllTenants THEN PurgePeriod ELSE asleep
          /\ UNCHANGED <<pc, scope, batch>>
     ELSE /\ pc' = "remove"
          /\ scope' = s
          /\ batch' = Expired(s)
          /\ UNCHANGED asleep
  /\ UNCHANGED <<store, event, faults, stored, orphaned>>

NextRemoval(e) ==
  /\ batch' = batch \ {e}
  /\ pc' = IF batch' = {} THEN "delete" ELSE "remove"

\* os.remove, unless the file is not there.
RemoveFile(e) ==
  /\ pc = "remove"
  /\ e \in batch
  /\ file' = [file EXCEPT ![e] = "absent"]
  /\ NextRemoval(e)
  /\ UNCHANGED <<rows, saved, event, scope, asleep, faults, stored,
                 orphaned>>

\* os.remove raises: logged, and the row goes with the others.
RemoveFails(e) ==
  /\ Fault
  /\ pc = "remove"
  /\ e \in batch
  /\ file[e] # "absent"
  /\ orphaned' = orphaned \cup {e}
  /\ NextRemoval(e)
  /\ UNCHANGED <<store, event, scope, asleep, stored>>

\* Mutant of DeleteRows: the DELETE forgets the tenant.
DeleteRowsOfAll ==
  /\ pc = "delete"
  /\ pc' = "commitDelete"
  /\ rows' = [e \in Events |-> IF e \in Expired(AllTenants) THEN NoRow ELSE rows[e]]
  /\ UNCHANGED <<file, saved, event, scope, batch, asleep, faults, stored, orphaned>>

\* DELETE ... WHERE created_at < cutoff
DeleteRows ==
  /\ pc = "delete"
  /\ pc' = "commitDelete"
  /\ rows' = [e \in Events |-> IF e \in Expired(scope) THEN NoRow ELSE rows[e]]
  /\ UNCHANGED <<file, saved, event, scope, batch, asleep, faults, stored, orphaned>>

CommitDelete ==
  /\ pc = "commitDelete"
  /\ saved' = rows
  /\ EndPurge
  /\ UNCHANGED <<file, rows, event, faults, stored, orphaned>>

\* Mutant of PurgeRaises: the exception ends the loop.
PurgeRaisesAndEnds ==
  /\ Fault
  /\ pc \in {"delete", "commitDelete"} \/ (pc = "idle" /\ asleep = 0)
  /\ rows' \in IF pc = "commitDelete" THEN {rows, saved} ELSE {rows}
  /\ pc' = "idle"
  /\ batch' = {}
  /\ scope' = AllTenants
  /\ asleep' = IF scope = AllTenants THEN -1 ELSE asleep
  /\ UNCHANGED <<file, saved, event, stored, orphaned>>

\* A statement raises, the SELECT included; the loop logs it and sleeps as after any purge.
PurgeRaises ==
  /\ Fault
  /\ pc \in {"delete", "commitDelete"} \/ (pc = "idle" /\ asleep = 0)
  /\ rows' \in IF pc = "commitDelete" THEN {rows, saved} ELSE {rows}
  /\ EndPurge
  /\ UNCHANGED <<file, saved, event, stored, orphaned>>

-----------------------------------------------------------------------------
\* The process dies, or is shut down, and is started again: what was not committed
\* is lost, files and the URLs already sent out are not.  run_application creates
\* the loop, whose first purge does not wait.
Restart ==
  /\ Fault
  /\ rows' = saved
  /\ orphaned' = IF event = NoEvent THEN orphaned ELSE orphaned \cup {event}
  /\ pc' = "idle"
  /\ event' = NoEvent
  /\ scope' = AllTenants
  /\ batch' = {}
  /\ asleep' = 0
  /\ UNCHANGED <<file, saved, stored>>

StoreStep ==
  \/ \E e \in Events : OpenFile(e)
  \/ WriteFile
  \/ InsertRow
  \/ CommitRow
  \/ StoreRaises

PurgeStep ==
  \/ \E s \in Tenants \cup {AllTenants} : BeginPurge(s)
  \/ \E e \in Events : RemoveFile(e)
  \/ \E e \in Events : RemoveFails(e)
  \/ DeleteRows
  \/ CommitDelete
  \/ PurgeRaises

Next ==
  \/ Tick
  \/ StoreStep
  \/ PurgeStep
  \/ Restart

Spec == Init /\ [][Next]_vars

\* Time passes whatever calls are made, a call that has begun returns, and the event
\* loop resumes the purge loop once its sleep is over.
Fairness ==
  /\ SF_vars(Tick)
  /\ WF_vars(WriteFile \/ InsertRow \/ CommitRow)
  /\ WF_vars((\E e \in Events : RemoveFile(e)) \/ DeleteRows \/ CommitDelete)
  /\ SF_vars(BeginPurge(AllTenants))

FairSpec == Spec /\ Fairness

-----------------------------------------------------------------------------
(* Properties *)

\* "A time-limited URL for accessing the crop" (frame_crop_store.py:333) and
\* retention_hours: whatever fails for other events and however often the process
\* dies, the crop of a completed store is opened by each of its unexpired URLs, and
\* found by its tenant, until it is older than the retention period; storing the
\* event again starts the period again.  The exception is an event whose own later
\* store was cut short: opening the file for writing destroys the crop there was.
CropReadable ==
  \A e \in Events \ orphaned :
    stored[e] \in 0..Retention /\ ~Storing(e) =>
      /\ \A ago \in 0..UrlLife : GetCrop(UrlOf(e, ago))
      /\ GetCropByEventId(e, TenantOf[e])

\* The purge loop has done a purge of all tenants without an exception.
LoopPurges == asleep = 0 /\ asleep' = PurgePeriod /\ faults' = faults

\* "auto-deletes after 72 hours" (frame_crop_store.py:3-4): such a purge leaves no
\* file whose last store is older than the retention period, whatever purges of
\* single tenants, purges that stopped half way and crashes came before it.  The
\* exceptions are the files nothing will ever find again: of a store cut short
\* before its row was committed, and of a removal that failed, since the row is
\* deleted all the same.
NothingOutlivesPurge ==
  [][ LoopPurges => \A e \in Events \ orphaned' : file'[e] # "absent" => stored'[e] <= Retention ]_vars

\* The purge loop outlives the exceptions of its purges: a crop older than the
\* retention period is removed, unless its file cannot be.
ExpiredGo ==
  \A e \in Events :
    file[e] # "absent" /\ stored[e] > Retention
      ~> file[e] = "absent" \/ stored[e] <= Retention \/ e \in orphaned
=============================================================================
