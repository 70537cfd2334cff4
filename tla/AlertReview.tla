---------------------------- MODULE AlertReview ----------------------------
(***************************************************************************)
(* The alert handlers of dashboard.py and mobile_api.py: acknowledge,       *)
(* dismiss and escalate, composed with AlertSystem.send_alert.              *)
(*                                                                          *)
(* Both APIs run on the event loop of the pipelines that raise alerts.  A   *)
(* handler reads the row and commits its new status before its only await,  *)
(* the send_alert of an escalation; that alert has the key of the original  *)
(* and so falls under its cooldown.  Rows are those the table holds at the  *)
(* start; the retention cycle deletes them.                                 *)
(***************************************************************************)
EXTENDS AlertSystem

CONSTANTS
  Reviewers,  \* requests of operators
  Alerts,     \* rows of the alerts table
  KeyOf       \* camera_id and alert_type of a row

ASSUME ReviewAssumption ==
  /\ Reviewers \subseteq Callers
  /\ KeyOf \in [Alerts -> Keys]

VARIABLES
  status,   \* alerts.status ("deleted": there is no row)
  request   \* each request: where it is, the alert it is about, its answer

reviewVars == <<status, request>>
allVars == <<vars, reviewVars>>

Statuses == {"active", "acknowledged", "dismissed", "escalated"}

ReviewTypeOK ==
  /\ TypeOK
  /\ status \in [Alerts -> Statuses \cup {"deleted"}]
  /\ \A r \in Reviewers : request[r].pc \in {"new", "sending", "done"}
  /\ \A r \in Reviewers : call[r].pc # "idle" => request[r].pc = "sending"

New == [pc |-> "new", alert |-> "none", answer |-> "none"]

ReviewInit ==
  /\ Init
  /\ status = [a \in Alerts |-> "active"]
  /\ request = [r \in Reviewers |-> New]

-----------------------------------------------------------------------------
\* Request r, about the row of a, gets the loop.
Reads(r, a) ==
  /\ loop = NoCaller
  /\ request[r].pc = "new"
  /\ status[a] # "deleted"

\* _update_alert_status: UPDATE and COMMIT.
Update(a, to) == status' = [status EXCEPT ![a] = to]

Answer(r, a, answer) ==
  request' = [request EXCEPT ![r] = [pc |-> "done", alert |-> a, answer |-> answer]]

\* 404
NotFound(r, a) ==
  /\ loop = NoCaller
  /\ request[r].pc = "new"
  /\ status[a] = "deleted"
  /\ Answer(r, a, "not found")
  /\ UNCHANGED <<vars, status>>

Mark(r, a, to) ==
  /\ Reads(r, a)
  /\ Update(a, to)
  /\ Answer(r, a, to)
  /\ UNCHANGED vars

\* Mutant of Escalate: the alert is marked and not sent.
EscalateUnsent(r, a) == Mark(r, a, "escalated")

\* The row is marked, then the alert is sent: send_alert returns at once in a
\* cooldown, and suspends the handler in a channel otherwise.
Escalate(r, a) ==
  /\ Reads(r, a)
  /\ Update(a, "escalated")
  /\ \/ Suppress(r, KeyOf[a]) /\ Answer(r, a, "escalated")
     \/ /\ Begin(r, KeyOf[a])
        /\ request' = [request EXCEPT ![r] = [pc |-> "sending", alert |-> a, answer |-> "none"]]

\* send_alert returns, whatever the channels answered.
Escalated(r) == Record(r) /\ Answer(r, request[r].alert, "escalated") /\ UNCHANGED status

\* Each API has its own copy of the three handlers.
OnDashboard(r, a) == Mark(r, a, "acknowledged") \/ Mark(r, a, "dismissed") \/ Escalate(r, a)

OnMobile(r, a) == Mark(r, a, "acknowledged") \/ Mark(r, a, "dismissed") \/ Escalate(r, a)

Sending(r) == (Deliver(r) \/ Suspend(r) \/ Resume(r)) /\ UNCHANGED reviewVars

\* purge_raw_events deletes the alerts of the events it purges.
Purge(a) ==
  /\ loop = NoCaller
  /\ status[a] # "deleted"
  /\ Update(a, "deleted")
  /\ UNCHANGED <<vars, request>>

ReviewNext ==
  \/ Tick /\ UNCHANGED reviewVars
  \/ \E s \in Callers \ Reviewers : SendAlert(s) /\ UNCHANGED reviewVars
  \/ \E r \in Reviewers : Sending(r) \/ Escalated(r)
  \/ \E r \in Reviewers, a \in Alerts : OnDashboard(r, a) \/ OnMobile(r, a) \/ NotFound(r, a)
  \/ \E a \in Alerts : Purge(a)

ReviewSpec == ReviewInit /\ [][ReviewNext]_allVars

-----------------------------------------------------------------------------
(* Properties *)

\* "Escalate an alert (re-send with higher threat level)" (dashboard.py:270): of
\* an alert with status escalated some channel has accepted its own sending or,
\* when the cooldown suppressed that, the sending of its key that started the
\* cooldown, provided one channel never refuses; a handler still inside
\* send_alert is the exception.  A later request may mark the alert otherwise.
EscalatedHeard ==
  \A a \in Alerts :
    /\ status[a] = "escalated"
    /\ \A r \in Reviewers : request[r].pc = "sending" => request[r].alert # a
    => accepted[KeyOf[a]] # {}
=============================================================================
