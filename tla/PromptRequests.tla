--------------------------- MODULE PromptRequests ---------------------------
(***************************************************************************)
(* An operator's prompt on its way to the rules of cameras: the handlers   *)
(* of dashboard.py and mobile_api.py that compile, activate and roll back, *)
(* prompt_compiler.py compile and confirm_and_activate with the parsing of *)
(* the model's answer, and the JSON in which rule_store.py keeps rules.    *)
(*                                                                         *)
(* Requests are coroutines of one event loop: a handler suspends while it  *)
(* reads its body and, if the client does, while it waits for the model;   *)
(* the client main.py provides holds the loop for the whole call.  A save  *)
(* is one step here, and what it leaves when it raises is what the one     *)
(* connection all readers share shows from then on; what a crash keeps of  *)
(* it, and the gate's cache, are module RuleActivation's.  A field of a    *)
(* rule is how it reads, not what it says, which is module RuleMatching's. *)
(***************************************************************************)
EXTENDS Integers, Sequences

CONSTANTS
  Requests,     \* identities for requests
  NoRequest,    \* the loop is between callbacks
  Cameras,      \* camera ids
  Scopes,       \* the lists of target_ids operators send
  Answers,      \* what the model may answer: Garbage, or a sequence of rules
  Garbage,      \* an answer that is no JSON object with a list of rules
  NotARule,     \* an element of that list that is not an object
  LLMSuspends,  \* whether LLMClient.generate suspends the coroutine
  SavesMayFail, \* whether save_ruleset may raise
  MaxVersions   \* bound on the rows of rule_sets

Fields == {"object_type", "min_confidence", "time_window", "zone", "suppress_if", "compound"}

\* How a field of an answered rule reads: missing or null, as the system prompt
\* asks for it, of the wrong type, or an object without a usable entry.
Readings == {"absent", "fine", "wrong", "empty"}

ASSUME PromptAssumption ==
  /\ NoRequest \notin Requests
  /\ Scopes \subseteq Seq(Cameras) \ {<<>>}
  /\ Answers \subseteq Seq([Fields -> Readings] \cup {NotARule}) \cup {Garbage}
  /\ LLMSuspends \in BOOLEAN
  /\ SavesMayFail \in BOOLEAN
  /\ MaxVersions \in Nat

VARIABLES
  loop,      \* the request that holds the event loop
  request,   \* each request: where it is, what it asks, what it was answered
  versions,  \* the rows of rule_sets, oldest first
  active     \* camera -> its row with is_active = 1, 0 if it has none

vars == <<loop, request, versions, active>>

-----------------------------------------------------------------------------
(* _parse_llm_response and _parse_rule *)

\* An object_type of another type becomes its text; another field of another
\* type, and a time window or a zone without content, is dropped; an empty
\* suppress_if is kept and holds for every event, an empty compound likewise.
ParseRule(raw) ==
  [f \in Fields |->
     CASE raw[f] = "wrong" /\ f = "object_type" -> "text"
       [] raw[f] = "wrong" /\ f # "object_type" -> "absent"
       [] raw[f] = "empty" /\ f \in {"time_window", "zone"} -> "absent"
       [] OTHER -> raw[f]]

Parse(answer) == [i \in DOMAIN answer |-> ParseRule(answer[i])]

\* Otherwise ValueError: one element that is no object rejects the answer.
Acceptable(answer) == answer # Garbage /\ \A i \in DOMAIN answer : answer[i] # NotARule

-----------------------------------------------------------------------------
(* rule_store.py: a rule in the rules column *)

\* Mutant of ToRow: suppress_if is not written.
ToRowShort(rule) ==
  [f \in {g \in Fields \ {"suppress_if"} : rule[g] # "absent"} |-> rule[f]]

\* _rule_to_dict writes the fields that are not None ...
ToRow(rule) == [f \in {g \in Fields : rule[g] # "absent"} |-> rule[f]]

\* ... and _rule_from_dict reads the others as None.
FromRow(row) == [f \in Fields |-> IF f \in DOMAIN row THEN row[f] ELSE "absent"]

\* The rules evaluate and rollback read.
RulesOf(v) == [i \in DOMAIN versions[v].rules |-> FromRow(versions[v].rules[i])]

-----------------------------------------------------------------------------
New == [pc |-> "new", kind |-> "none", scope |-> <<>>, answer |-> Garbage, todo |-> <<>>,
        reply |-> "none", raised |-> FALSE]

Replies == {"none", "refused", "failed", "compiled", "activated", "restored"}

TypeOK ==
  /\ loop \in Requests \cup {NoRequest}
  /\ \A r \in Requests :
       /\ request[r].pc \in {"new", "body", "model", "save", "done"}
       /\ request[r].kind \in {"none", "compile", "activate", "rollback"}
       /\ request[r].reply \in Replies
       /\ request[r].pc = "save" => loop = r
       /\ request[r].pc = "done" <=> request[r].reply # "none"
  /\ \A v \in DOMAIN versions :
       versions[v].camera \in Cameras /\ versions[v].by \in Requests
  /\ \A c \in Cameras : active[c] # 0 => versions[active[c]].camera = c

Init ==
  /\ loop = NoRequest
  /\ request = [r \in Requests |-> New]
  /\ versions = <<>>
  /\ active = [c \in Cameras |-> 0]

-----------------------------------------------------------------------------
(* The handlers up to their first await: request.json() *)

Arrive(r, kind, scope) ==
  /\ request[r].pc = "new"
  /\ request' = [request EXCEPT ![r] = [New EXCEPT !.pc = "body", !.kind = kind, !.scope = scope]]
  /\ UNCHANGED <<loop, versions, active>>

CompileOnDashboard(r) == \E s \in Scopes : Arrive(r, "compile", s)

ActivateOnDashboard(r) == \E s \in Scopes : Arrive(r, "activate", s)

RollbackOnDashboard(r) == \E c \in Cameras : Arrive(r, "rollback", <<c>>)

CompileOnMobile(r) == \E s \in Scopes : Arrive(r, "compile", s)

ActivateOnMobile(r) == \E s \in Scopes : Arrive(r, "activate", s)

\* The handler answers and returns; the loop is free.
Reply(r, reply) ==
  /\ loop' = NoRequest
  /\ request' = [request EXCEPT ![r].pc = "done", ![r].reply = reply]

\* The coroutine of r goes on.
Resumes(r, pc) == loop = NoRequest /\ request[r].pc = pc

\* 400 or 501: no JSON, no prompt, no targets, no version, no compiler.
Refuse(r) ==
  /\ Resumes(r, "body")
  /\ Reply(r, "refused")
  /\ UNCHANGED <<versions, active>>

-----------------------------------------------------------------------------
(* compile *)

\* generate is called; the loop is held unless the client suspends.
Ask(r) ==
  /\ Resumes(r, "body")
  /\ request[r].kind \in {"compile", "activate"}
  /\ request' = [request EXCEPT ![r].pc = "model"]
  /\ loop' = IF LLMSuspends THEN NoRequest ELSE r
  /\ UNCHANGED <<versions, active>>

Awaited(r) == request[r].pc = "model" /\ loop \in {r, NoRequest}

\* RuntimeError: the call failed or timed out.
ModelFails(r) ==
  /\ Awaited(r)
  /\ Reply(r, "failed")
  /\ UNCHANGED <<versions, active>>

\* ValueError: the answer cannot be parsed.
Reject(r) ==
  /\ Awaited(r)
  /\ \E a \in Answers : ~Acceptable(a)
  /\ Reply(r, "failed")
  /\ UNCHANGED <<versions, active>>

\* compile_prompt shows what was compiled, and keeps nothing of it.
Show(r) ==
  /\ Awaited(r)
  /\ request[r].kind = "compile"
  /\ \E a \in Answers : Acceptable(a)
  /\ Reply(r, "compiled")
  /\ UNCHANGED <<versions, active>>

\* activate_prompt compiles the prompt once more and goes on to
\* confirm_and_activate without giving up the loop.
Confirm(r) ==
  /\ Awaited(r)
  /\ request[r].kind = "activate"
  /\ \E a \in Answers :
       /\ Acceptable(a)
       /\ request' = [request EXCEPT ![r].pc = "save", ![r].answer = a,
                                     ![r].todo = request[r].scope]
  /\ loop' = r
  /\ UNCHANGED <<versions, active>>

-----------------------------------------------------------------------------
(* confirm_and_activate and rollback *)

\* save_ruleset and reload_rules: a new row, which is the camera's active one.
Store(r, camera, rules, answer) ==
  /\ Len(versions) < MaxVersions
  /\ versions' = Append(versions, [camera |-> camera, rules |-> rules, answer |-> answer, by |-> r])
  /\ active' = [active EXCEPT ![camera] = Len(versions')]

\* save_ruleset raises and nothing is rolled back: at the UPDATE everything is
\* as it was, at the INSERT the camera has lost its active row, and at the commit
\* the new row is there all the same.
Leftover(r, camera, rules, answer) ==
  \/ UNCHANGED <<versions, active>>
  \/ active' = [active EXCEPT ![camera] = 0] /\ UNCHANGED versions
  \/ Store(r, camera, rules, answer)

\* The exception reaches the client as an error.
Raised(r) ==
  /\ loop' = NoRequest
  /\ request' = [request EXCEPT ![r].pc = "done", ![r].reply = "failed", ![r].raised = TRUE]

RowsOf(rules) == [i \in DOMAIN rules |-> ToRow(rules[i])]

\* Mutant of SaveNext: the loop is given up between two cameras.
SaveNextAwaiting(r) ==
  LET c == Head(request[r].todo)
      left == Tail(request[r].todo)
  IN /\ loop \in {r, NoRequest}
     /\ request[r].pc = "save"
     /\ request[r].todo # <<>>
     /\ Store(r, c, RowsOf(Parse(request[r].answer)), request[r].answer)
     /\ request' = [request EXCEPT ![r].todo = left]
     /\ loop' = IF left = <<>> THEN r ELSE NoRequest

\* The next camera of the scope.
SaveNext(r) ==
  LET c == Head(request[r].todo)
  IN /\ loop = r
     /\ request[r].pc = "save"
     /\ request[r].todo # <<>>
     /\ Store(r, c, RowsOf(Parse(request[r].answer)), request[r].answer)
     /\ request' = [request EXCEPT ![r].todo = Tail(@)]
     /\ UNCHANGED loop

\* Mutant of SaveRaises: the loop over the cameras goes on.
SaveRaisesAndGoesOn(r) ==
  LET c == Head(request[r].todo)
  IN /\ SavesMayFail
     /\ loop = r
     /\ request[r].pc = "save"
     /\ request[r].todo # <<>>
     /\ Leftover(r, c, RowsOf(Parse(request[r].answer)), request[r].answer)
     /\ request' = [request EXCEPT ![r].todo = Tail(@)]
     /\ UNCHANGED loop

\* The cameras after the one whose save raises are not saved, those before it are.
SaveRaises(r) ==
  LET c == Head(request[r].todo)
  IN /\ SavesMayFail
     /\ loop = r
     /\ request[r].pc = "save"
     /\ request[r].todo # <<>>
     /\ Leftover(r, c, RowsOf(Parse(request[r].answer)), request[r].answer)
     /\ Raised(r)

Activated(r) ==
  /\ loop = r
  /\ request[r].pc = "save"
  /\ request[r].todo = <<>>
  /\ Reply(r, "activated")
  /\ UNCHANGED <<versions, active>>

\* rollback is asked for version v of the camera, which there is.
Restoring(r, v) ==
  /\ Resumes(r, "body")
  /\ request[r].kind = "rollback"
  /\ v \in DOMAIN versions
  /\ versions[v].camera = request[r].scope[1]

\* A copy of it becomes the camera's active version.
Rollback(r, v) ==
  /\ Restoring(r, v)
  /\ Store(r, versions[v].camera, RowsOf(RulesOf(v)), versions[v].answer)
  /\ Reply(r, "restored")

\* 500: the copy cannot be saved.
RollbackRaises(r, v) ==
  /\ SavesMayFail
  /\ Restoring(r, v)
  /\ Leftover(r, versions[v].camera, RowsOf(RulesOf(v)), versions[v].answer)
  /\ Raised(r)

\* 404: there is no such version, or it is another camera's; 500: it cannot be
\* read.
RollbackFails(r) ==
  /\ Resumes(r, "body")
  /\ request[r].kind = "rollback"
  /\ Reply(r, "failed")
  /\ UNCHANGED <<versions, active>>

-----------------------------------------------------------------------------
Handler(r) ==
  \/ Refuse(r)
  \/ Ask(r)
  \/ ModelFails(r)
  \/ Reject(r)
  \/ Show(r)
  \/ Confirm(r)
  \/ SaveNext(r)
  \/ SaveRaises(r)
  \/ Activated(r)
  \/ \E v \in DOMAIN versions : Rollback(r, v) \/ RollbackRaises(r, v)
  \/ RollbackFails(r)

Arrival(r) ==
  \/ CompileOnDashboard(r)
  \/ ActivateOnDashboard(r)
  \/ RollbackOnDashboard(r)
  \/ CompileOnMobile(r)
  \/ ActivateOnMobile(r)

Next == \E r \in Requests : Arrival(r) \/ Handler(r)

Spec == Init /\ [][Next]_vars

-----------------------------------------------------------------------------
(* Properties *)

Scope(r) == {request[r].scope[i] : i \in DOMAIN request[r].scope}

ActivatedScope(r) == IF request[r].reply = "activated" THEN Scope(r) ELSE {}

By(c) == versions[active[c]].by

\* "applies to all cameras in scope.target_ids" (prompt_compiler.py:253-254): of
\* two activations whose scopes overlap one prevails on all the cameras they
\* share, however the requests, the model's answers and the saves interleave;
\* never each on one of them.  (A save that raised may have left a camera
\* without any.)
OnePrevails ==
  \A r, s \in Requests : \A c, d \in ActivatedScope(r) \cap ActivatedScope(s) :
    active[c] # 0 /\ active[d] # 0 /\ By(c) = r /\ By(d) = s => r = s

\* What an operator may conclude from the replies (dashboard.py:388-403 and
\* 508-527): a request answered with an error before any save raised, or with a
\* preview, has given no camera rules; an activation or a rollback answered as
\* such has given them to all its cameras; and a camera that ever had rules is
\* without any only if a request for it, answered with an error, raised in its save.
RepliesTell ==
  /\ \A r \in Requests :
       /\ request[r].reply \in {"refused", "failed", "compiled"} /\ ~request[r].raised =>
            \A v \in DOMAIN versions : versions[v].by # r
       /\ request[r].reply \in {"activated", "restored"} =>
            \A c \in Scope(r) : \E v \in DOMAIN versions :
              versions[v].camera = c /\ versions[v].by = r
  /\ \A c \in Cameras :
       (\E v \in DOMAIN versions : versions[v].camera = c) /\ active[c] = 0 =>
         \E r \in Requests :
           c \in Scope(r) /\ request[r].raised /\ request[r].reply = "failed"

\* Through parsing, saving and rollbacks the rules a camera works by are the
\* rules of one answer of the model, all of them and in their order, and every
\* field that answer gave as it was asked to, or left out, is as answered.
RulesAsAnswered ==
  \A c \in Cameras : active[c] # 0 =>
    LET answer == versions[active[c]].answer
        rules == RulesOf(active[c])
    IN /\ Len(rules) = Len(answer)
       /\ \A i \in DOMAIN rules : answer[i] # NotARule /\ \A f \in Fields :
            answer[i][f] \in {"absent", "fine"} => rules[i][f] = answer[i][f]
=============================================================================
