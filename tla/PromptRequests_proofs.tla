------------------------ MODULE PromptRequests_proofs ------------------------
(***************************************************************************)
(* Activations that overlap, what the replies say and what becomes of the  *)
(* model's answers, proved for any requests, cameras, scopes and answers,  *)
(* and any number of versions.                                             *)
(***************************************************************************)
EXTENDS PromptRequests, TLAPS

-----------------------------------------------------------------------------
(* Rules through parsing and the table *)

\* How a field of a parsed rule reads.
Values == Readings \cup {"text"}
Rule == [Fields -> Values]

\* A row keeps the fields a rule has.
Row == UNION {[s -> Values] : s \in SUBSET Fields}

LEMMA ParseRuleType ==
  ASSUME NEW raw \in [Fields -> Readings]
  PROVE  /\ ParseRule(raw) \in Rule
         /\ \A f \in Fields : raw[f] \in {"absent", "fine"} => ParseRule(raw)[f] = raw[f]
<1>1. \A f \in Fields :
        /\ ParseRule(raw)[f] \in Values
        /\ raw[f] \in {"absent", "fine"} => ParseRule(raw)[f] = raw[f]
  BY DEF ParseRule, Values, Readings
<1>2. QED BY <1>1 DEF ParseRule, Rule

\* What is written is read back.
LEMMA RoundTrip ==
  ASSUME NEW rule \in Rule
  PROVE  ToRow(rule) \in Row /\ FromRow(ToRow(rule)) = rule
<1> DEFINE given == {g \in Fields : rule[g] # "absent"}
<1>1. DOMAIN ToRow(rule) = given /\ \A f \in given : ToRow(rule)[f] = rule[f]
  BY DEF ToRow
<1>2. ToRow(rule) \in [given -> Values]
  BY DEF ToRow, Rule
<1>3. ToRow(rule) \in Row
  BY <1>2 DEF Row
<1>4. \A f \in Fields : FromRow(ToRow(rule))[f] = rule[f]
  BY <1>1 DEF FromRow
<1>5. FromRow(ToRow(rule)) = rule
  BY <1>4 DEF FromRow, Rule
<1>6. QED BY <1>3, <1>5

LEMMA FromRowType ==
  ASSUME NEW row \in Row
  PROVE  FromRow(row) \in Rule
<1>1. PICK s \in SUBSET Fields : row \in [s -> Values]
  BY DEF Row
<1>2. \A f \in Fields : FromRow(row)[f] \in Values
  BY <1>1 DEF FromRow, Values, Readings
<1>3. QED BY <1>2 DEF FromRow, Rule

\* The rows of parsed rules, and the rows of rules read from rows.
LEMMA RowsOfType ==
  ASSUME NEW rules \in Seq(Rule)
  PROVE  /\ RowsOf(rules) \in Seq(Row) /\ DOMAIN RowsOf(rules) = DOMAIN rules
         /\ Len(RowsOf(rules)) = Len(rules)
         /\ \A i \in DOMAIN rules : FromRow(RowsOf(rules)[i]) = rules[i]
<1>1. DOMAIN rules = 1..Len(rules) /\ Len(rules) \in Nat /\ \A i \in DOMAIN rules : rules[i] \in Rule
  OBVIOUS
<1>2. \A i \in DOMAIN rules : ToRow(rules[i]) \in Row /\ FromRow(ToRow(rules[i])) = rules[i]
  BY <1>1, RoundTrip
<1>3. RowsOf(rules) = [i \in 1..Len(rules) |-> ToRow(rules[i])]
  BY <1>1 DEF RowsOf
<1>4. QED BY <1>1, <1>2, <1>3

\* An answer and the rows that stand for it: as many, in the same order, and
\* every field given as asked, or left out, reads as answered.
AsAnswered(answer, rows) ==
  /\ Len(rows) = Len(answer)
  /\ \A i \in DOMAIN rows : answer[i] # NotARule /\ \A f \in Fields :
       answer[i][f] \in {"absent", "fine"} => FromRow(rows[i])[f] = answer[i][f]

AnswerSet == Seq([Fields -> Readings] \cup {NotARule}) \cup {Garbage}

LEMMA ParsedAsAnswered ==
  ASSUME NEW answer \in AnswerSet, Acceptable(answer)
  PROVE  RowsOf(Parse(answer)) \in Seq(Row) /\ AsAnswered(answer, RowsOf(Parse(answer)))
<1>1. /\ answer \in Seq([Fields -> Readings] \cup {NotARule})
      /\ \A i \in DOMAIN answer : answer[i] # NotARule
  BY DEF AnswerSet, Acceptable
<1>2. /\ DOMAIN answer = 1..Len(answer) /\ Len(answer) \in Nat
      /\ \A i \in DOMAIN answer : answer[i] \in [Fields -> Readings]
  BY <1>1
<1>3. \A i \in DOMAIN answer :
        /\ ParseRule(answer[i]) \in Rule
        /\ \A f \in Fields :
             answer[i][f] \in {"absent", "fine"} => ParseRule(answer[i])[f] = answer[i][f]
  BY <1>2, ParseRuleType
<1>4. Parse(answer) = [i \in 1..Len(answer) |-> ParseRule(answer[i])]
  BY <1>2 DEF Parse
<1>5. /\ Parse(answer) \in Seq(Rule) /\ DOMAIN Parse(answer) = 1..Len(answer)
      /\ Len(Parse(answer)) = Len(answer)
      /\ \A i \in 1..Len(answer) : Parse(answer)[i] = ParseRule(answer[i])
  BY <1>2, <1>3, <1>4
<1>6. /\ RowsOf(Parse(answer)) \in Seq(Row) /\ DOMAIN RowsOf(Parse(answer)) = 1..Len(answer)
      /\ Len(RowsOf(Parse(answer))) = Len(answer)
      /\ \A i \in 1..Len(answer) : FromRow(RowsOf(Parse(answer))[i]) = ParseRule(answer[i])
  BY <1>5, RowsOfType
<1>7. QED BY <1>1, <1>2, <1>3, <1>6 DEF AsAnswered

\* A copy of rows stands for the same answer.
LEMMA CopyAsAnswered ==
  ASSUME NEW rows \in Seq(Row), NEW answer, AsAnswered(answer, rows),
         NEW copy, copy = RowsOf([i \in DOMAIN rows |-> FromRow(rows[i])])
  PROVE  copy \in Seq(Row) /\ AsAnswered(answer, copy)
<1> DEFINE rules == [i \in DOMAIN rows |-> FromRow(rows[i])]
<1>1. DOMAIN rows = 1..Len(rows) /\ Len(rows) \in Nat /\ \A i \in DOMAIN rows : rows[i] \in Row
  OBVIOUS
<1>2. \A i \in DOMAIN rows : FromRow(rows[i]) \in Rule
  BY <1>1, FromRowType
<1>3. rules = [i \in 1..Len(rows) |-> FromRow(rows[i])]
  BY <1>1
<1>4. /\ rules \in Seq(Rule) /\ DOMAIN rules = DOMAIN rows /\ Len(rules) = Len(rows)
      /\ \A i \in DOMAIN rows : rules[i] = FromRow(rows[i])
  BY <1>1, <1>2, <1>3
<1> HIDE DEF rules
<1>5. /\ copy \in Seq(Row) /\ DOMAIN copy = DOMAIN rows /\ Len(copy) = Len(rows)
      /\ \A i \in DOMAIN rows : FromRow(copy[i]) = FromRow(rows[i])
  BY <1>4, RowsOfType DEF rules
<1>6. QED BY <1>5 DEF AsAnswered

-----------------------------------------------------------------------------
(* The invariant *)

RequestRecord ==
  [pc : {"new", "body", "model", "save", "done"},
   kind : {"none", "compile", "activate", "rollback"},
   scope : Seq(Cameras), answer : AnswerSet, todo : Seq(Cameras),
   reply : Replies, raised : BOOLEAN]

Version == [camera : Cameras, rules : Seq(Row), answer : AnswerSet, by : Requests]

Types ==
  /\ loop \in Requests \cup {NoRequest}
  /\ request \in [Requests -> RequestRecord]
  /\ versions \in Seq(Version)
  /\ active \in [Cameras -> Nat]

\* A request that saves holds the loop, has an answer that can be parsed and saves
\* for cameras of its scope, which is one camera for a rollback; one that has
\* ended has replied, and only such a one has raised in a save.
Places ==
  \A r \in Requests :
    /\ request[r].pc = "save" =>
         /\ loop = r /\ Acceptable(request[r].answer)
         /\ \A j \in DOMAIN request[r].todo : request[r].todo[j] \in Scope(r)
    /\ request[r].pc = "done" <=> request[r].reply # "none"
    /\ request[r].raised => request[r].reply = "failed"
    /\ request[r].pc # "new" => request[r].scope # <<>>
    /\ request[r].kind = "rollback" => Len(request[r].scope) = 1

Made(r) == {v \in DOMAIN versions : versions[v].by = r}

\* A request that has not come to saving has stored nothing; nor has one answered
\* with an error or a preview, unless its save raised.
NothingYet ==
  \A r \in Requests :
    \/ request[r].pc \in {"new", "body", "model"}
    \/ request[r].reply \in {"refused", "failed", "compiled"} /\ ~request[r].raised
    => Made(r) = {}

\* What one request stores is not interrupted by what others store: a block of
\* consecutive versions, which is the newest as long as the request is at work.
OneBlock ==
  \A r \in Requests :
    /\ \A u, w \in Made(r), v \in DOMAIN versions : u <= v /\ v <= w => v \in Made(r)
    /\ request[r].pc = "save" /\ Made(r) # {} => Len(versions) \in Made(r)

\* The active version of a camera, if it has one, is its newest ...
NewestActive ==
  \A c \in Cameras : active[c] # 0 =>
    /\ active[c] \in DOMAIN versions /\ versions[active[c]].camera = c
    /\ \A v \in DOMAIN versions : versions[v].camera = c => v <= active[c]

\* ... and it has one once it has versions, unless a request for it raised.
LostByRaise ==
  \A c \in Cameras :
    (\E v \in DOMAIN versions : versions[v].camera = c) /\ active[c] = 0 =>
      \E r \in Requests : c \in Scope(r) /\ request[r].raised

\* The cameras of an activation or a rollback are stored, or still before it.
SavedOrDue ==
  \A r \in Requests :
    request[r].pc = "save" \/ request[r].reply \in {"activated", "restored"} =>
      \A i \in DOMAIN request[r].scope :
        \/ /\ request[r].pc = "save"
           /\ \E j \in DOMAIN request[r].todo : request[r].todo[j] = request[r].scope[i]
        \/ \E v \in Made(r) : versions[v].camera = request[r].scope[i]

VersionsAsAnswered == \A v \in DOMAIN versions : AsAnswered(versions[v].answer, versions[v].rules)

PromptInv ==
  /\ Types
  /\ Places
  /\ NothingYet
  /\ OneBlock
  /\ NewestActive
  /\ LostByRaise
  /\ SavedOrDue
  /\ VersionsAsAnswered

LEMMA NewType == New \in RequestRecord
BY DEF New, RequestRecord, AnswerSet, Replies

LEMMA InitInv == Init => PromptInv
<1> SUFFICES ASSUME Init PROVE PromptInv
  OBVIOUS
<1>2. Types
  BY NewType DEF Init, Types
<1>3. /\ versions = <<>> /\ DOMAIN versions = {} /\ \A c \in Cameras : active[c] = 0
      /\ \A r \in Requests : request[r].pc = "new" /\ request[r].reply = "none" /\ ~request[r].raised
                               /\ request[r].kind = "none"
  BY DEF Init, New
<1>4. QED
  BY <1>2, <1>3
     DEF PromptInv, Places, NothingYet, OneBlock, NewestActive, LostByRaise, SavedOrDue,
         VersionsAsAnswered, Made

-----------------------------------------------------------------------------
(* Steps that store nothing *)

\* What may become of request r's record next.
Follows(r, next) ==
  /\ request[r].pc # "done"
  /\ next \in RequestRecord
  /\ next.pc = "save" =>
       /\ loop' = r /\ Acceptable(next.answer)
       /\ \A j \in DOMAIN next.todo : \E i \in DOMAIN next.scope : next.scope[i] = next.todo[j]
  /\ next.pc = "done" <=> next.reply # "none"
  /\ next.raised => next.reply = "failed"
  /\ next.scope # <<>> /\ (next.kind = "rollback" => Len(next.scope) = 1)
  /\ loop' \in Requests \cup {NoRequest}
  /\ \A s \in Requests \ {r} : loop = s => loop' = s

\* The others stay where they are, and whoever raised has raised.
LEMMA FollowKeeps ==
  ASSUME PromptInv, NEW r \in Requests, NEW next, Follows(r, next),
         request' = [request EXCEPT ![r] = next]
  PROVE  /\ request' \in [Requests -> RequestRecord] /\ loop' \in Requests \cup {NoRequest}
         /\ request'[r] = next /\ \A s \in Requests \ {r} : request'[s] = request[s]
         /\ Places'
         /\ \A s \in Requests, c \in Cameras :
              c \in Scope(s) /\ request[s].raised => (c \in Scope(s) /\ request[s].raised)'
<1>1. /\ request' \in [Requests -> RequestRecord] /\ loop' \in Requests \cup {NoRequest}
      /\ request'[r] = next /\ \A s \in Requests \ {r} : request'[s] = request[s]
  BY DEF PromptInv, Types, Follows
<1>2. \A s \in Requests \ {r} : Scope(s)' = Scope(s)
  BY <1>1 DEF Scope
<1>3. next.pc = "save" => \A j \in DOMAIN next.todo : next.todo[j] \in Scope(r)'
  BY <1>1 DEF Follows, Scope
<1>4. Places'
  BY <1>1, <1>2, <1>3 DEF PromptInv, Places, Follows
<1>5. ~request[r].raised
  BY DEF PromptInv, Places, Follows
<1>6. QED BY <1>1, <1>2, <1>4, <1>5

\* Request r goes on, and the other requests and the table stay as they are.
Moves(r, next) ==
  /\ request' = [request EXCEPT ![r] = next]
  /\ UNCHANGED <<versions, active>>

LEMMA MoveKeeps ==
  ASSUME PromptInv, NEW r \in Requests, NEW next, Moves(r, next), Follows(r, next),
         \/ next.pc \in {"new", "body", "model"}
         \/ next.reply \in {"refused", "failed", "compiled"} /\ ~next.raised
         => Made(r) = {},
         next.pc = "save" => Made(r) = {},
         next.pc = "save" \/ next.reply \in {"activated", "restored"} =>
           \A i \in DOMAIN next.scope :
             \/ next.pc = "save" /\ \E j \in DOMAIN next.todo : next.todo[j] = next.scope[i]
             \/ \E v \in Made(r) : versions[v].camera = next.scope[i]
  PROVE  PromptInv'
<1>1. /\ request' \in [Requests -> RequestRecord] /\ loop' \in Requests \cup {NoRequest}
      /\ request'[r] = next /\ \A s \in Requests \ {r} : request'[s] = request[s]
      /\ Places'
      /\ \A s \in Requests, c \in Cameras :
           c \in Scope(s) /\ request[s].raised => (c \in Scope(s) /\ request[s].raised)'
  BY FollowKeeps DEF Moves
<1>2. (\A s : Made(s)' = Made(s)) /\ UNCHANGED <<versions, active>>
  BY DEF Moves, Made
<1>3. Types'
  BY <1>1, <1>2 DEF PromptInv, Types
<1>4. NothingYet'
  BY <1>1, <1>2 DEF PromptInv, NothingYet
<1>5. OneBlock'
  BY <1>1, <1>2 DEF PromptInv, OneBlock
<1>6. NewestActive' /\ VersionsAsAnswered' /\ LostByRaise'
  BY <1>1, <1>2 DEF PromptInv, NewestActive, VersionsAsAnswered, LostByRaise
<1>7. SavedOrDue'
  BY <1>1, <1>2 DEF PromptInv, SavedOrDue
<1>8. QED BY <1>1, <1>3, <1>4, <1>5, <1>6, <1>7 DEF PromptInv

\* A request before its first save, or with nothing left to save, is answered.
LEMMA AnswerKeeps ==
  ASSUME PromptInv, NEW r \in Requests, NEW reply \in {"refused", "failed", "compiled"},
         request[r].pc \in {"body", "model"}, loop \in {r, NoRequest},
         Reply(r, reply), UNCHANGED <<versions, active>>
  PROVE  PromptInv'
<1> DEFINE next == [request[r] EXCEPT !.pc = "done", !.reply = reply]
<1>1. request[r] \in RequestRecord /\ request \in [Requests -> RequestRecord]
  BY DEF PromptInv, Types
<1>2. /\ next \in RequestRecord /\ next.pc = "done" /\ next.reply = reply
      /\ next.raised = request[r].raised /\ next.scope = request[r].scope
      /\ next.kind = request[r].kind
      /\ request' = [request EXCEPT ![r] = next]
  BY <1>1 DEF Reply, RequestRecord, Replies
<1>3. Made(r) = {} /\ request[r].scope # <<>> /\ ~request[r].raised
      /\ (request[r].kind = "rollback" => Len(request[r].scope) = 1)
  BY DEF PromptInv, NothingYet, Places
<1> HIDE DEF next
<1>4. loop' = NoRequest /\ \A s \in Requests \ {r} : loop # s
  BY PromptAssumption DEF Reply
<1>5. Follows(r, next)
  BY <1>2, <1>3, <1>4 DEF Follows
<1>6. QED BY <1>2, <1>3, <1>5, MoveKeeps DEF Moves

LEMMA ArriveKeeps ==
  ASSUME PromptInv, NEW r \in Requests, NEW kind \in {"compile", "activate", "rollback"},
         NEW scope \in Seq(Cameras), scope # <<>>, kind = "rollback" => Len(scope) = 1,
         Arrive(r, kind, scope)
  PROVE  PromptInv'
<1> DEFINE next == [New EXCEPT !.pc = "body", !.kind = kind, !.scope = scope]
<1>1. /\ next \in RequestRecord /\ next.pc = "body" /\ next.reply = "none"
      /\ ~next.raised /\ next.scope # <<>>
      /\ (next.kind = "rollback" => Len(next.scope) = 1)
  <2>1. New.reply = "none" /\ New.raised = FALSE
    BY DEF New
  <2> HIDE DEF New
  <2>2. QED BY <2>1, NewType DEF RequestRecord
<1>2. request' = [request EXCEPT ![r] = next] /\ Made(r) = {}
  BY DEF Arrive, PromptInv, NothingYet
<1> HIDE DEF next
<1>3. UNCHANGED <<loop, versions, active>> /\ loop \in Requests \cup {NoRequest}
  BY DEF Arrive, PromptInv, Types
<1>4. Follows(r, next)
  BY <1>1, <1>3 DEF Follows, Arrive
<1>5. QED BY <1>1, <1>2, <1>3, <1>4, MoveKeeps DEF Moves

LEMMA ArrivalKeeps ==
  ASSUME PromptInv, NEW r \in Requests, Arrival(r)
  PROVE  PromptInv'
<1>1. \A s \in Scopes : s \in Seq(Cameras) /\ s # <<>>
  BY PromptAssumption
<1>2. \A c \in Cameras : <<c>> \in Seq(Cameras) /\ <<c>> # <<>> /\ Len(<<c>>) = 1
  OBVIOUS
<1>3. QED
  BY <1>1, <1>2, ArriveKeeps
     DEF Arrival, CompileOnDashboard, ActivateOnDashboard, RollbackOnDashboard, CompileOnMobile,
         ActivateOnMobile

LEMMA AskKeeps ==
  ASSUME PromptInv, NEW r \in Requests, Ask(r)
  PROVE  PromptInv'
<1> DEFINE next == [request[r] EXCEPT !.pc = "model"]
<1>1. request[r] \in RequestRecord /\ request[r].pc = "body" /\ loop = NoRequest
  BY DEF PromptInv, Types, Ask, Resumes
<1>2. /\ next \in RequestRecord /\ next.pc = "model" /\ next.reply = request[r].reply
      /\ next.raised = request[r].raised /\ next.scope = request[r].scope
      /\ next.kind = request[r].kind
      /\ request' = [request EXCEPT ![r] = next]
  BY <1>1 DEF Ask, RequestRecord
<1>3. Made(r) = {} /\ request[r].reply = "none" /\ ~request[r].raised /\ request[r].scope # <<>>
      /\ (request[r].kind = "rollback" => Len(request[r].scope) = 1)
  BY <1>1 DEF PromptInv, NothingYet, Places
<1> HIDE DEF next
<1>4. loop' \in {r, NoRequest} /\ UNCHANGED <<versions, active>>
  BY DEF Ask
<1>5. Follows(r, next)
  BY <1>1, <1>2, <1>3, <1>4, PromptAssumption DEF Follows
<1>6. QED BY <1>2, <1>3, <1>4, <1>5, MoveKeeps DEF Moves

LEMMA ConfirmKeeps ==
  ASSUME PromptInv, NEW r \in Requests, Confirm(r)
  PROVE  PromptInv'
<1>1. PICK a \in Answers :
        /\ Acceptable(a)
        /\ request' = [request EXCEPT ![r].pc = "save", ![r].answer = a,
                                      ![r].todo = request[r].scope]
  BY DEF Confirm
<1> DEFINE next == [request[r] EXCEPT !.pc = "save", !.answer = a, !.todo = request[r].scope]
<1>2. /\ request[r] \in RequestRecord /\ request[r].pc = "model" /\ loop \in {r, NoRequest}
      /\ request \in [Requests -> RequestRecord]
  BY DEF PromptInv, Types, Confirm, Awaited
<1>3. a \in AnswerSet
  BY PromptAssumption DEF AnswerSet
<1>4. /\ next \in RequestRecord /\ next.pc = "save" /\ next.reply = request[r].reply
      /\ next.answer = a /\ next.todo = request[r].scope /\ next.scope = request[r].scope
      /\ next.raised = request[r].raised /\ next.kind = request[r].kind
      /\ request' = [request EXCEPT ![r] = next]
  BY <1>1, <1>2, <1>3 DEF RequestRecord
<1>5. Made(r) = {} /\ request[r].reply = "none" /\ ~request[r].raised /\ request[r].scope # <<>>
      /\ (request[r].kind = "rollback" => Len(request[r].scope) = 1)
  BY <1>2 DEF PromptInv, NothingYet, Places
<1> HIDE DEF next
<1>6. loop' = r /\ UNCHANGED <<versions, active>>
  BY DEF Confirm
<1>7. \A i \in DOMAIN next.scope : \E j \in DOMAIN next.todo : next.todo[j] = next.scope[i]
  BY <1>4
<1>8. \A j \in DOMAIN next.todo : \E i \in DOMAIN next.scope : next.scope[i] = next.todo[j]
  BY <1>4
<1>9. \A s \in Requests \ {r} : loop # s
  BY <1>2, PromptAssumption
<1>10. Follows(r, next)
  BY <1>1, <1>2, <1>4, <1>5, <1>6, <1>8, <1>9 DEF Follows
<1>11. QED BY <1>4, <1>5, <1>6, <1>7, <1>10, MoveKeeps DEF Moves

\* The reply when nothing is left to save.
LEMMA ActivatedKeeps ==
  ASSUME PromptInv, NEW r \in Requests, Activated(r)
  PROVE  PromptInv'
<1> DEFINE next == [request[r] EXCEPT !.pc = "done", !.reply = "activated"]
<1>1. /\ request[r] \in RequestRecord /\ request[r].pc = "save" /\ loop = r
      /\ request \in [Requests -> RequestRecord]
      /\ loop' = NoRequest /\ UNCHANGED <<versions, active>>
  BY DEF PromptInv, Types, Activated, Reply
<1>2. /\ next \in RequestRecord /\ next.pc = "done" /\ next.reply = "activated"
      /\ next.scope = request[r].scope /\ next.kind = request[r].kind
      /\ next.raised = request[r].raised
      /\ request' = [request EXCEPT ![r] = next]
  BY <1>1 DEF Activated, Reply, RequestRecord, Replies
<1> HIDE DEF next
<1>3. \A i \in DOMAIN next.scope : \E v \in Made(r) : versions[v].camera = next.scope[i]
  <2>1. DOMAIN request[r].todo = {}
    BY DEF Activated
  <2>2. QED BY <1>1, <1>2, <2>1 DEF PromptInv, SavedOrDue
<1>4. /\ request[r].reply = "none" /\ ~request[r].raised /\ request[r].scope # <<>>
      /\ (request[r].kind = "rollback" => Len(request[r].scope) = 1)
  BY <1>1 DEF PromptInv, Places
<1>5. Follows(r, next)
  BY <1>1, <1>2, <1>4 DEF Follows
<1>6. QED BY <1>1, <1>2, <1>3, <1>5, MoveKeeps DEF Moves

-----------------------------------------------------------------------------
(* Steps that store a version *)

\* What a save makes of the table, when the request has stored nothing yet or
\* nobody has stored anything since.
LEMMA StoreKeeps ==
  ASSUME PromptInv, NEW r \in Requests, NEW c \in Cameras, NEW rows \in Seq(Row),
         NEW answer \in AnswerSet, AsAnswered(answer, rows), Store(r, c, rows, answer),
         Made(r) = {} \/ Len(versions) \in Made(r)
  PROVE  /\ versions' \in Seq(Version) /\ active' \in [Cameras -> Nat]
         /\ VersionsAsAnswered' /\ NewestActive'
         /\ active'[c] # 0 /\ \A d \in Cameras \ {c} : active'[d] = active[d]
         /\ \A v \in DOMAIN versions' : \/ v \in DOMAIN versions /\ versions'[v] = versions[v]
                                        \/ versions'[v].camera = c
         /\ Len(versions)' \in Made(r)' /\ versions'[Len(versions)'].camera = c
         /\ \A v \in DOMAIN versions : v \in DOMAIN versions' /\ versions'[v] = versions[v]
         /\ \A s \in Requests : Made(s) \subseteq Made(s)'
         /\ \A s \in Requests \ {r} : Made(s)' = Made(s)
         /\ \A s \in Requests :
              \A u, w \in Made(s)', v \in (DOMAIN versions)' : u <= v /\ v <= w => v \in Made(s)'
<1> DEFINE new == [camera |-> c, rules |-> rows, answer |-> answer, by |-> r]
<1>1. versions \in Seq(Version) /\ active \in [Cameras -> Nat] /\ new \in Version
  BY DEF PromptInv, Types, Version
<1>2. /\ new.camera = c /\ new.rules = rows /\ new.answer = answer /\ new.by = r
      /\ versions' = Append(versions, new)
  BY DEF Store
<1> HIDE DEF new
<1>3. /\ versions' \in Seq(Version) /\ Len(versions') = Len(versions) + 1 /\ Len(versions) \in Nat
      /\ DOMAIN versions = 1..Len(versions) /\ DOMAIN versions' = 1..(Len(versions) + 1)
      /\ \A v \in 1..Len(versions) : versions'[v] = versions[v]
      /\ versions'[Len(versions) + 1] = new
  BY <1>1, <1>2
<1>4. active' = [active EXCEPT ![c] = Len(versions) + 1]
  BY <1>3 DEF Store
<1>5. active' \in [Cameras -> Nat]
  BY <1>1, <1>3, <1>4
<1>6. VersionsAsAnswered'
  BY <1>2, <1>3 DEF VersionsAsAnswered, PromptInv
<1>7. NewestActive'
  <2> SUFFICES ASSUME NEW d \in Cameras
               PROVE  active'[d] # 0 =>
                        /\ active'[d] \in DOMAIN versions' /\ versions'[active'[d]].camera = d
                        /\ \A v \in DOMAIN versions' : versions'[v].camera = d => v <= active'[d]
    BY DEF NewestActive
  <2>1. CASE d = c
    <3>1. active'[d] = Len(versions) + 1
      BY <1>1, <1>4, <2>1
    <3>2. QED BY <1>2, <1>3, <2>1, <3>1
  <2>2. CASE d # c
    <3>1. active'[d] = active[d]
      BY <1>1, <1>4, <2>2
    <3>2. active[d] # 0 =>
            /\ active[d] \in DOMAIN versions /\ versions[active[d]].camera = d
            /\ \A v \in DOMAIN versions : versions[v].camera = d => v <= active[d]
      BY DEF PromptInv, NewestActive
    <3>3. QED BY <1>2, <1>3, <2>2, <3>1, <3>2
  <2>3. QED BY <2>1, <2>2
<1>8. Made(r)' = Made(r) \cup {Len(versions) + 1}
  BY <1>2, <1>3 DEF Made
<1>9. \A s \in Requests \ {r} : Made(s)' = Made(s)
  BY <1>2, <1>3 DEF Made
<1>10. ASSUME NEW s \in Requests, NEW u \in Made(s)', NEW w \in Made(s)',
              NEW v \in DOMAIN versions', u <= v, v <= w
       PROVE  v \in Made(s)'
  <2>1. \A x, y \in Made(s), z \in DOMAIN versions : x <= z /\ z <= y => z \in Made(s)
    BY DEF PromptInv, OneBlock
  <2>2. Made(s) \subseteq 1..Len(versions)
    BY <1>3 DEF Made
  <2>3. CASE s # r
    <3>1. v \in DOMAIN versions
      BY <1>3, <1>9, <1>10, <2>2, <2>3
    <3>2. QED BY <1>9, <1>10, <2>1, <2>3, <3>1
  <2>4. CASE s = r
    <3>1. CASE v = Len(versions) + 1
      BY <1>8, <2>4, <3>1
    <3>2. CASE v # Len(versions) + 1
      <4>1. v \in 1..Len(versions) /\ u \in 1..Len(versions) /\ u \in Made(r)
        BY <1>3, <1>8, <1>10, <2>2, <2>4, <3>2
      <4>2. Len(versions) \in Made(r)
        BY <4>1
      <4>3. v <= Len(versions)
        BY <1>3, <4>1
      <4>4. QED BY <1>3, <1>8, <1>10, <2>1, <2>4, <4>1, <4>2, <4>3
    <3>3. QED BY <3>1, <3>2
  <2>5. QED BY <2>3, <2>4
<1>11. active'[c] # 0 /\ \A d \in Cameras \ {c} : active'[d] = active[d]
  BY <1>1, <1>3, <1>4
<1>12. \A v \in DOMAIN versions' : \/ v \in DOMAIN versions /\ versions'[v] = versions[v]
                                  \/ versions'[v].camera = c
  BY <1>2, <1>3
<1>13. QED BY <1>2, <1>3, <1>5, <1>6, <1>7, <1>8, <1>9, <1>10, <1>11, <1>12

\* Request r stores a version for camera c and goes on.
LEMMA StorerKeeps ==
  ASSUME PromptInv, NEW r \in Requests, NEW next, Follows(r, next),
         request' = [request EXCEPT ![r] = next],
         NEW c \in Cameras, NEW rows \in Seq(Row),
         NEW answer \in AnswerSet, AsAnswered(answer, rows), Store(r, c, rows, answer),
         Made(r) = {} \/ Len(versions) \in Made(r),
         \A s \in Requests \ {r} : loop # s,
         next.pc \in {"save", "done"},
         next.reply \in {"none", "restored"} \/ (next.reply = "failed" /\ next.raised),
         next.pc = "save" \/ next.reply = "restored" =>
           \A i \in DOMAIN next.scope :
             \/ next.pc = "save" /\ \E j \in DOMAIN next.todo : next.todo[j] = next.scope[i]
             \/ next.scope[i] = c
             \/ \E v \in Made(r) : versions[v].camera = next.scope[i]
  PROVE  PromptInv'
<1>1. /\ versions' \in Seq(Version) /\ active' \in [Cameras -> Nat]
      /\ VersionsAsAnswered' /\ NewestActive'
      /\ active'[c] # 0 /\ \A d \in Cameras \ {c} : active'[d] = active[d]
      /\ \A v \in DOMAIN versions' : \/ v \in DOMAIN versions /\ versions'[v] = versions[v]
                                     \/ versions'[v].camera = c
      /\ Len(versions)' \in Made(r)' /\ versions'[Len(versions)'].camera = c
      /\ \A v \in DOMAIN versions : v \in DOMAIN versions' /\ versions'[v] = versions[v]
      /\ \A s \in Requests : Made(s) \subseteq Made(s)'
      /\ \A s \in Requests \ {r} : Made(s)' = Made(s)
      /\ \A s \in Requests :
           \A u, w \in Made(s)', v \in (DOMAIN versions)' : u <= v /\ v <= w => v \in Made(s)'
  BY StoreKeeps
<1>2. /\ request' \in [Requests -> RequestRecord] /\ loop' \in Requests \cup {NoRequest}
      /\ request'[r] = next /\ \A s \in Requests \ {r} : request'[s] = request[s]
      /\ Places'
      /\ \A s \in Requests, d \in Cameras :
           d \in Scope(s) /\ request[s].raised => (d \in Scope(s) /\ request[s].raised)'
  BY FollowKeeps
<1>3. Types'
  BY <1>1, <1>2 DEF Types
<1>4. LostByRaise'
  <2> SUFFICES ASSUME NEW d \in Cameras, NEW v \in DOMAIN versions', versions'[v].camera = d,
                      active'[d] = 0
               PROVE  \E s \in Requests : (d \in Scope(s) /\ request[s].raised)'
    BY DEF LostByRaise
  <2>1. d # c /\ active[d] = 0 /\ v \in DOMAIN versions /\ versions[v].camera = d
    BY <1>1
  <2>2. QED BY <1>2, <2>1 DEF PromptInv, LostByRaise
<1>5. \A s \in Requests \ {r} : request[s].pc # "save"
  BY DEF PromptInv, Places
<1>6. NothingYet'
  BY <1>1, <1>2 DEF PromptInv, NothingYet
<1>7. OneBlock'
  BY <1>1, <1>2, <1>5 DEF OneBlock
<1>8. SavedOrDue'
  <2> SUFFICES ASSUME NEW s \in Requests,
                      request'[s].pc = "save" \/ request'[s].reply \in {"activated", "restored"},
                      NEW i \in DOMAIN request'[s].scope
               PROVE  \/ /\ request'[s].pc = "save"
                         /\ \E j \in DOMAIN request'[s].todo :
                              request'[s].todo[j] = request'[s].scope[i]
                      \/ \E v \in Made(s)' : versions'[v].camera = request'[s].scope[i]
    BY DEF SavedOrDue
  <2>1. \A v \in Made(s) : v \in Made(s)' /\ versions'[v] = versions[v]
    BY <1>1 DEF Made
  <2>2. CASE s = r
    <3>1. request'[s] = next /\ (next.pc = "save" \/ next.reply = "restored")
      BY <1>2, <2>2
    <3>2. CASE next.scope[i] = c
      BY <1>1, <2>2, <3>1, <3>2
    <3>3. CASE next.scope[i] # c
      BY <2>1, <2>2, <3>1, <3>3
    <3>4. QED BY <3>2, <3>3
  <2>3. CASE s # r
    <3>1. request'[s] = request[s] /\ request[s].pc # "save"
      BY <1>2, <1>5, <2>3
    <3>2. \E v \in Made(s) : versions[v].camera = request[s].scope[i]
      BY <3>1 DEF PromptInv, SavedOrDue
    <3>3. QED BY <2>1, <3>1, <3>2
  <2>4. QED BY <2>2, <2>3
<1>9. QED BY <1>1, <1>2, <1>3, <1>4, <1>6, <1>7, <1>8 DEF PromptInv

\* A save for a camera of r's scope raises, and leaves what it leaves.
LEMMA RaiseKeeps ==
  ASSUME PromptInv, NEW r \in Requests, request[r].pc # "done", request[r].pc # "new",
         \A s \in Requests \ {r} : loop # s,
         NEW c \in Cameras, c \in Scope(r), NEW rows \in Seq(Row),
         NEW answer \in AnswerSet, AsAnswered(answer, rows), Leftover(r, c, rows, answer),
         Raised(r), Made(r) = {} \/ Len(versions) \in Made(r)
  PROVE  PromptInv'
<1> DEFINE next == [request[r] EXCEPT !.pc = "done", !.reply = "failed", !.raised = TRUE]
<1>1. /\ request[r] \in RequestRecord /\ request \in [Requests -> RequestRecord]
      /\ active \in [Cameras -> Nat]
  BY DEF PromptInv, Types
<1>2. /\ next \in RequestRecord /\ next.pc = "done" /\ next.reply = "failed" /\ next.raised = TRUE
      /\ next.scope = request[r].scope /\ next.kind = request[r].kind
      /\ request' = [request EXCEPT ![r] = next] /\ loop' = NoRequest
  BY <1>1 DEF Raised, RequestRecord, Replies
<1> HIDE DEF next
<1>3. request[r].scope # <<>> /\ (request[r].kind = "rollback" => Len(request[r].scope) = 1)
  BY DEF PromptInv, Places
<1>4. Follows(r, next)
  BY <1>2, <1>3 DEF Follows
<1>5. CASE UNCHANGED <<versions, active>>
  BY <1>2, <1>4, <1>5, MoveKeeps DEF Moves
<1>6. CASE Store(r, c, rows, answer)
  BY <1>2, <1>4, <1>6, StorerKeeps
<1>7. CASE active' = [active EXCEPT ![c] = 0] /\ UNCHANGED versions
  <2>1. /\ request' \in [Requests -> RequestRecord] /\ loop' \in Requests \cup {NoRequest}
        /\ request'[r] = next /\ \A s \in Requests \ {r} : request'[s] = request[s]
        /\ Places'
        /\ \A s \in Requests, d \in Cameras :
             d \in Scope(s) /\ request[s].raised => (d \in Scope(s) /\ request[s].raised)'
    BY <1>2, <1>4, FollowKeeps
  <2>2. /\ active' \in [Cameras -> Nat] /\ active'[c] = 0
        /\ \A d \in Cameras \ {c} : active'[d] = active[d]
        /\ versions' = versions /\ \A s : Made(s)' = Made(s)
    BY <1>1, <1>7 DEF Made
  <2>3. Types'
    BY <2>1, <2>2 DEF PromptInv, Types
  <2>4. NothingYet' /\ OneBlock' /\ VersionsAsAnswered'
    BY <1>2, <2>1, <2>2 DEF PromptInv, NothingYet, OneBlock, VersionsAsAnswered
  <2>5. NewestActive'
    BY <2>2 DEF PromptInv, NewestActive
  <2>6. (c \in Scope(r) /\ request[r].raised)'
    BY <1>2, <2>1 DEF Scope
  <2>7. LostByRaise'
    BY <2>1, <2>2, <2>6 DEF PromptInv, LostByRaise
  <2>8. SavedOrDue'
    BY <1>2, <2>1, <2>2 DEF PromptInv, SavedOrDue
  <2>9. QED BY <2>1, <2>3, <2>4, <2>5, <2>7, <2>8 DEF PromptInv
<1>8. QED BY <1>5, <1>6, <1>7 DEF Leftover

\* What is not the head is in the tail.
LEMMA TailIndex ==
  ASSUME NEW S, NEW s \in Seq(S), s # <<>>, NEW j \in DOMAIN s, j # 1
  PROVE  j - 1 \in DOMAIN Tail(s) /\ Tail(s)[j - 1] = s[j]
<1>1. /\ DOMAIN s = 1..Len(s) /\ Len(s) \in Nat /\ Len(s) # 0
      /\ Tail(s) \in Seq(S) /\ Len(Tail(s)) = Len(s) - 1
      /\ \A i \in 1..(Len(s) - 1) : Tail(s)[i] = s[i + 1]
  OBVIOUS
<1>2. j - 1 \in 1..(Len(s) - 1)
  BY <1>1
<1>3. QED BY <1>1, <1>2

LEMMA SaveKeeps ==
  ASSUME PromptInv, NEW r \in Requests, SaveNext(r)
  PROVE  PromptInv'
<1> DEFINE now == request[r]
           c == Head(now.todo)
           next == [now EXCEPT !.todo = Tail(@)]
<1>1. /\ loop = r /\ UNCHANGED loop /\ now.pc = "save" /\ now.todo # <<>>
      /\ Store(r, c, RowsOf(Parse(now.answer)), now.answer)
      /\ request' = [request EXCEPT ![r].todo = Tail(@)]
  BY DEF SaveNext
<1>2. now \in RequestRecord /\ request \in [Requests -> RequestRecord]
  BY DEF PromptInv, Types
<1>3. now.todo \in Seq(Cameras) /\ now.answer \in AnswerSet
  BY <1>2 DEF RequestRecord
<1>4. c \in Cameras /\ Tail(now.todo) \in Seq(Cameras)
  BY <1>1, <1>3
<1>5. /\ next \in RequestRecord /\ next.pc = "save" /\ next.reply = now.reply
      /\ next.answer = now.answer /\ next.scope = now.scope /\ next.todo = Tail(now.todo)
      /\ next.kind = now.kind /\ next.raised = now.raised
      /\ request' = [request EXCEPT ![r] = next]
  BY <1>1, <1>2, <1>4 DEF RequestRecord
<1>6. /\ Acceptable(now.answer) /\ now.reply = "none" /\ ~now.raised /\ now.scope # <<>>
      /\ (now.kind = "rollback" => Len(now.scope) = 1)
      /\ \A j \in DOMAIN now.todo : now.todo[j] \in Scope(r)
  BY <1>1 DEF PromptInv, Places
<1>7. RowsOf(Parse(now.answer)) \in Seq(Row) /\ AsAnswered(now.answer, RowsOf(Parse(now.answer)))
  BY <1>3, <1>6, ParsedAsAnswered
<1>8. Made(r) = {} \/ Len(versions) \in Made(r)
  BY <1>1 DEF PromptInv, OneBlock
<1>9. ASSUME NEW i \in DOMAIN now.scope
      PROVE  \/ \E j \in DOMAIN next.todo : next.todo[j] = now.scope[i]
             \/ now.scope[i] = c
             \/ \E v \in Made(r) : versions[v].camera = now.scope[i]
  <2>1. CASE \E v \in Made(r) : versions[v].camera = now.scope[i]
    BY <2>1
  <2>2. ASSUME NEW j \in DOMAIN now.todo, now.todo[j] = now.scope[i]
        PROVE  \/ \E k \in DOMAIN next.todo : next.todo[k] = now.scope[i]
               \/ now.scope[i] = c
    <3>1. CASE j = 1
      BY <1>1, <1>3, <2>2, <3>1
    <3>2. CASE j # 1
      <4>1. j - 1 \in DOMAIN Tail(now.todo) /\ Tail(now.todo)[j - 1] = now.todo[j]
        BY <1>1, <1>3, <3>2, TailIndex
      <4>2. QED BY <1>5, <2>2, <4>1
    <3>3. QED BY <3>1, <3>2
  <2>3. QED BY <1>1, <2>1, <2>2 DEF PromptInv, SavedOrDue
<1>10. \A j \in DOMAIN next.todo : \E i \in DOMAIN next.scope : next.scope[i] = next.todo[j]
  <2>1. \A j \in DOMAIN Tail(now.todo) :
          j + 1 \in DOMAIN now.todo /\ Tail(now.todo)[j] = now.todo[j + 1]
    BY <1>1, <1>3
  <2>2. QED BY <1>5, <1>6, <2>1 DEF Scope
<1> HIDE DEF now, next, c
<1>11. Follows(r, next)
  BY <1>1, <1>5, <1>6, <1>10 DEF Follows, now, PromptInv, Types
<1>12. \A i \in DOMAIN next.scope :
         \/ next.pc = "save" /\ \E j \in DOMAIN next.todo : next.todo[j] = next.scope[i]
         \/ next.scope[i] = c
         \/ \E v \in Made(r) : versions[v].camera = next.scope[i]
  BY <1>5, <1>9
<1>13. /\ \A s \in Requests \ {r} : loop # s
       /\ next.pc \in {"save", "done"} /\ next.reply = "none"
       /\ request' = [request EXCEPT ![r] = next]
  BY <1>1, <1>5, <1>6
<1>14. QED BY <1>1, <1>3, <1>4, <1>7, <1>8, <1>11, <1>12, <1>13, StorerKeeps

LEMMA SaveRaisesKeeps ==
  ASSUME PromptInv, NEW r \in Requests, SaveRaises(r)
  PROVE  PromptInv'
<1> DEFINE now == request[r]
           c == Head(now.todo)
<1>1. /\ loop = r /\ now.pc = "save" /\ now.todo # <<>> /\ Raised(r)
      /\ Leftover(r, c, RowsOf(Parse(now.answer)), now.answer)
  BY DEF SaveRaises
<1>2. now \in RequestRecord
  BY DEF PromptInv, Types
<1>3. now.todo \in Seq(Cameras) /\ now.answer \in AnswerSet
  BY <1>2 DEF RequestRecord
<1>4. c \in Cameras /\ 1 \in DOMAIN now.todo /\ c = now.todo[1]
  BY <1>1, <1>3
<1>5. Acceptable(now.answer) /\ c \in Scope(r)
  BY <1>1, <1>4 DEF PromptInv, Places
<1>6. RowsOf(Parse(now.answer)) \in Seq(Row) /\ AsAnswered(now.answer, RowsOf(Parse(now.answer)))
  BY <1>3, <1>5, ParsedAsAnswered
<1>7. Made(r) = {} \/ Len(versions) \in Made(r)
  BY <1>1 DEF PromptInv, OneBlock
<1>8. request[r].pc # "done" /\ request[r].pc # "new" /\ \A s \in Requests \ {r} : loop # s
  BY <1>1
<1> HIDE DEF now, c
<1>9. QED BY <1>1, <1>3, <1>4, <1>5, <1>6, <1>7, <1>8, RaiseKeeps

\* The version a rollback is asked for, its camera, and what is known of a copy.
LEMMA RestoringKnows ==
  ASSUME PromptInv, NEW r \in Requests, NEW v \in DOMAIN versions, Restoring(r, v)
  PROVE  /\ request[r].pc = "body" /\ \A s \in Requests : loop # s
         /\ versions[v].camera \in Cameras /\ versions[v].answer \in AnswerSet
         /\ DOMAIN request[r].scope = {1} /\ request[r].scope[1] = versions[v].camera
         /\ versions[v].camera \in Scope(r) /\ request[r].scope # <<>>
         /\ RowsOf(RulesOf(v)) \in Seq(Row)
         /\ AsAnswered(versions[v].answer, RowsOf(RulesOf(v)))
         /\ Made(r) = {}
<1>1. /\ loop = NoRequest /\ request[r].pc = "body" /\ request[r].kind = "rollback"
      /\ versions[v].camera = request[r].scope[1]
  BY DEF Restoring, Resumes
<1>2. request[r] \in RequestRecord /\ versions \in Seq(Version)
  BY DEF PromptInv, Types
<1>3. versions[v] \in Version
  BY <1>2
<1>4. /\ versions[v].camera \in Cameras /\ versions[v].answer \in AnswerSet
      /\ versions[v].rules \in Seq(Row)
  BY <1>3 DEF Version
<1>5. request[r].scope \in Seq(Cameras) /\ Len(request[r].scope) = 1
  BY <1>1, <1>2 DEF RequestRecord, PromptInv, Places
<1>6. DOMAIN request[r].scope = {1} /\ request[r].scope # <<>>
  BY <1>5
<1>7. versions[v].camera \in Scope(r)
  BY <1>1, <1>6 DEF Scope
<1>8. AsAnswered(versions[v].answer, versions[v].rules)
  BY DEF PromptInv, VersionsAsAnswered
<1>9. /\ RowsOf(RulesOf(v)) \in Seq(Row)
      /\ AsAnswered(versions[v].answer, RowsOf(RulesOf(v)))
  BY <1>4, <1>8, CopyAsAnswered DEF RulesOf
<1>10. Made(r) = {}
  BY <1>1 DEF PromptInv, NothingYet
<1>11. \A s \in Requests : loop # s
  BY <1>1, PromptAssumption
<1>12. QED BY <1>1, <1>4, <1>6, <1>7, <1>9, <1>10, <1>11

LEMMA RollbackKeeps ==
  ASSUME PromptInv, NEW r \in Requests, NEW v \in DOMAIN versions, Rollback(r, v)
  PROVE  PromptInv'
<1> DEFINE c == versions[v].camera
           next == [request[r] EXCEPT !.pc = "done", !.reply = "restored"]
<1>1. /\ Restoring(r, v) /\ loop' = NoRequest
      /\ Store(r, c, RowsOf(RulesOf(v)), versions[v].answer)
      /\ request' = [request EXCEPT ![r].pc = "done", ![r].reply = "restored"]
  BY DEF Rollback, Reply
<1>2. /\ request[r].pc = "body" /\ \A s \in Requests : loop # s
      /\ c \in Cameras /\ versions[v].answer \in AnswerSet
      /\ DOMAIN request[r].scope = {1} /\ request[r].scope[1] = c
      /\ request[r].scope # <<>>
      /\ RowsOf(RulesOf(v)) \in Seq(Row)
      /\ AsAnswered(versions[v].answer, RowsOf(RulesOf(v)))
      /\ Made(r) = {}
  BY <1>1, RestoringKnows
<1>3. request[r] \in RequestRecord /\ request \in [Requests -> RequestRecord]
  BY DEF PromptInv, Types
<1>4. /\ next \in RequestRecord /\ next.pc = "done" /\ next.reply = "restored"
      /\ next.scope = request[r].scope /\ next.kind = request[r].kind
      /\ next.raised = request[r].raised
      /\ request' = [request EXCEPT ![r] = next]
  BY <1>1, <1>3 DEF RequestRecord, Replies
<1>5. ~request[r].raised /\ (request[r].kind = "rollback" => Len(request[r].scope) = 1)
  BY <1>2 DEF PromptInv, Places
<1> HIDE DEF c, next
<1>6. Follows(r, next)
  BY <1>1, <1>2, <1>4, <1>5 DEF Follows
<1>7. \A i \in DOMAIN next.scope : next.scope[i] = c
  BY <1>2, <1>4
<1> DEFINE rows == RowsOf(RulesOf(v))
           answer == versions[v].answer
<1>8. /\ rows \in Seq(Row) /\ answer \in AnswerSet /\ AsAnswered(answer, rows)
      /\ Store(r, c, rows, answer) /\ c \in Cameras /\ Made(r) = {}
      /\ \A s \in Requests \ {r} : loop # s
  BY <1>1, <1>2
<1> HIDE DEF rows, answer
<1>9. QED BY <1>4, <1>6, <1>7, <1>8, StorerKeeps

LEMMA RollbackRaisesKeeps ==
  ASSUME PromptInv, NEW r \in Requests, NEW v \in DOMAIN versions, RollbackRaises(r, v)
  PROVE  PromptInv'
<1>1. /\ Restoring(r, v) /\ Raised(r)
      /\ Leftover(r, versions[v].camera, RowsOf(RulesOf(v)), versions[v].answer)
  BY DEF RollbackRaises
<1>2. QED BY <1>1, RestoringKnows, RaiseKeeps

LEMMA HandlerKeeps ==
  ASSUME PromptInv, NEW r \in Requests, Handler(r)
  PROVE  PromptInv'
<1>1. CASE Refuse(r)
  BY <1>1, AnswerKeeps DEF Refuse, Resumes
<1>2. CASE ModelFails(r) \/ Reject(r)
  BY <1>2, AnswerKeeps DEF ModelFails, Reject, Awaited
<1>3. CASE Show(r)
  BY <1>3, AnswerKeeps DEF Show, Awaited
<1>4. CASE RollbackFails(r)
  BY <1>4, AnswerKeeps DEF RollbackFails, Resumes
<1>5. QED
  BY <1>1, <1>2, <1>3, <1>4, AskKeeps, ConfirmKeeps, SaveKeeps, SaveRaisesKeeps, ActivatedKeeps,
     RollbackKeeps, RollbackRaisesKeeps
     DEF Handler

LEMMA InvStep == PromptInv /\ [Next]_vars => PromptInv'
<1> SUFFICES ASSUME PromptInv, [Next]_vars PROVE PromptInv'
  OBVIOUS
<1>1. CASE UNCHANGED vars
  BY <1>1
     DEF vars, PromptInv, Types, Places, NothingYet, OneBlock, NewestActive, LostByRaise,
         SavedOrDue, VersionsAsAnswered, Made, Scope
<1>2. QED BY <1>1, ArrivalKeeps, HandlerKeeps DEF Next

LEMMA PromptInvariant == Spec => []PromptInv
BY InitInv, InvStep, PTL DEF Spec

-----------------------------------------------------------------------------
(* What follows *)

\* The table, the requests and the loop keep their types, and a request that
\* saves holds the loop.
THEOREM TypeCorrect == Spec => []TypeOK
<1>1. PromptInv => TypeOK
  <2> SUFFICES ASSUME PromptInv PROVE TypeOK
    OBVIOUS
  <2>1. \A r \in Requests : request[r] \in RequestRecord
    BY DEF PromptInv, Types
  <2>2. \A v \in DOMAIN versions : versions[v] \in Version
    BY DEF PromptInv, Types
  <2>3. QED
    BY <2>1, <2>2
       DEF PromptInv, Types, Places, NewestActive, TypeOK, RequestRecord, Version
<1>2. QED BY <1>1, PromptInvariant, PTL

\* Of two activations whose scopes overlap one prevails on all the cameras they
\* share: what each stored is one block of versions, and a camera works by its
\* newest.
THEOREM OneActivationPrevails == Spec => []OnePrevails
<1>1. PromptInv => OnePrevails
  <2> SUFFICES ASSUME PromptInv, NEW r \in Requests, NEW s \in Requests,
                      NEW c \in ActivatedScope(r) \cap ActivatedScope(s),
                      NEW d \in ActivatedScope(r) \cap ActivatedScope(s),
                      active[c] # 0, active[d] # 0, By(c) = r, By(d) = s, r # s
               PROVE  FALSE
    BY DEF OnePrevails
  <2>0. versions \in Seq(Version) /\ active \in [Cameras -> Nat]
        /\ request \in [Requests -> RequestRecord]
    BY DEF PromptInv, Types
  <2>1. request[r].reply = "activated" /\ request[s].reply = "activated"
    BY DEF ActivatedScope
  <2>2. request[r].pc # "save" /\ request[s].pc # "save"
    BY <2>1 DEF PromptInv, Places
  <2>3. ASSUME NEW q \in {r, s}, NEW e \in {c, d}
        PROVE  e \in Cameras /\ \E v \in Made(q) : versions[v].camera = e
    <3>1. PICK i \in DOMAIN request[q].scope : request[q].scope[i] = e
      BY <2>1 DEF ActivatedScope, Scope
    <3>2. request[q].scope \in Seq(Cameras)
      BY <2>0 DEF RequestRecord
    <3>3. e \in Cameras
      BY <3>1, <3>2
    <3>4. QED BY <2>1, <2>2, <3>1, <3>3 DEF PromptInv, SavedOrDue
  <2>4. PICK rd \in Made(r) : versions[rd].camera = d
    BY <2>3
  <2>5. PICK sc \in Made(s) : versions[sc].camera = c
    BY <2>3
  <2>6. /\ c \in Cameras /\ d \in Cameras
        /\ DOMAIN versions = 1..Len(versions)
        /\ rd \in DOMAIN versions /\ sc \in DOMAIN versions
    BY <2>0, <2>3 DEF Made
  <2>7. sc <= active[c] /\ rd <= active[d]
    BY <2>0, <2>4, <2>5, <2>6 DEF PromptInv, NewestActive
  <2>8. active[c] \in Made(r) /\ active[d] \in Made(s)
    BY <2>6, <2>7 DEF PromptInv, NewestActive, By, Made
  <2>9. \A v \in DOMAIN versions : ~(v \in Made(r) /\ v \in Made(s))
    BY DEF Made
  <2>10. CASE rd <= sc
    <3>1. sc \in Made(r)
      BY <2>6, <2>7, <2>8, <2>10 DEF PromptInv, OneBlock
    <3>2. QED BY <2>6, <2>9, <3>1
  <2>11. CASE sc <= rd
    <3>1. rd \in Made(s)
      BY <2>6, <2>7, <2>8, <2>11 DEF PromptInv, OneBlock
    <3>2. QED BY <2>6, <2>9, <3>1
  <2>12. QED BY <2>6, <2>10, <2>11
<1>2. QED BY <1>1, PromptInvariant, PTL

\* What a reply says of the cameras' rules is so, also when a save raised and left
\* on the connection what it had done; and no camera is without the rules it once
\* had unless a request answered with an error raised in its save.
THEOREM RepliesTrue == Spec => []RepliesTell
<1>1. PromptInv => RepliesTell
  <2> SUFFICES ASSUME PromptInv PROVE RepliesTell
    OBVIOUS
  <2>1. ASSUME NEW r \in Requests, request[r].reply \in {"refused", "failed", "compiled"},
               ~request[r].raised
        PROVE  \A v \in DOMAIN versions : versions[v].by # r
    BY <2>1 DEF PromptInv, NothingYet, Made
  <2>2. ASSUME NEW r \in Requests, request[r].reply \in {"activated", "restored"},
               NEW c \in Scope(r)
        PROVE  \E v \in DOMAIN versions : versions[v].camera = c /\ versions[v].by = r
    <3>1. PICK i \in DOMAIN request[r].scope : request[r].scope[i] = c
      BY DEF Scope
    <3>2. request[r].pc # "save"
      BY <2>2 DEF PromptInv, Places
    <3>3. QED BY <2>2, <3>1, <3>2 DEF PromptInv, SavedOrDue, Made
  <2>3. ASSUME NEW c \in Cameras, \E v \in DOMAIN versions : versions[v].camera = c, active[c] = 0
        PROVE  \E r \in Requests :
                 c \in Scope(r) /\ request[r].raised /\ request[r].reply = "failed"
    <3>1. PICK r \in Requests : c \in Scope(r) /\ request[r].raised
      BY <2>3 DEF PromptInv, LostByRaise
    <3>2. QED BY <3>1 DEF PromptInv, Places
  <2>4. QED BY <2>1, <2>2, <2>3 DEF RepliesTell
<1>2. QED BY <1>1, PromptInvariant, PTL

\* The rules a camera works by are those of one answer of the model, whatever was
\* activated and rolled back before.
THEOREM RulesFaithful == Spec => []RulesAsAnswered
<1>1. PromptInv => RulesAsAnswered
  <2> SUFFICES ASSUME PromptInv, NEW c \in Cameras, active[c] # 0
               PROVE  LET answer == versions[active[c]].answer
                          rules == RulesOf(active[c])
                      IN  /\ Len(rules) = Len(answer)
                          /\ \A i \in DOMAIN rules : answer[i] # NotARule /\ \A f \in Fields :
                               answer[i][f] \in {"absent", "fine"} => rules[i][f] = answer[i][f]
    BY DEF RulesAsAnswered
  <2> DEFINE a == active[c]
             rows == versions[a].rules
  <2>1. a \in DOMAIN versions /\ versions \in Seq(Version)
    BY DEF PromptInv, NewestActive, Types
  <2>2. versions[a] \in Version
    BY <2>1
  <2>3. rows \in Seq(Row)
    BY <2>2 DEF Version
  <2>4. AsAnswered(versions[a].answer, rows)
    BY <2>1 DEF PromptInv, VersionsAsAnswered
  <2> HIDE DEF a
  <2>5. RulesOf(a) = [i \in 1..Len(rows) |-> FromRow(rows[i])] /\ Len(rows) \in Nat
        /\ DOMAIN rows = 1..Len(rows)
    BY <2>3 DEF RulesOf
  <2> HIDE DEF rows
  <2>6. /\ DOMAIN RulesOf(a) = DOMAIN rows /\ Len(RulesOf(a)) = Len(rows)
        /\ \A i \in DOMAIN rows : RulesOf(a)[i] = FromRow(rows[i])
    BY <2>5
  <2>7. QED BY <2>4, <2>6 DEF AsAnswered, a
<1>2. QED BY <1>1, PromptInvariant, PTL
=============================================================================
