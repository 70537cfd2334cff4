---------------------------- MODULE RuleMatching ----------------------------
(***************************************************************************)
(* The decision of the Context Gate on one event (ContextFilter.evaluate,  *)
(* context_filter.py) and the decision of the rehearsal of a ruleset on    *)
(* stored events (_event_matches_ruleset, prompt_compiler.py), which is    *)
(* documented to use the same logic.  Which ruleset is in force, and since *)
(* when, is module RuleActivation's question.                              *)
(*                                                                         *)
(* An absent condition is None.  Sizes are doubled so that the centre of a *)
(* bounding box is a whole number; the float division of the ray test is   *)
(* taken to be exact.                                                      *)
(***************************************************************************)
EXTENDS Integers, Sequences, FiniteSets

CONSTANTS
  None,      \* a condition that is not set
  Day,       \* minutes of a day
  Events,    \* [object_type, confidence, time, box : [x, y, width, height]]
  Rules,     \* the conditions of Condition, and compound and suppress_if
  Scenes     \* the pairs [event, ruleset] to decide on

ASSUME MatchingAssumption ==
  /\ Day \in Nat \ {0}
  /\ Scenes \subseteq [event : Events, ruleset : Seq(Rules)]

VARIABLES
  event,
  ruleset,       \* RuleSet.rules
  next,          \* the rule the loop looks at
  matched,       \* matched_rule_ids, as positions in the ruleset
  result,        \* FilterResult
  historyNext,
  historyResult  \* whether the rehearsal counts the event

gate == <<next, matched, result>>
history == <<historyNext, historyResult>>
vars == <<event, ruleset, next, matched, result, historyNext, historyResult>>

-----------------------------------------------------------------------------
(* Conditions *)

\* Mutant of TimeInWindow: "and" for "or" in a window past midnight.
TimeInWindowAnd(t, w) ==
  IF w.start <= w.end THEN w.start <= t /\ t <= w.end ELSE t >= w.start /\ t <= w.end

\* A window that ends before it starts runs past midnight.
TimeInWindow(t, w) ==
  IF w.start <= w.end THEN w.start <= t /\ t <= w.end ELSE t >= w.start \/ t <= w.end

Centre(box) == <<2 * box.x + box.width, 2 * box.y + box.height>>

\* Mutant of Crosses: >= for > at one end of the edge.
CrossesTouching(p, a, b) ==
  LET h == b[2] - a[2]
      reach == (b[1] - a[1]) * (p[2] - a[2])
  IN /\ (a[2] >= p[2]) # (b[2] > p[2])
     /\ IF h > 0 THEN (p[1] - a[1]) * h < reach ELSE (p[1] - a[1]) * h > reach

\* The ray from p to the right crosses the edge from a to b.
Crosses(p, a, b) ==
  LET h == b[2] - a[2]
      reach == (b[1] - a[1]) * (p[2] - a[2])
  IN /\ (a[2] > p[2]) # (b[2] > p[2])
     /\ IF h > 0 THEN (p[1] - a[1]) * h < reach ELSE (p[1] - a[1]) * h > reach

\* Vertices are doubled as the centre is.
Vertex(polygon, i) == <<2 * polygon[i][1], 2 * polygon[i][2]>>

PointInPolygon(p, polygon) ==
  LET n == Len(polygon)
      Before(i) == IF i = 1 THEN n ELSE i - 1
      crossed == {i \in 1..n : Crosses(p, Vertex(polygon, i), Vertex(polygon, Before(i)))}
  IN n >= 3 /\ Cardinality(crossed) % 2 = 1

\* The conditions a rule and a compound's sub-condition have in common.
MatchesCondition(e, c) ==
  /\ c.object_type # None => e.object_type = c.object_type
  /\ c.min_confidence # None => e.confidence >= c.min_confidence
  /\ c.time_window # None => TimeInWindow(e.time, c.time_window)
  /\ c.zone # None /\ c.zone # <<>> => PointInPolygon(Centre(e.box), c.zone)

MatchesCompound(e, compound) ==
  \/ compound.conditions = {}
  \/ IF compound.operator = "or"
     THEN \E c \in compound.conditions : MatchesCondition(e, c)
     ELSE \A c \in compound.conditions : MatchesCondition(e, c)

MatchesRule(e, r) ==
  /\ MatchesCondition(e, r)
  /\ r.compound # None => MatchesCompound(e, r.compound)

MatchesSuppress(e, s) ==
  /\ s.object_type # None => e.object_type = s.object_type
  /\ s.time_window # None => TimeInWindow(e.time, s.time_window)

Suppresses(e, r) == r.suppress_if # None /\ MatchesSuppress(e, r.suppress_if)

-----------------------------------------------------------------------------
Init ==
  /\ \E scene \in Scenes : event = scene.event /\ ruleset = scene.ruleset
  /\ next = 1
  /\ matched = {}
  /\ result = "undecided"
  /\ historyNext = 1
  /\ historyResult = "undecided"

(* ContextFilter.evaluate *)

Looking == result = "undecided" /\ next \in 1..Len(ruleset)

NoRuleset ==
  /\ result = "undecided"
  /\ ruleset = <<>>
  /\ result' = "no_active_ruleset"
  /\ UNCHANGED <<event, ruleset, next, matched, history>>

RuleMisses ==
  /\ Looking
  /\ ~MatchesRule(event, ruleset[next])
  /\ next' = next + 1
  /\ UNCHANGED <<event, ruleset, matched, result, history>>

\* Mutant of RuleSuppresses: the loop goes on to the other rules.
SuppressContinues ==
  /\ Looking
  /\ MatchesRule(event, ruleset[next])
  /\ Suppresses(event, ruleset[next])
  /\ next' = next + 1
  /\ UNCHANGED <<event, ruleset, matched, result, history>>

RuleSuppresses ==
  /\ Looking
  /\ MatchesRule(event, ruleset[next])
  /\ Suppresses(event, ruleset[next])
  /\ result' = "suppress_if"
  /\ matched' = {next}
  /\ UNCHANGED <<event, ruleset, next, history>>

RuleMatches ==
  /\ Looking
  /\ MatchesRule(event, ruleset[next])
  /\ ~Suppresses(event, ruleset[next])
  /\ next' = next + 1
  /\ matched' = matched \cup {next}
  /\ UNCHANGED <<event, ruleset, result, history>>

Decide ==
  /\ result = "undecided"
  /\ ruleset # <<>>
  /\ next > Len(ruleset)
  /\ result' = IF matched # {} THEN "passed" ELSE "no_matching_rules"
  /\ UNCHANGED <<event, ruleset, next, matched, history>>

(* _event_matches_ruleset: run after the gate, which it shares nothing with *)

Rehearsing == result # "undecided" /\ historyResult = "undecided"

HistoryCounts ==
  /\ Rehearsing
  /\ historyNext \in 1..Len(ruleset)
  /\ MatchesRule(event, ruleset[historyNext])
  /\ ~Suppresses(event, ruleset[historyNext])
  /\ historyResult' = "counted"
  /\ UNCHANGED <<event, ruleset, gate, historyNext>>

\* Mutant of HistoryGoesOn: the loop ends at the first rule that misses.
HistoryGivesUp ==
  /\ Rehearsing
  /\ historyNext \in 1..Len(ruleset)
  /\ MatchesRule(event, ruleset[historyNext]) => Suppresses(event, ruleset[historyNext])
  /\ historyResult' = "ignored"
  /\ UNCHANGED <<event, ruleset, gate, historyNext>>

HistoryGoesOn ==
  /\ Rehearsing
  /\ historyNext \in 1..Len(ruleset)
  /\ MatchesRule(event, ruleset[historyNext]) => Suppresses(event, ruleset[historyNext])
  /\ historyNext' = historyNext + 1
  /\ UNCHANGED <<event, ruleset, gate, historyResult>>

HistoryEnds ==
  /\ Rehearsing
  /\ historyNext > Len(ruleset)
  /\ historyResult' = "ignored"
  /\ UNCHANGED <<event, ruleset, gate, historyNext>>

Next ==
  \/ NoRuleset
  \/ RuleMisses
  \/ RuleSuppresses
  \/ RuleMatches
  \/ Decide
  \/ HistoryCounts
  \/ HistoryGoesOn
  \/ HistoryEnds

Spec == Init /\ [][Next]_vars

-----------------------------------------------------------------------------
(* Properties *)

\* The loops stay within the ruleset, and report rules of the ruleset (the event
\* and the ruleset are those of the scene throughout).
TypeOK ==
  /\ next \in 1..Len(ruleset) + 1
  /\ matched \subseteq 1..Len(ruleset)
  /\ result \in {"undecided", "passed", "no_active_ruleset", "suppress_if", "no_matching_rules"}
  /\ historyNext \in 1..Len(ruleset) + 1
  /\ historyResult \in {"undecided", "counted", "ignored"}

Matching == {i \in 1..Len(ruleset) : MatchesRule(event, ruleset[i])}

Suppressing == {i \in Matching : Suppresses(event, ruleset[i])}

\* "only events that match at least one rule (and are not suppressed) proceed to
\* VLM reasoning" (context_filter.py:5-6): wherever the loop stops, an event
\* passes exactly when rules match it and none of them suppresses it, whatever
\* the order of the rules, and it is then reported with all of them.
GateExact ==
  /\ result = "passed" => Matching # {} /\ Suppressing = {} /\ matched = Matching
  /\ result = "suppress_if" => Suppressing # {} /\ matched \subseteq Suppressing
  /\ result \in {"no_matching_rules", "no_active_ruleset"} => Matching = {} /\ matched = {}

\* "Uses the same logic as the ContextFilter" (prompt_compiler.py:458): what the
\* gate lets through, the rehearsal counts as a match, and what only the
\* rehearsal counts is an event that one rule matches and another suppresses.
HistoryCoversGate ==
  /\ result = "passed" => historyResult # "ignored"
  /\ historyResult = "counted" => result \in {"passed", "suppress_if"}

\* The minutes from the start of a window on, round midnight, to its end.
Arc(w) == {(w.start + k) % Day : k \in 0..((w.end - w.start) % Day)}

\* "Handles windows that wrap past midnight" (context_filter.py:91): a window is
\* the stretch of the day from its start to its end, both included.
WindowExact ==
  \A i \in DOMAIN ruleset :
    LET w == ruleset[i].time_window
    IN w # None => (TimeInWindow(event.time, w) <=> event.time \in Arc(w))

\* On which side of the line from a to b p lies.
Side(p, a, b) == (b[1] - a[1]) * (p[2] - a[2]) - (b[2] - a[2]) * (p[1] - a[1])

Within(p, a, b, c) ==
  \/ Side(p, a, b) > 0 /\ Side(p, b, c) > 0 /\ Side(p, c, a) > 0
  \/ Side(p, a, b) < 0 /\ Side(p, b, c) < 0 /\ Side(p, c, a) < 0

\* Ray casting against another definition of the inside: a point lies in a zone
\* when an odd number of the triangles that fan out from the first vertex hold
\* it.  Points on the line of an edge of these triangles are left open.
ZoneExact ==
  \A i \in DOMAIN ruleset :
    LET zone == ruleset[i].zone
        p == Centre(event.box)
        V(j) == Vertex(zone, j)
        fan == {j \in 2..Len(zone) - 1 : Within(p, V(1), V(j), V(j + 1))}
        open == \A j, k \in 1..Len(zone) :
                  V(j) # V(k) /\ (j = 1 \/ k = 1 \/ k = j + 1) => Side(p, V(j), V(k)) # 0
    IN zone # None /\ open => (PointInPolygon(p, zone) <=> Cardinality(fan) % 2 = 1)
=============================================================================
