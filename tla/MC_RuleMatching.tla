------------------------- MODULE MC_RuleMatching -------------------------
(* Small instances of RuleMatching for TLC. *)
EXTENDS RuleMatching

Box(x, y, w, h) == [x |-> x, y |-> y, width |-> w, height |-> h]
Window(s, e) == [start |-> s, end |-> e]

Anything == [object_type |-> None, min_confidence |-> None, time_window |-> None,
             zone |-> None, compound |-> None, suppress_if |-> None]

Sub(r) == [f \in {"object_type", "min_confidence", "time_window", "zone"} |-> r[f]]

-----------------------------------------------------------------------------
(* Rulesets: every kind of condition, in every order *)

AnyEvents ==
  [object_type : {"person", "car"}, confidence : {1, 2}, time : {0, 3, 5},
   box : {Box(0, 0, 1, 1), Box(2, 2, 1, 1)}]

Square == <<<<0, 0>>, <<2, 0>>, <<2, 2>>, <<0, 2>>>>
Night == Window(5, 1)
Person == [Anything EXCEPT !.object_type = "person"]
Confident == [Anything EXCEPT !.min_confidence = 2]

AnyRules ==
  { Anything, Person, Confident,
    [Anything EXCEPT !.time_window = Night],
    [Anything EXCEPT !.zone = Square],
    [Person EXCEPT !.zone = <<>>],
    [Person EXCEPT !.zone = <<<<0, 0>>, <<2, 2>>>>],
    [Person EXCEPT !.suppress_if = [object_type |-> None, time_window |-> Night]],
    [Anything EXCEPT !.suppress_if = [object_type |-> "car", time_window |-> None]],
    [Anything EXCEPT !.compound = [operator |-> "or", conditions |-> {Sub(Person), Sub(Confident)}]],
    [Anything EXCEPT !.compound = [operator |-> "and", conditions |-> {Sub(Person), Sub(Confident)}]],
    [Person EXCEPT !.compound = [operator |-> "or", conditions |-> {}]] }

-----------------------------------------------------------------------------
(* Zones and windows: every polygon of at most four vertices on a grid, every  *)
(* window of a short day                                                      *)

Grid == (0..2) \X (0..2)
Polygons == UNION {[1..n -> Grid] : n \in 2..4}

ZoneEvents ==
  [object_type : {"person"}, confidence : {1}, time : {0},
   box : {Box(x, y, w, h) : x \in {0, 1}, y \in {0, 1}, w \in {0, 1}, h \in {1, 2}}]

ZoneRules == {[Anything EXCEPT !.zone = z] : z \in Polygons}

WindowEvents ==
  [object_type : {"person"}, confidence : {1}, time : 0..(Day - 1), box : {Box(0, 0, 1, 1)}]

WindowRules == {[Anything EXCEPT !.time_window = Window(s, e)] : s \in 0..(Day - 1), e \in 0..(Day - 1)}

-----------------------------------------------------------------------------
Rulesets(rules, n) == UNION {[1..k -> rules] : k \in 0..n}

MCEvents == AnyEvents \cup ZoneEvents \cup WindowEvents
MCRules == AnyRules \cup ZoneRules \cup WindowRules

MCScenes ==
  [event : AnyEvents, ruleset : Rulesets(AnyRules, 3)]
    \cup [event : ZoneEvents, ruleset : Rulesets(ZoneRules, 1)]
    \cup [event : WindowEvents, ruleset : Rulesets(WindowRules, 1)]
=============================================================================
