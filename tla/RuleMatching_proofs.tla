------------------------- MODULE RuleMatching_proofs -------------------------
(***************************************************************************)
(* The Context Gate's loop decides as its declarative reading says, for    *)
(* every event and every ruleset of every length; a time window is an arc  *)
(* of the day; and the ray test finds the inside of every polygon.         *)
(***************************************************************************)
EXTENDS RuleMatching, SequenceTheorems, FiniteSetTheorems, NaturalsInduction, TLAPS

\* What the loops have seen so far: in the gate every rule passed over missed
\* or was recorded, in the rehearsal every one missed or was suppressed.
GateLoop ==
  /\ result \in {"undecided", "passed", "no_matching_rules"} =>
       /\ matched = {i \in Matching : i < next}
       /\ \A i \in Suppressing : i >= next
  /\ result = "passed" => next > Len(ruleset) /\ matched # {}
  /\ result = "no_matching_rules" => next > Len(ruleset) /\ matched = {}
  /\ result = "no_active_ruleset" => ruleset = <<>> /\ matched = {}
  /\ result = "suppress_if" => next \in Suppressing /\ matched = {next}

HistoryLoop ==
  /\ \A i \in Matching : i < historyNext => i \in Suppressing
  /\ historyResult = "ignored" => historyNext > Len(ruleset)
  /\ historyResult # "undecided" => result # "undecided"
  /\ historyResult = "counted" => Matching # {}

\* Nothing changes the scene.
Fixed == event \in Events /\ ruleset \in Seq(Rules)

IInv == TypeOK /\ Fixed /\ GateLoop /\ HistoryLoop

LEMMA InitIInv == Init => IInv
<1> SUFFICES ASSUME Init PROVE IInv
  OBVIOUS
<1>1. Fixed
  BY MatchingAssumption DEF Init, Fixed
<1>2. ruleset \in Seq(Rules) /\ Len(ruleset) \in Nat
  BY <1>1, LenProperties DEF Fixed
<1>3. TypeOK
  BY <1>2 DEF Init, TypeOK
<1>4. GateLoop
  BY <1>2 DEF Init, GateLoop, Matching, Suppressing
<1>5. HistoryLoop
  BY <1>2 DEF Init, HistoryLoop, Matching
<1> QED
  BY <1>1, <1>3, <1>4, <1>5 DEF IInv

LEMMA StepIInv == IInv /\ [Next]_vars => IInv'
<1> SUFFICES ASSUME IInv, [Next]_vars PROVE IInv'
  OBVIOUS
<1> USE DEF IInv
<1>0. Len(ruleset) \in Nat
  BY LenProperties DEF Fixed
<1>n. next \in Int /\ historyNext \in Int
  BY <1>0 DEF TypeOK
<1>u. /\ \A i \in Matching : i \in Int /\ 1 <= i /\ i <= Len(ruleset)
      /\ \A i \in Suppressing : i \in Matching
  BY <1>0 DEF Matching, Suppressing
\* A step of the gate's loop leaves the ruleset, and the rehearsal, alone.
<1>s. ASSUME UNCHANGED <<event, ruleset>>
      PROVE  Matching' = Matching /\ Suppressing' = Suppressing
  BY <1>s DEF Matching, Suppressing
<1>f. Fixed'
  BY DEF Fixed, Next, vars, NoRuleset, RuleMisses, RuleSuppresses, RuleMatches, Decide,
         HistoryCounts, HistoryGoesOn, HistoryEnds
<1> USE <1>f
<1>1. CASE NoRuleset
  <2>1. TypeOK'
    BY <1>1 DEF TypeOK, NoRuleset, history
  <2>2. Len(ruleset) = 0
    BY <1>1 DEF NoRuleset
  <2>3. matched = {}
    BY <1>1, <1>u, <2>2 DEF NoRuleset, GateLoop
  <2>4. GateLoop' /\ HistoryLoop'
    BY <1>1, <1>s, <2>3 DEF NoRuleset, GateLoop, HistoryLoop, history
  <2> QED
    BY <2>1, <2>4
<1>2. CASE RuleMisses
  <2>0. next \in 1..Len(ruleset) /\ next + 1 \in 1..Len(ruleset) + 1
    BY <1>2, <1>0 DEF RuleMisses, Looking
  <2>1. TypeOK'
    BY <1>2, <2>0 DEF TypeOK, RuleMisses, history
  <2>2. next \notin Matching
    BY <1>2 DEF RuleMisses, Matching
  <2>3. \A i \in Matching : i < next + 1 <=> i < next \/ i = next
    BY <1>n, <1>u
  <2>4. matched' = {i \in Matching : i < next + 1}
    BY <1>2, <2>2, <2>3 DEF RuleMisses, Looking, GateLoop
  <2>5. \A i \in Suppressing : i >= next + 1
    BY <1>2, <1>n, <1>u, <2>2 DEF RuleMisses, Looking, GateLoop
  <2>6. GateLoop'
    BY <1>2, <1>s, <2>4, <2>5 DEF RuleMisses, Looking, GateLoop, history
  <2>7. HistoryLoop'
    BY <1>2, <1>s DEF RuleMisses, HistoryLoop, history
  <2> QED
    BY <2>1, <2>6, <2>7
<1>3. CASE RuleSuppresses
  <2>1. TypeOK'
    BY <1>3, <1>0 DEF TypeOK, RuleSuppresses, Looking, history
  <2>2. next \in Suppressing
    BY <1>3 DEF RuleSuppresses, Looking, Matching, Suppressing
  <2>3. GateLoop'
    BY <1>3, <1>s, <2>2 DEF RuleSuppresses, GateLoop, history
  <2>4. HistoryLoop'
    BY <1>3, <1>s DEF RuleSuppresses, HistoryLoop, history
  <2> QED
    BY <2>1, <2>3, <2>4
<1>4. CASE RuleMatches
  <2>0. next \in 1..Len(ruleset) /\ next + 1 \in 1..Len(ruleset) + 1
    BY <1>4, <1>0 DEF RuleMatches, Looking
  <2>1. TypeOK'
    BY <1>4, <2>0 DEF TypeOK, RuleMatches, history
  <2>2. next \in Matching /\ next \notin Suppressing
    BY <1>4 DEF RuleMatches, Looking, Matching, Suppressing
  <2>3. \A i \in Matching : i < next + 1 <=> i < next \/ i = next
    BY <1>n, <1>u
  <2>4. matched' = {i \in Matching : i < next + 1}
    BY <1>4, <2>2, <2>3 DEF RuleMatches, Looking, GateLoop
  <2>5. \A i \in Suppressing : i >= next + 1
    <3>1. \A i \in Suppressing : i >= next /\ i # next
      BY <1>4, <2>2 DEF RuleMatches, Looking, GateLoop
    <3> QED
      BY <1>n, <1>u, <3>1
  <2>6. GateLoop'
    BY <1>4, <1>s, <2>4, <2>5 DEF RuleMatches, Looking, GateLoop, history
  <2>7. HistoryLoop'
    BY <1>4, <1>s DEF RuleMatches, HistoryLoop, history
  <2> QED
    BY <2>1, <2>6, <2>7
<1>5. CASE Decide
  <2>1. TypeOK'
    BY <1>5 DEF TypeOK, Decide, history
  <2>2. GateLoop'
    BY <1>5, <1>s DEF Decide, GateLoop, history
  <2>3. HistoryLoop'
    BY <1>5, <1>s DEF Decide, HistoryLoop, history
  <2> QED
    BY <2>1, <2>2, <2>3
<1>6. CASE HistoryCounts
  <2>1. TypeOK'
    BY <1>6 DEF TypeOK, HistoryCounts, gate
  <2>m. historyNext \in Matching /\ historyResult' = "counted" /\ result # "undecided"
    BY <1>6 DEF HistoryCounts, Rehearsing, Matching
  <2>2. GateLoop' /\ HistoryLoop'
    BY <1>6, <1>s, <2>m DEF HistoryCounts, GateLoop, HistoryLoop, gate
  <2> QED
    BY <2>1, <2>2
<1>7. CASE HistoryGoesOn
  <2>0. historyNext \in 1..Len(ruleset) /\ historyNext + 1 \in 1..Len(ruleset) + 1
    BY <1>7, <1>0 DEF HistoryGoesOn
  <2>1. TypeOK'
    BY <1>7, <2>0 DEF TypeOK, HistoryGoesOn, gate
  <2>2. historyNext \in Matching => historyNext \in Suppressing
    BY <1>7 DEF HistoryGoesOn, Matching, Suppressing
  <2>3. \A i \in Matching : i < historyNext + 1 <=> i < historyNext \/ i = historyNext
    BY <1>n, <1>u
  <2>5. HistoryLoop'
    BY <1>7, <1>s, <2>2, <2>3 DEF HistoryGoesOn, HistoryLoop, Rehearsing, gate
  <2>4. GateLoop'
    BY <1>7, <1>s DEF HistoryGoesOn, GateLoop, gate
  <2> QED
    BY <2>1, <2>4, <2>5
<1>8. CASE HistoryEnds
  <2>1. TypeOK'
    BY <1>8 DEF TypeOK, HistoryEnds, gate
  <2>2. GateLoop' /\ HistoryLoop'
    BY <1>8, <1>s DEF HistoryEnds, Rehearsing, GateLoop, HistoryLoop, gate
  <2> QED
    BY <2>1, <2>2
<1>9. CASE UNCHANGED vars
  BY <1>9, <1>s DEF vars, TypeOK, GateLoop, HistoryLoop
<1> QED
  BY <1>1, <1>2, <1>3, <1>4, <1>5, <1>6, <1>7, <1>8, <1>9 DEF Next

\* A passed event was matched by a rule that does not suppress it, and the
\* rehearsal cannot have passed over that rule.
LEMMA IInvCovers == IInv => GateExact /\ HistoryCoversGate
<1> SUFFICES ASSUME IInv PROVE GateExact /\ HistoryCoversGate
  OBVIOUS
<1>0. Len(ruleset) \in Nat
  BY LenProperties DEF IInv, TypeOK
<1>n. next \in Int /\ historyNext \in Int
  BY <1>0 DEF IInv, TypeOK
<1>u. /\ \A i \in Matching : i \in Int /\ 1 <= i /\ i <= Len(ruleset)
      /\ \A i \in Suppressing : i \in Matching
  BY <1>0 DEF Matching, Suppressing
<1>1. GateExact
  <2>1. ASSUME result = "passed"
        PROVE  Matching # {} /\ Suppressing = {} /\ matched = Matching
    <3>1. \A i \in Matching : i < next
      BY <1>0, <1>n, <1>u, <2>1 DEF IInv, GateLoop
    <3>2. \A i \in Suppressing : i >= next
      BY <2>1 DEF IInv, GateLoop
    <3>3. matched = Matching /\ matched # {}
      BY <2>1, <3>1 DEF IInv, GateLoop
    <3>4. Suppressing = {}
      BY <1>n, <1>u, <3>1, <3>2
    <3> QED
      BY <3>3, <3>4
  <2>2. result = "suppress_if" => Suppressing # {} /\ matched \subseteq Suppressing
    BY DEF IInv, GateLoop
  <2>3. result = "no_matching_rules" => Matching = {} /\ matched = {}
    BY <1>0, <1>n, <1>u DEF IInv, GateLoop
  <2>4. result = "no_active_ruleset" => Matching = {} /\ matched = {}
    BY <1>u DEF IInv, GateLoop
  <2> QED
    BY <2>1, <2>2, <2>3, <2>4 DEF GateExact
<1>2. HistoryCoversGate
  <2>c. historyResult = "counted" => result \in {"passed", "suppress_if"}
    BY <1>1 DEF IInv, HistoryLoop, GateExact, TypeOK
  <2>1. SUFFICES ASSUME result = "passed", historyResult = "ignored" PROVE FALSE
    BY <2>c DEF HistoryCoversGate
  <2>2. Matching # {} /\ Suppressing = {}
    BY <1>1, <2>1 DEF GateExact
  <2>3. \A i \in Matching : i < historyNext
    BY <1>0, <1>n, <1>u, <2>1 DEF IInv, HistoryLoop
  <2> QED
    BY <2>2, <2>3 DEF IInv, HistoryLoop
<1> QED
  BY <1>1, <1>2

LEMMA Invariant == Spec => []IInv
  BY InitIInv, StepIInv, PTL DEF Spec

\* The loops never leave the ruleset and report rules of it only
\* (ContextFilter.evaluate, _event_matches_ruleset).
THEOREM TypeCorrect == Spec => []TypeOK
<1>1. IInv => TypeOK
  BY DEF IInv
<1> QED
  BY <1>1, Invariant, PTL

\* An event passes the Context Gate exactly when rules match it and none of
\* them suppresses it, for every event and ruleset (ContextFilter.evaluate).
THEOREM GateDecides == Spec => []GateExact
  BY IInvCovers, Invariant, PTL

\* Whatever the gate lets through, the rehearsal on stored events counts, and
\* it counts besides only what the gate suppresses (_event_matches_ruleset).
THEOREM HistoryCovers == Spec => []HistoryCoversGate
  BY IInvCovers, Invariant, PTL

-----------------------------------------------------------------------------
(* Windows *)

\* Times are minutes of the day, as "HH:MM" and the hour and minute of a
\* timestamp give them.
MinutesOfDay ==
  /\ \A e \in Events : e.time \in 0..(Day - 1)
  /\ \A r \in Rules : r.time_window # None =>
       r.time_window.start \in 0..(Day - 1) /\ r.time_window.end \in 0..(Day - 1)

\* Remainders within a day of the day.
LEMMA WithinDay ==
  /\ \A a \in 0..(Day - 1) : a % Day = a
  /\ \A a \in Day..(2 * Day - 1) : a % Day = a - Day
  /\ \A a \in (-Day)..(-1) : a % Day = a + Day
<1> USE MatchingAssumption
<1>1. ASSUME NEW a \in 0..(Day - 1) PROVE a % Day = a
  BY <1>1
<1>2. ASSUME NEW a \in Day..(2 * Day - 1) PROVE a % Day = a - Day
  BY <1>2
<1>3. ASSUME NEW a \in (-Day)..(-1) PROVE a % Day = a + Day
  BY <1>3
<1>4. QED BY <1>1, <1>2, <1>3

\* The comparison decides whether a time lies on the way round from the start of
\* the window to its end.
LEMMA WindowIsArc ==
  ASSUME NEW w, NEW t \in 0..(Day - 1), w.start \in 0..(Day - 1), w.end \in 0..(Day - 1)
  PROVE  TimeInWindow(t, w) <=> t \in Arc(w)
<1> DEFINE s == w.start
           e == w.end
           long == (e - s) % Day
<1>0. Day \in Nat \ {0} /\ s \in 0..(Day - 1) /\ e \in 0..(Day - 1)
  BY MatchingAssumption
<1> HIDE DEF s, e
<1>1. CASE s <= e
  <2>1. long = e - s
    BY <1>0, <1>1, WithinDay
  <2>2. \A k \in 0..(e - s) : (s + k) % Day = s + k
    BY <1>0, <1>1, WithinDay
  <2>3. t \in {(s + k) % Day : k \in 0..long} <=> \E k \in 0..(e - s) : t = s + k
    BY <2>1, <2>2
  <2>4. (\E k \in 0..(e - s) : t = s + k) <=> s <= t /\ t <= e
    <3>1. ASSUME s <= t, t <= e PROVE t - s \in 0..(e - s) /\ t = s + (t - s)
      BY <1>0, <3>1
    <3>2. QED BY <1>0, <3>1
  <2>5. QED BY <1>1, <2>3, <2>4 DEF TimeInWindow, Arc, s, e
<1>2. CASE s > e
  <2>1. long = e - s + Day
    <3>1. e - s \in (-Day)..(-1)
      BY <1>0, <1>2
    <3>2. QED BY <3>1, WithinDay
  <2>2. ASSUME NEW k \in 0..long
        PROVE  (s + k) % Day = IF s + k < Day THEN s + k ELSE s + k - Day
    <3>1. k \in 0..(e - s + Day)
      BY <2>1
    <3>2. s + k \in 0..(Day - 1) \/ s + k \in Day..(2 * Day - 1)
      BY <1>0, <1>2, <3>1
    <3>3. CASE s + k \in 0..(Day - 1)
      BY <1>0, <3>3, WithinDay
    <3>4. CASE s + k \in Day..(2 * Day - 1)
      BY <1>0, <3>4, WithinDay
    <3>5. QED BY <3>2, <3>3, <3>4
  <2>3. ASSUME NEW k \in 0..long, t = (s + k) % Day PROVE t >= s \/ t <= e
    <3>1. k \in 0..(e - s + Day)
      BY <2>1
    <3>2. CASE s + k < Day
      BY <1>0, <2>2, <2>3, <3>1, <3>2
    <3>3. CASE ~(s + k < Day)
      BY <1>0, <2>2, <2>3, <3>1, <3>3
    <3>4. QED BY <3>2, <3>3
  <2>4. ASSUME t >= s PROVE \E k \in 0..long : t = (s + k) % Day
    <3>1. t - s \in 0..long
      BY <1>0, <1>2, <2>1, <2>4
    <3>2. s + (t - s) = t /\ t % Day = t
      BY <1>0, WithinDay
    <3>3. QED BY <3>1, <3>2
  <2>5. ASSUME t <= e PROVE \E k \in 0..long : t = (s + k) % Day
    <3>1. t - s + Day \in 0..long
      BY <1>0, <1>2, <2>1, <2>5
    <3>2. s + (t - s + Day) = t + Day /\ (t + Day) % Day = t
      <4> DEFINE u == t + Day
      <4>1. u \in Day..(2 * Day - 1) /\ u - Day = t /\ s + (t - s + Day) = u
        BY <1>0
      <4> HIDE DEF u
      <4>2. u % Day = u - Day
        BY <4>1, WithinDay
      <4>3. QED BY <4>1, <4>2 DEF u
    <3>3. QED BY <3>1, <3>2
  <2>6. QED BY <1>0, <1>2, <2>3, <2>4, <2>5 DEF TimeInWindow, Arc, s, e
<1>3. QED BY <1>0, <1>1, <1>2

\* A window is the stretch of the day from its start to its end, past midnight
\* where it has to, for days of any length (time_in_window).
THEOREM WindowsExact ==
  ASSUME MinutesOfDay
  PROVE  Spec => []WindowExact
<1>1. IInv => WindowExact
  <2> SUFFICES ASSUME IInv, NEW i \in DOMAIN ruleset, ruleset[i].time_window # None
               PROVE  TimeInWindow(event.time, ruleset[i].time_window)
                        <=> event.time \in Arc(ruleset[i].time_window)
    BY DEF WindowExact
  <2>1. event \in Events /\ ruleset[i] \in Rules
    BY DEF IInv, Fixed
  <2>2. QED BY <2>1, WindowIsArc DEF MinutesOfDay
<1>2. QED BY <1>1, Invariant, PTL

-----------------------------------------------------------------------------
(* Zones *)

\* Induction over the naturals, for a set.
LEMMA Induction ==
  ASSUME NEW S, 0 \in S, \A k \in Nat : k \in S => k + 1 \in S
  PROVE  Nat \subseteq S
<1> DEFINE Less == OpToRel(<, Nat)
           T == Nat \ S
<1>1. SUFFICES ASSUME T # {} PROVE FALSE
  OBVIOUS
<1>2. PICK x \in T : \A y \in T : ~(<<y, x>> \in Less)
  <2> HIDE DEF T, Less
  <2>1. T \subseteq Nat
    BY DEF T
  <2>2. IsWellFoundedOn(Less, Nat)
    BY NatLessThanWellFounded DEF Less
  <2>3. QED BY <1>1, <2>1, <2>2, WFMin
<1>3. x \in Nat /\ x # 0 /\ x - 1 \in Nat
  OBVIOUS
<1>4. x - 1 \in T
  BY <1>3
<1>5. <<x - 1, x>> \in Less
  BY <1>3 DEF OpToRel
<1>6. QED BY <1>2, <1>4, <1>5

Odd(S) == Cardinality(S) % 2 = 1

\* An element more changes the parity.
LEMMA OneMore ==
  ASSUME NEW S, IsFiniteSet(S), NEW x, x \notin S
  PROVE  Odd(S \cup {x}) <=> ~Odd(S)
<1>1. Cardinality(S) \in Nat /\ Cardinality(S \cup {x}) = Cardinality(S) + 1
  BY FS_AddElement, FS_CardinalityType
<1>2. ASSUME NEW c \in Nat PROVE (c + 1) % 2 = 1 <=> ~(c % 2 = 1)
  BY <1>2
<1>3. QED BY <1>1, <1>2 DEF Odd

\* E are the edges crossed, D the diagonals from the first vertex, W the
\* triangles of the fan around the point: where each triangle tells of its three
\* sides, the first m vertices tell of the first m - 2 triangles, for every m.
LEMMA FanParity ==
  ASSUME NEW n \in Nat, NEW E, NEW D, NEW W,
         2 \in E <=> 2 \in D,
         \A j \in 2..(n - 1) : j \in W <=> ((j \in D <=> j + 1 \in E) <=> j + 1 \in D)
  PROVE  \A m \in 2..n : (Odd(E \cap 2..m) <=> m \in D) <=> ~Odd(W \cap 2..(m - 1))
<1> DEFINE Fits(m) == (Odd(E \cap 2..m) <=> m \in D) <=> ~Odd(W \cap 2..(m - 1))
           S == {k \in Nat : k + 2 <= n => Fits(k + 2)}
<1>e. ~Odd({})
  BY FS_EmptySet DEF Odd
<1>f. ASSUME NEW X, NEW m \in Nat PROVE IsFiniteSet(X \cap 2..m)
  <2>1. IsFiniteSet(2..m)
    BY FS_Interval
  <2>2. X \cap 2..m \subseteq 2..m
    OBVIOUS
  <2>3. QED BY <2>1, <2>2, FS_Subset
<1>g. ASSUME NEW X, NEW m \in Nat, m >= 1
      PROVE  Odd(X \cap 2..(m + 1)) <=> ~(m + 1 \in X <=> Odd(X \cap 2..m))
  <2>1. CASE m + 1 \in X
    <3>1. X \cap 2..(m + 1) = (X \cap 2..m) \cup {m + 1}
      BY <1>g, <2>1
    <3>2. IsFiniteSet(X \cap 2..m)
      BY <1>f, <1>g
    <3>n. m + 1 \notin X \cap 2..m
      OBVIOUS
    <3>3. Odd((X \cap 2..m) \cup {m + 1}) <=> ~Odd(X \cap 2..m)
      BY <3>2, <3>n, OneMore
    <3>4. QED BY <3>1, <3>3, <2>1
  <2>2. CASE m + 1 \notin X
    <3>1. X \cap 2..(m + 1) = X \cap 2..m
      BY <1>g, <2>2
    <3>2. QED BY <3>1, <2>2
  <2>3. QED BY <2>1, <2>2
<1>1. 0 \in S
  <2>1. W \cap 2..1 = {} /\ E \cap 2..1 = {}
    OBVIOUS
  <2>2. Odd(E \cap 2..2) <=> 2 \in E
    <3>1. Odd(E \cap 2..(1 + 1)) <=> ~(1 + 1 \in E <=> Odd(E \cap 2..1))
      BY <1>g
    <3>2. QED BY <3>1, <2>1, <1>e
  <2>3. Fits(2)
    BY <2>1, <2>2, <1>e
  <2>4. QED BY <2>3
<1>2. ASSUME NEW k \in Nat, k \in S PROVE k + 1 \in S
  <2> SUFFICES ASSUME k + 1 + 2 <= n PROVE Fits(k + 1 + 2)
    OBVIOUS
  <2> DEFINE m == k + 2
  <2>1. Fits(m)
    BY <1>2
  <2>2. m \in 2..(n - 1) /\ m - 1 \in Nat /\ m \in Nat /\ m - 1 >= 1 /\ m >= 1 /\ k + 1 + 2 = m + 1 /\ (m + 1) - 1 = m
        /\ (m - 1) + 1 = m
    OBVIOUS
  <2>3. m \in W <=> ((m \in D <=> m + 1 \in E) <=> m + 1 \in D)
    BY <2>2
  <2> HIDE DEF m
  <2>4. Odd(E \cap 2..(m + 1)) <=> ~(m + 1 \in E <=> Odd(E \cap 2..m))
    BY <1>g, <2>2
  <2>5. Odd(W \cap 2..m) <=> ~(m \in W <=> Odd(W \cap 2..(m - 1)))
    <3>1. Odd(W \cap 2..((m - 1) + 1)) <=> ~((m - 1) + 1 \in W <=> Odd(W \cap 2..(m - 1)))
      BY <1>g, <2>2
    <3>2. QED BY <3>1, <2>2
  <2>6. Fits(m + 1)
    BY <2>1, <2>2, <2>3, <2>4, <2>5
  <2>7. QED BY <2>2, <2>6
<1>3. Nat \subseteq S
  <2> HIDE DEF S
  <2> QED BY <1>1, <1>2, Induction
<1>4. ASSUME NEW m \in 2..n PROVE Fits(m)
  <2>1. m - 2 \in Nat /\ (m - 2) + 2 = m /\ m <= n
    OBVIOUS
  <2>2. m - 2 \in S
    BY <2>1, <1>3
  <2> HIDE DEF Fits
  <2>3. QED BY <2>1, <2>2
<1>5. QED BY <1>4

\* With the sides known, an edge is crossed when its ends lie on either side of
\* the ray's line and p on the side the direction of the edge asks for.
LEMMA CrossesBySide ==
  ASSUME NEW p \in Int \X Int, NEW a \in Int \X Int, NEW b \in Int \X Int,
         Side(p, a, b) # 0 \/ a = b
  PROVE  Crosses(p, a, b) <=> \/ a[2] <= p[2] /\ b[2] > p[2] /\ Side(p, a, b) > 0
                              \/ a[2] > p[2] /\ b[2] <= p[2] /\ Side(p, a, b) < 0
<1> DEFINE h == b[2] - a[2]
           left == (p[1] - a[1]) * h
           reach == (b[1] - a[1]) * (p[2] - a[2])
<1>1. h \in Int /\ left \in Int /\ reach \in Int /\ p[2] \in Int /\ a[2] \in Int /\ b[2] \in Int
  OBVIOUS
<1>2. Side(p, a, b) = reach - left
  <2>1. (b[2] - a[2]) * (p[1] - a[1]) = left
    OBVIOUS
  <2>2. QED BY <2>1 DEF Side
<1>3. Crosses(p, a, b) <=> /\ (a[2] > p[2]) # (b[2] > p[2])
                           /\ IF h > 0 THEN left < reach ELSE left > reach
  BY DEF Crosses
<1>4. h > 0 <=> b[2] > a[2]
  BY <1>1
<1>5. a = b => a[2] = b[2]
  OBVIOUS
<1>6. (a[2] > p[2]) # (b[2] > p[2]) <=> \/ a[2] <= p[2] /\ b[2] > p[2]
                                        \/ a[2] > p[2] /\ b[2] <= p[2]
  BY <1>1
<1> HIDE DEF h, left, reach
<1>7. QED BY <1>1, <1>2, <1>3, <1>4, <1>5, <1>6

\* The other way round an edge p lies on its other side.
LEMMA SideTurns ==
  ASSUME NEW p \in Int \X Int, NEW a \in Int \X Int, NEW b \in Int \X Int
  PROVE  Side(p, a, b) \in Int /\ Side(p, b, a) = -Side(p, a, b)
  BY DEF Side

\* An edge is crossed either way round or neither.
LEMMA CrossesTurns ==
  ASSUME NEW p \in Int \X Int, NEW a \in Int \X Int, NEW b \in Int \X Int,
         Side(p, a, b) # 0 \/ a = b
  PROVE  Crosses(p, a, b) <=> Crosses(p, b, a)
<1>1. Side(p, a, b) \in Int /\ Side(p, b, a) = -Side(p, a, b) /\ p[2] \in Int /\ a[2] \in Int /\ b[2] \in Int
  BY SideTurns
<1>2. Side(p, b, a) # 0 \/ b = a
  BY <1>1
<1>3. QED BY <1>1, <1>2, CrossesBySide

\* The sides of p at the edges of a triangle, weighted with the heights of the
\* opposite corners over p, cancel out.
LEMMA Balance ==
  ASSUME NEW p \in Int \X Int, NEW a \in Int \X Int, NEW b \in Int \X Int, NEW c \in Int \X Int
  PROVE  (a[2] - p[2]) * Side(p, b, c) + (b[2] - p[2]) * Side(p, c, a) + (c[2] - p[2]) * Side(p, a, b) = 0
  BY DEF Side

LEMMA Signs ==
  /\ \A x, y \in Int : x > 0 /\ y > 0 => x * y > 0
  /\ \A x, y \in Int : x <= 0 /\ y > 0 => x * y <= 0
  /\ \A x, y \in Int : x > 0 /\ y < 0 => x * y < 0
  /\ \A x, y \in Int : x <= 0 /\ y < 0 => x * y >= 0
  OBVIOUS

\* One corner above the ray's line and the others not, or the other way round:
\* when p is on the same side of the edges at that corner, it is on that side of
\* the opposite edge.
LEMMA OppositeEdge ==
  ASSUME NEW x \in Int, NEW y \in Int, NEW z \in Int,
         NEW s \in Int, NEW t \in Int, NEW u \in Int,
         x * s + y * t + z * u = 0, s # 0,
         \/ x > 0 /\ y <= 0 /\ z <= 0
         \/ x <= 0 /\ y > 0 /\ z > 0
  PROVE  /\ t > 0 /\ u > 0 => s > 0
         /\ t < 0 /\ u < 0 => s < 0
<1>0. x * s \in Int /\ y * t \in Int /\ z * u \in Int
  OBVIOUS
<1>1. CASE x > 0 /\ y <= 0 /\ z <= 0
  <2>1. ASSUME t > 0, u > 0, s < 0 PROVE FALSE
    <3>1. x * s < 0 /\ y * t <= 0 /\ z * u <= 0
      BY <1>1, <2>1, Signs
    <3>2. QED BY <1>0, <3>1
  <2>2. ASSUME t < 0, u < 0, s > 0 PROVE FALSE
    <3>1. x * s > 0 /\ y * t >= 0 /\ z * u >= 0
      BY <1>1, <2>2, Signs
    <3>2. QED BY <1>0, <3>1
  <2>3. QED BY <2>1, <2>2
<1>2. CASE x <= 0 /\ y > 0 /\ z > 0
  <2>1. ASSUME t > 0, u > 0, s < 0 PROVE FALSE
    <3>1. x * s >= 0 /\ y * t > 0 /\ z * u > 0
      BY <1>2, <2>1, Signs
    <3>2. QED BY <1>0, <3>1
  <2>2. ASSUME t < 0, u < 0, s > 0 PROVE FALSE
    <3>1. x * s <= 0 /\ y * t < 0 /\ z * u < 0
      BY <1>2, <2>2, Signs
    <3>2. QED BY <1>0, <3>1
  <2>3. QED BY <2>1, <2>2
<1>3. QED BY <1>1, <1>2

\* No triangle lies wholly above the line, or wholly not above it, and around p.
LEMMA NotAround ==
  ASSUME NEW x \in Int, NEW y \in Int, NEW z \in Int,
         NEW s \in Int, NEW t \in Int, NEW u \in Int,
         x * s + y * t + z * u = 0,
         \/ x > 0 /\ y > 0 /\ z > 0
         \/ x < 0 /\ y <= 0 /\ z <= 0
         \/ x <= 0 /\ y < 0 /\ z <= 0
         \/ x <= 0 /\ y <= 0 /\ z < 0
  PROVE  ~(s > 0 /\ t > 0 /\ u > 0) /\ ~(s < 0 /\ t < 0 /\ u < 0)
<1>0. x * s \in Int /\ y * t \in Int /\ z * u \in Int
  OBVIOUS
<1>s. \A v, w \in Int : (v < 0 /\ w > 0 => v * w < 0) /\ (v < 0 /\ w < 0 => v * w > 0)
  OBVIOUS
<1>1. ASSUME s > 0, t > 0, u > 0 PROVE FALSE
  <2>1. /\ x > 0 => x * s > 0
        /\ y > 0 => y * t > 0
        /\ z > 0 => z * u > 0
        /\ x <= 0 => x * s <= 0
        /\ y <= 0 => y * t <= 0
        /\ z <= 0 => z * u <= 0
    BY <1>1, Signs
  <2>2. /\ x < 0 => x * s < 0
        /\ y < 0 => y * t < 0
        /\ z < 0 => z * u < 0
    BY <1>1, <1>s
  <2>3. QED BY <1>0, <2>1, <2>2
<1>2. ASSUME s < 0, t < 0, u < 0 PROVE FALSE
  <2>1. /\ x > 0 => x * s < 0
        /\ y > 0 => y * t < 0
        /\ z > 0 => z * u < 0
        /\ x <= 0 => x * s >= 0
        /\ y <= 0 => y * t >= 0
        /\ z <= 0 => z * u >= 0
    BY <1>2, Signs
  <2>2. /\ x < 0 => x * s > 0
        /\ y < 0 => y * t > 0
        /\ z < 0 => z * u > 0
    BY <1>2, <1>s
  <2>3. QED BY <1>0, <2>1, <2>2
<1>3. QED BY <1>1, <1>2

\* The ray crosses an odd number of the edges of a triangle exactly when p is
\* inside; two corners may be the same.
LEMMA Triangle ==
  ASSUME NEW p \in Int \X Int, NEW a \in Int \X Int, NEW b \in Int \X Int, NEW c \in Int \X Int,
         Side(p, a, b) # 0 \/ a = b,
         Side(p, b, c) # 0 \/ b = c,
         Side(p, c, a) # 0 \/ c = a
  PROVE  Within(p, a, b, c) <=> ((Crosses(p, a, b) <=> Crosses(p, b, c)) <=> Crosses(p, c, a))
<1> DEFINE s == Side(p, b, c)
           t == Side(p, c, a)
           u == Side(p, a, b)
           x == a[2] - p[2]
           y == b[2] - p[2]
           z == c[2] - p[2]
<1>i. /\ s \in Int /\ t \in Int /\ u \in Int /\ x \in Int /\ y \in Int /\ z \in Int
      /\ x * s + y * t + z * u = 0
  <2>1. s \in Int /\ t \in Int /\ u \in Int
    BY SideTurns
  <2>2. x \in Int /\ y \in Int /\ z \in Int
    OBVIOUS
  <2>3. x * s + y * t + z * u = 0
    BY Balance
  <2>4. QED BY <2>1, <2>2, <2>3
<1>w. Within(p, a, b, c) <=> (u > 0 /\ s > 0 /\ t > 0) \/ (u < 0 /\ s < 0 /\ t < 0)
  BY DEF Within
<1>0. ASSUME NEW q \in Int \X Int PROVE Side(p, q, q) = 0 /\ ~Crosses(p, q, q)
  BY DEF Side, Crosses
\* A triangle with two corners in the same place is a line there and back.
<1>d. CASE a = b \/ b = c \/ c = a
  <2>1. ~Within(p, a, b, c)
    <3>1. u = 0 \/ s = 0 \/ t = 0
      BY <1>d, <1>0
    <3> HIDE DEF s, t, u
    <3>2. QED BY <1>w, <3>1
  <2>2. CASE a = b
    BY <2>1, <2>2, <1>0, CrossesTurns
  <2>3. CASE b = c
    BY <2>1, <2>3, <1>0, CrossesTurns
  <2>4. CASE c = a
    BY <2>1, <2>4, <1>0, CrossesTurns
  <2>5. QED BY <1>d, <2>2, <2>3, <2>4
<1>g. CASE s # 0 /\ t # 0 /\ u # 0
  <2>a. Crosses(p, a, b) <=> (x <= 0 /\ y > 0 /\ u > 0) \/ (x > 0 /\ y <= 0 /\ u < 0)
    BY <1>i, CrossesBySide
  <2>b. Crosses(p, b, c) <=> (y <= 0 /\ z > 0 /\ s > 0) \/ (y > 0 /\ z <= 0 /\ s < 0)
    BY <1>i, CrossesBySide
  <2>c. Crosses(p, c, a) <=> (z <= 0 /\ x > 0 /\ t > 0) \/ (z > 0 /\ x <= 0 /\ t < 0)
    BY <1>i, CrossesBySide
  <2>n. ~(x = 0 /\ y = 0 /\ z = 0)
    <3>1. SUFFICES ASSUME a[2] = p[2], b[2] = p[2] PROVE Side(p, a, b) = 0
      BY <1>g
    <3>2. a[1] \in Int /\ b[1] \in Int /\ p[1] \in Int /\ p[2] \in Int
      OBVIOUS
    <3>3. p[2] - a[2] = 0 /\ b[2] - a[2] = 0
      BY <3>1, <3>2
    <3>4. QED BY <3>2, <3>3 DEF Side
  <2> HIDE DEF s, t, u, x, y, z
  <2>1. CASE (x > 0 /\ y > 0 /\ z > 0) \/ (x <= 0 /\ y <= 0 /\ z <= 0)
    <3>1. ~(s > 0 /\ t > 0 /\ u > 0) /\ ~(s < 0 /\ t < 0 /\ u < 0)
      BY <1>i, <2>1, <2>n, NotAround
    <3>2. QED BY <1>i, <1>w, <2>a, <2>b, <2>c, <2>1, <3>1
  <2>2. CASE (x > 0 /\ y <= 0 /\ z <= 0) \/ (x <= 0 /\ y > 0 /\ z > 0)
    <3>1. (t > 0 /\ u > 0 => s > 0) /\ (t < 0 /\ u < 0 => s < 0)
      BY <1>i, <1>g, <2>2, OppositeEdge
    <3>2. QED BY <1>i, <1>g, <1>w, <2>a, <2>b, <2>c, <2>2, <3>1
  <2>3. CASE (y > 0 /\ z <= 0 /\ x <= 0) \/ (y <= 0 /\ z > 0 /\ x > 0)
    <3>0. y * t + z * u + x * s = 0
      BY <1>i
    <3>1. (u > 0 /\ s > 0 => t > 0) /\ (u < 0 /\ s < 0 => t < 0)
      BY <1>i, <1>g, <2>3, <3>0, OppositeEdge
    <3>2. QED BY <1>i, <1>g, <1>w, <2>a, <2>b, <2>c, <2>3, <3>1
  <2>4. CASE (z > 0 /\ x <= 0 /\ y <= 0) \/ (z <= 0 /\ x > 0 /\ y > 0)
    <3>0. z * u + x * s + y * t = 0
      BY <1>i
    <3>1. (s > 0 /\ t > 0 => u > 0) /\ (s < 0 /\ t < 0 => u < 0)
      BY <1>i, <1>g, <2>4, <3>0, OppositeEdge
    <3>2. QED BY <1>i, <1>g, <1>w, <2>a, <2>b, <2>c, <2>4, <3>1
  <2>5. QED BY <1>i, <2>1, <2>2, <2>3, <2>4
<1>q. QED BY <1>d, <1>g

\* Ray casting over a polygon of any number of vertices agrees with the fan of
\* triangles, where no edge of either runs through p.
LEMMA RayIsFan ==
  ASSUME NEW p \in Int \X Int, NEW zone \in Seq(Int \X Int),
         \A j, k \in 1..Len(zone) :
           Vertex(zone, j) # Vertex(zone, k) /\ (j = 1 \/ k = 1 \/ k = j + 1)
             => Side(p, Vertex(zone, j), Vertex(zone, k)) # 0
  PROVE  PointInPolygon(p, zone)
           <=> Odd({j \in 2..Len(zone) - 1 : Within(p, Vertex(zone, 1), Vertex(zone, j), Vertex(zone, j + 1))})
<1> DEFINE n == Len(zone)
           V(j) == Vertex(zone, j)
           Before(i) == IF i = 1 THEN n ELSE i - 1
           crossed == {i \in 1..n : Crosses(p, V(i), V(Before(i)))}
           E == {i \in 2..n : Crosses(p, V(i), V(i - 1))}
           D == {i \in 2..n : Crosses(p, V(1), V(i))}
           W == {j \in 2..n - 1 : Within(p, V(1), V(j), V(j + 1))}
<1>n. n \in Nat
  BY LenProperties
<1>v. ASSUME NEW j \in 1..n PROVE V(j) \in Int \X Int
  <2>1. zone[j] \in Int \X Int
    OBVIOUS
  <2>2. QED BY <2>1 DEF Vertex
<1>s. ASSUME NEW j \in 1..n, NEW k \in 1..n, j = 1 \/ k = 1 \/ k = j + 1
      PROVE  Side(p, V(j), V(k)) # 0 \/ V(j) = V(k)
  BY <1>s
<1>p. PointInPolygon(p, zone) <=> n >= 3 /\ Odd(crossed)
  BY DEF PointInPolygon, Odd
<1> HIDE DEF V
<1>1. CASE n < 3
  <2>1. W = {}
    BY <1>n, <1>1
  <2>2. ~Odd({})
    BY FS_EmptySet DEF Odd
  <2> HIDE DEF n, W
  <2>3. ~Odd(W) /\ ~(n >= 3)
    BY <1>n, <1>1, <2>1, <2>2
  <2>4. QED BY <1>p, <2>3 DEF W, V, n
<1>2. CASE n >= 3
  <2> HIDE DEF n
  <2>1. 2 \in E <=> 2 \in D
    <3>1. 2 \in 1..n /\ 1 \in 1..n /\ 2 \in 2..n /\ 2 - 1 = 1
      BY <1>n, <1>2
    <3>2. Crosses(p, V(1), V(2)) <=> Crosses(p, V(2), V(1))
      BY <3>1, <1>v, <1>s, CrossesTurns
    <3>3. QED BY <3>1, <3>2
  <2>2. ASSUME NEW j \in 2..(n - 1)
        PROVE  j \in W <=> ((j \in D <=> j + 1 \in E) <=> j + 1 \in D)
    <3>1. 1 \in 1..n /\ j \in 1..n /\ j + 1 \in 1..n /\ j \in 2..n /\ j + 1 \in 2..n /\ (j + 1) - 1 = j
      BY <1>n
    <3>2. V(1) \in Int \X Int /\ V(j) \in Int \X Int /\ V(j + 1) \in Int \X Int
      BY <3>1, <1>v
    <3>3. /\ Side(p, V(1), V(j)) # 0 \/ V(1) = V(j)
          /\ Side(p, V(j), V(j + 1)) # 0 \/ V(j) = V(j + 1)
          /\ Side(p, V(j + 1), V(1)) # 0 \/ V(j + 1) = V(1)
          /\ Side(p, V(1), V(j + 1)) # 0 \/ V(1) = V(j + 1)
      BY <3>1, <1>s
    <3>4. Within(p, V(1), V(j), V(j + 1))
            <=> ((Crosses(p, V(1), V(j)) <=> Crosses(p, V(j), V(j + 1))) <=> Crosses(p, V(j + 1), V(1)))
      BY <3>2, <3>3, Triangle
    <3>5. /\ Crosses(p, V(j), V(j + 1)) <=> Crosses(p, V(j + 1), V(j))
          /\ Crosses(p, V(j + 1), V(1)) <=> Crosses(p, V(1), V(j + 1))
      BY <3>2, <3>3, CrossesTurns
    <3>6. /\ j \in D <=> Crosses(p, V(1), V(j))
          /\ j + 1 \in D <=> Crosses(p, V(1), V(j + 1))
          /\ j + 1 \in E <=> Crosses(p, V(j + 1), V(j))
          /\ j \in W <=> Within(p, V(1), V(j), V(j + 1))
      BY <3>1
    <3> HIDE DEF D, E, W
    <3>7. QED BY <3>4, <3>5, <3>6
  <2>3. Crosses(p, V(1), V(n)) <=> n \in D
    BY <1>n, <1>2
  <2>4. crossed = E \cup (IF n \in D THEN {1} ELSE {})
    <3>1. ASSUME NEW i PROVE i \in crossed <=> i \in E \/ (i = 1 /\ n \in D)
      <4>1. CASE i = 1
        BY <1>n, <1>2, <2>3, <4>1
      <4>2. CASE i # 1
        BY <1>n, <4>2
      <4>3. QED BY <4>1, <4>2
    <3> HIDE DEF crossed, E, D
    <3>2. QED BY <3>1
  <2>5. 1 \notin E /\ E \cap 2..n = E /\ W \cap 2..(n - 1) = W
    OBVIOUS
  <2>6. IsFiniteSet(E)
    <3>1. IsFiniteSet(2..n) /\ E \in SUBSET (2..n)
      BY <1>n, FS_Interval
    <3>2. QED BY <3>1, FS_Subset
  <2> HIDE DEF crossed, E, D, W
  <2>7. (Odd(E \cap 2..n) <=> n \in D) <=> ~Odd(W \cap 2..(n - 1))
    <3>1. n \in 2..n
      BY <1>n, <1>2
    <3>2. \A m \in 2..n : (Odd(E \cap 2..m) <=> m \in D) <=> ~Odd(W \cap 2..(m - 1))
      BY <1>n, <2>1, <2>2, FanParity
    <3>3. QED BY <3>1, <3>2
  <2>8. Odd(crossed) <=> Odd(W)
    <3>1. CASE n \in D
      <4>1. crossed = E \cup {1}
        BY <2>4, <3>1
      <4>2. Odd(crossed) <=> ~Odd(E)
        BY <4>1, <2>5, <2>6, OneMore
      <4>3. QED BY <4>2, <2>5, <2>7, <3>1
    <3>2. CASE n \notin D
      <4>1. crossed = E
        BY <2>4, <3>2
      <4>2. QED BY <4>1, <2>5, <2>7, <3>2
    <3>3. QED BY <3>1, <3>2
  <2>9. QED BY <1>2, <1>p, <2>8 DEF W, V, n
<1>3. QED BY <1>n, <1>1, <1>2

\* Polygons and bounding boxes lie on a grid of whole coordinates, as fine as it
\* may be.
WholeCoordinates ==
  /\ \A e \in Events : {e.box.x, e.box.y, e.box.width, e.box.height} \subseteq Int
  /\ \A r \in Rules : r.zone # None => r.zone \in Seq(Int \X Int)

\* Ray casting finds a point inside a zone exactly when an odd number of the
\* triangles of the zone's fan hold it, for polygons of any number of vertices,
\* convex or not, with edges that cross and vertices that repeat
\* (point_in_polygon).
THEOREM ZonesExact ==
  ASSUME WholeCoordinates
  PROVE  Spec => []ZoneExact
<1>1. IInv => ZoneExact
  <2> SUFFICES ASSUME IInv, NEW i \in DOMAIN ruleset
               PROVE  LET zone == ruleset[i].zone
                          p == Centre(event.box)
                          V(j) == Vertex(zone, j)
                          fan == {j \in 2..Len(zone) - 1 : Within(p, V(1), V(j), V(j + 1))}
                          open == \A j, k \in 1..Len(zone) :
                                    V(j) # V(k) /\ (j = 1 \/ k = 1 \/ k = j + 1) => Side(p, V(j), V(k)) # 0
                      IN  zone # None /\ open => (PointInPolygon(p, zone) <=> Cardinality(fan) % 2 = 1)
    BY DEF ZoneExact
  <2> DEFINE zone == ruleset[i].zone
             p == Centre(event.box)
  <2>1. event \in Events /\ ruleset[i] \in Rules
    BY DEF IInv, Fixed
  <2>2. p \in Int \X Int
    <3>1. /\ event.box.x \in Int
          /\ event.box.y \in Int
          /\ event.box.width \in Int
          /\ event.box.height \in Int
      BY <2>1 DEF WholeCoordinates
    <3>2. QED BY <3>1 DEF Centre
  <2>3. zone # None => zone \in Seq(Int \X Int)
    BY <2>1 DEF WholeCoordinates
  <2> HIDE DEF zone, p
  <2>4. ASSUME zone # None,
               \A j, k \in 1..Len(zone) :
                 Vertex(zone, j) # Vertex(zone, k) /\ (j = 1 \/ k = 1 \/ k = j + 1)
                   => Side(p, Vertex(zone, j), Vertex(zone, k)) # 0
        PROVE  PointInPolygon(p, zone)
                 <=> Cardinality({j \in 2..Len(zone) - 1 :
                                   Within(p, Vertex(zone, 1), Vertex(zone, j), Vertex(zone, j + 1))}) % 2 = 1
    BY <2>2, <2>3, <2>4, RayIsFan DEF Odd
  <2>5. QED BY <2>4 DEF zone, p
<1>2. QED BY <1>1, Invariant, PTL
=============================================================================
