----------------------- MODULE Phase2Pipeline_proofs -----------------------
(***************************************************************************)
(* From an event message to its alert, for any events, faults, timeouts and *)
(* answers of the model: the state is well-typed, no event that passed the  *)
(* gate is dropped, and a backend that holds the event loop keeps the       *)
(* alerts in the order of the events.  And for any loops of summaries, no    *)
(* event is reported twice and none of a timely sleep is left out.           *)
(***************************************************************************)
EXTENDS Phase2Pipeline, TLAPS

Queued(e) == \E i \in 1..Len(inbox) : inbox[i] = e

\* A message is delivered once: an event that is on its way has no pipeline yet.
DeliveredOnce ==
  /\ \A e \in Events : e \in unsent \/ Queued(e) => pipeline[e] = "none"
  /\ \A e \in unsent : ~Queued(e)
  /\ \A i, j \in 1..Len(inbox) : inbox[i] = inbox[j] => i = j
  /\ \A i \in 1..Len(due) : pipeline[due[i]] # "none"

\* The join has waited for the handler.
HandlerOver == main \in {"leaving", "closed"} => waiting = NoEvent

PipelineInv == TypeOK /\ DeliveredOnce /\ HandlerOver /\ Accounted

\* So many of the events that passed have a coroutine that has started.
Started == Len(passed) - Len(due)

\* The coroutines that wait are those of the events that passed last; the one that
\* holds the loop comes right before them, and all alerts are of earlier ones.
LoopInOrder ==
  /\ Len(due) <= Len(passed)
  /\ main = "closed" => due = <<>> /\ loop = NoEvent
  /\ \A i \in 1..Len(due) : due[i] = passed[Started + i]
  /\ loop # NoEvent => Started >= 1 /\ passed[Started] = loop
  /\ \A i \in 1..Len(alerted) :
       \E k \in 1..Started : passed[k] = alerted[i] /\ (loop # NoEvent => k < Started)

-----------------------------------------------------------------------------
(* Sequences *)

LEMMA Appended ==
  ASSUME NEW S, NEW s \in Seq(S), NEW x \in S
  PROVE  /\ Append(s, x) \in Seq(S)
         /\ Len(Append(s, x)) = Len(s) + 1
         /\ \A i \in 1..Len(s) : Append(s, x)[i] = s[i]
         /\ Append(s, x)[Len(s) + 1] = x
OBVIOUS

LEMMA Taken ==
  ASSUME NEW S, NEW s \in Seq(S), s # <<>>
  PROVE  /\ Head(s) \in S /\ Head(s) = s[1]
         /\ Tail(s) \in Seq(S)
         /\ Len(s) \in Nat \ {0}
         /\ Len(Tail(s)) = Len(s) - 1
         /\ \A i \in 1..Len(Tail(s)) : Tail(s)[i] = s[i + 1]
OBVIOUS

-----------------------------------------------------------------------------
(* Type correctness and deliveries *)

LEMMA InitInv == Init => PipelineInv /\ LoopInOrder
<1> SUFFICES ASSUME Init PROVE PipelineInv /\ LoopInOrder
  OBVIOUS
<1>1. TypeOK
  BY PipelineAssumption DEF Init, TypeOK
<1>2. Len(inbox) = 0 /\ Len(due) = 0 /\ Len(passed) = 0 /\ Len(alerted) = 0
  BY DEF Init
<1>3. DeliveredOnce /\ HandlerOver /\ Accounted
  BY <1>2 DEF Init, DeliveredOnce, Queued, HandlerOver, Accounted
<1>4. LoopInOrder
  BY <1>2 DEF Init, LoopInOrder, Started
<1>5. QED BY <1>1, <1>3, <1>4 DEF PipelineInv

LEMMA Decided ==
  ASSUME NEW t \in Threats, NEW recommended \in Actions
  PROVE  Decision(t, recommended) \in Actions
BY DEF Decision, Threats, Actions

\* The message a callback takes off the inbox has not been seen before and is not
\* seen again.
LEMMA TakenOff ==
  ASSUME PipelineInv, NEW which, Dispatch(which)
  PROVE  /\ Head(inbox) \in Events /\ inbox' \in Seq(Events)
         /\ Queued(Head(inbox)) /\ pipeline[Head(inbox)] = "none" /\ Head(inbox) \notin unsent
         /\ \A e : Queued(e)' => Queued(e)
         /\ \A e : e = Head(inbox) => ~Queued(e)'
         /\ \A i, j \in 1..Len(inbox') : inbox'[i] = inbox'[j] => i = j
         /\ main \in {"start", "storing", "running"} /\ waiting = NoEvent
<1>1. inbox \in Seq(Events) /\ inbox # <<>> /\ inbox' = Tail(inbox)
  BY DEF PipelineInv, TypeOK, Dispatch
<1>2. /\ Head(inbox) \in Events /\ Head(inbox) = inbox[1]
      /\ inbox' \in Seq(Events)
      /\ Len(inbox) \in Nat \ {0}
      /\ Len(inbox') = Len(inbox) - 1
      /\ \A i \in 1..Len(inbox') : inbox'[i] = inbox[i + 1]
  BY <1>1, Taken
<1>3. \A i \in 1..Len(inbox') : i + 1 \in 1..Len(inbox) /\ i + 1 # 1
  BY <1>2
<1>4. \A i, j \in 1..Len(inbox) : inbox[i] = inbox[j] => i = j
  BY DEF PipelineInv, DeliveredOnce
<1>5. 1 \in 1..Len(inbox)
  BY <1>2
<1>6. Queued(Head(inbox))
  BY <1>2, <1>5 DEF Queued
<1>7. pipeline[Head(inbox)] = "none" /\ Head(inbox) \notin unsent
  BY <1>2, <1>6 DEF PipelineInv, DeliveredOnce
<1>8. \A e : Queued(e)' => Queued(e)
  BY <1>2, <1>3 DEF Queued
<1>9. \A i \in 1..Len(inbox') : inbox'[i] # inbox[1]
  BY <1>2, <1>3, <1>4, <1>5
<1>10. \A e : e = Head(inbox) => ~Queued(e)'
  BY <1>2, <1>9 DEF Queued
<1>11. ASSUME NEW i \in 1..Len(inbox'), NEW j \in 1..Len(inbox'), inbox'[i] = inbox'[j] PROVE i = j
  <2>1. i + 1 = j + 1
    BY <1>2, <1>3, <1>4, <1>11
  <2>2. QED BY <2>1, <1>2
<1>12. main \in {"start", "storing", "running"} /\ waiting = NoEvent
  BY DEF Dispatch, Listening
<1>13. QED BY <1>2, <1>6, <1>7, <1>8, <1>10, <1>11, <1>12

\* A step that takes no message and lets no pipeline start or end.
LEMMA NothingDelivered ==
  ASSUME PipelineInv, UNCHANGED <<inbox, unsent, row, alerted, failed>>, due' \in {due, Tail(due), <<>>},
         \A e \in Events : pipeline'[e] \in {pipeline[e], "attempt1", "cancelled"},
         \A e \in Events : pipeline'[e] = "none" <=> pipeline[e] = "none"
  PROVE  DeliveredOnce' /\ Accounted'
<1>1. DeliveredOnce'
  <2>1. \A i \in 1..Len(due) : due[i] \in Events /\ pipeline[due[i]] # "none"
    BY DEF PipelineInv, TypeOK, DeliveredOnce
  <2>2. \A i \in 1..Len(due') : \E j \in 1..Len(due) : due'[i] = due[j]
    <3>1. CASE due' = due
      BY <3>1
    <3>2. CASE due' = <<>>
      BY <3>2
    <3>3. CASE due' = Tail(due) /\ due # <<>>
      <4>1. /\ Len(due) \in Nat \ {0} /\ Len(due') = Len(due) - 1
            /\ \A i \in 1..Len(due') : due'[i] = due[i + 1]
        BY <3>3, Taken DEF PipelineInv, TypeOK
      <4>2. \A i \in 1..Len(due') : i + 1 \in 1..Len(due)
        BY <4>1
      <4>3. QED BY <4>1, <4>2
    <3>4. CASE due' = Tail(due) /\ due = <<>>
      BY <3>4
    <3>5. QED BY <3>1, <3>2, <3>3, <3>4
  <2>3. \A i \in 1..Len(due') : pipeline'[due'[i]] # "none"
    BY <2>1, <2>2
  <2>4. QED BY <2>3 DEF PipelineInv, DeliveredOnce, Queued
<1>2. Accounted'
  BY DEF PipelineInv, Accounted, Alerted
<1>3. QED BY <1>1, <1>2

LEMMA MainKeeps ==
  PipelineInv /\ (SubscribeStore \/ SubscribeGate \/ Shutdown \/ Joined \/ Close) => PipelineInv'
<1> SUFFICES ASSUME PipelineInv, SubscribeStore \/ SubscribeGate \/ Shutdown \/ Joined \/ Close
             PROVE  PipelineInv'
  OBVIOUS
<1> USE PipelineAssumption DEF network, outcome
<1>1. CASE SubscribeStore \/ SubscribeGate \/ Shutdown
  <2>1. /\ UNCHANGED <<inbox, unsent, waiting, passed, due, loop, pipeline, row, alerted, failed>>
        /\ main' \in {"storing", "running", "joining"}
        /\ callback' \in {callback, "store", "gate"}
    BY <1>1 DEF SubscribeStore, SubscribeGate, Subscribe, Shutdown
  <2>2. TypeOK' /\ HandlerOver'
    BY <2>1 DEF PipelineInv, TypeOK, InProgress, HandlerOver
  <2>3. DeliveredOnce' /\ Accounted'
    BY <2>1, NothingDelivered
  <2>4. QED BY <2>2, <2>3 DEF PipelineInv
<1>2. CASE Joined
  <2>1. TypeOK' /\ HandlerOver'
    BY <1>2 DEF PipelineInv, TypeOK, InProgress, HandlerOver, Joined
  <2>2. Len(inbox') = 0
    BY <1>2 DEF Joined
  <2>3. DeliveredOnce'
    BY <1>2, <2>2 DEF PipelineInv, DeliveredOnce, Queued, Joined
  <2>4. Accounted'
    BY <1>2 DEF PipelineInv, Accounted, Alerted, Joined
  <2>5. QED BY <2>1, <2>3, <2>4 DEF PipelineInv
<1>3. CASE Close
  <2>1. waiting = NoEvent /\ loop = NoEvent
    BY <1>3 DEF PipelineInv, HandlerOver, Close, LoopFree
  <2>2. TypeOK' /\ HandlerOver'
    BY <1>3, <2>1 DEF PipelineInv, TypeOK, HandlerOver, Close
  <2>3. /\ UNCHANGED <<inbox, unsent, row, alerted, failed>>
        /\ \A e \in Events : pipeline'[e] \in {pipeline[e], "cancelled"}
        /\ \A e \in Events : pipeline'[e] = "none" <=> pipeline[e] = "none"
        /\ due' = <<>>
    BY <1>3 DEF Close, InProgress
  <2>4. DeliveredOnce' /\ Accounted'
    BY <2>3, NothingDelivered
  <2>5. QED BY <2>2, <2>4 DEF PipelineInv
<1>4. QED BY <1>1, <1>2, <1>3

LEMMA ReceiveKeeps == ASSUME NEW e \in Events PROVE PipelineInv /\ Receive(e) => PipelineInv'
<1> SUFFICES ASSUME PipelineInv, Receive(e) PROVE PipelineInv'
  OBVIOUS
<1>1. inbox \in Seq(Events) /\ Len(inbox) \in Nat
  BY DEF PipelineInv, TypeOK
<1>2. /\ inbox' \in Seq(Events)
      /\ Len(inbox') = Len(inbox) + 1
      /\ \A i \in 1..Len(inbox) : inbox'[i] = inbox[i]
      /\ inbox'[Len(inbox) + 1] = e
  BY <1>1, Appended DEF Receive
<1>3. /\ UNCHANGED <<main, callback, waiting, passed, due, loop, pipeline, row, alerted, failed>>
      /\ unsent' = unsent \ {e} /\ e \in unsent /\ ~Queued(e)
  BY DEF Receive, outcome, PipelineInv, DeliveredOnce
<1>4. \A d : Queued(d)' <=> Queued(d) \/ d = e
  BY <1>1, <1>2 DEF Queued
<1>5. \A i, j \in 1..Len(inbox') : inbox'[i] = inbox'[j] => i = j
  <2>1. \A i \in 1..Len(inbox') : i \in 1..Len(inbox) \/ i = Len(inbox) + 1
    BY <1>1, <1>2
  <2>2. \A i \in 1..Len(inbox) : inbox'[i] # e
    BY <1>2, <1>3 DEF Queued
  <2>3. QED BY <1>2, <2>1, <2>2 DEF PipelineInv, DeliveredOnce
<1>6. DeliveredOnce'
  BY <1>3, <1>4, <1>5 DEF PipelineInv, DeliveredOnce
<1>7. TypeOK' /\ HandlerOver' /\ Accounted'
  BY <1>2, <1>3 DEF PipelineInv, TypeOK, InProgress, HandlerOver, Accounted, Alerted
<1>8. QED BY <1>6, <1>7 DEF PipelineInv

LEMMA HandlerKeeps == PipelineInv /\ Handler => PipelineInv'
<1> SUFFICES ASSUME PipelineInv, Handler PROVE PipelineInv'
  OBVIOUS
<1>1. CASE StoreEvent \/ GateRejects
  <2>1. \E which : Dispatch(which)
    BY <1>1 DEF StoreEvent, GateRejects
  <2>2. PICK e \in Events : e = Head(inbox)
    BY <2>1, TakenOff
  <2>3. /\ UNCHANGED <<main, callback, unsent, waiting, passed, due, loop, pipeline, alerted, failed>>
        /\ row' = row \/ row' = [row EXCEPT ![e] = "no"]
    BY <1>1, <2>2 DEF StoreEvent, GateRejects, Stored
  <2>4. /\ inbox' \in Seq(Events) /\ pipeline[e] = "none"
        /\ \A d : Queued(d)' => Queued(d)
        /\ \A i, j \in 1..Len(inbox') : inbox'[i] = inbox'[j] => i = j
    BY <2>1, <2>2, TakenOff
  <2>5. /\ row' \in [Events -> {"none", "no", "yes"}]
        /\ \A d \in Events \ {e} : row'[d] = row[d]
    BY <2>3 DEF PipelineInv, TypeOK
  <2>6. TypeOK' /\ HandlerOver'
    BY <2>3, <2>4, <2>5 DEF PipelineInv, TypeOK, InProgress, HandlerOver
  <2>7. DeliveredOnce'
    BY <2>3, <2>4 DEF PipelineInv, DeliveredOnce
  <2>8. Accounted'
    BY <2>3, <2>4, <2>5 DEF PipelineInv, Accounted, Alerted
  <2>9. QED BY <2>6, <2>7, <2>8 DEF PipelineInv
<1>2. CASE GatePasses
  <2>1. Dispatch("gate")
    BY <1>2 DEF GatePasses
  <2>2. PICK e \in Events : e = Head(inbox)
    BY <2>1, TakenOff
  <2>3. /\ UNCHANGED <<main, callback, unsent, loop, row, alerted, failed>>
        /\ waiting' = e /\ passed' = Append(passed, e) /\ due' = Append(due, e)
        /\ pipeline' = [pipeline EXCEPT ![e] = "due"]
    BY <1>2, <2>2 DEF GatePasses, outcome
  <2>4. /\ inbox' \in Seq(Events) /\ pipeline[e] = "none" /\ e \notin unsent /\ ~Queued(e)'
        /\ \A d : Queued(d)' => Queued(d)
        /\ \A i, j \in 1..Len(inbox') : inbox'[i] = inbox'[j] => i = j
        /\ main \in {"start", "storing", "running"}
    BY <2>1, <2>2, TakenOff
  <2>5. /\ pipeline' \in [Events -> {"none", "due", "attempt1", "attempt2", "done", "cancelled"}]
        /\ pipeline'[e] = "due"
        /\ \A d \in Events \ {e} : pipeline'[d] = pipeline[d]
    BY <2>3 DEF PipelineInv, TypeOK
  <2>6. passed' \in Seq(Events) /\ due' \in Seq(Events)
    BY <2>3, Appended DEF PipelineInv, TypeOK
  <2>7. TypeOK' /\ HandlerOver'
    BY <2>3, <2>4, <2>5, <2>6 DEF PipelineInv, TypeOK, InProgress, HandlerOver
  <2>8. DeliveredOnce'
    <3>1. /\ due \in Seq(Events) /\ Len(due) \in Nat /\ Len(due') = Len(due) + 1
          /\ \A i \in 1..Len(due) : due'[i] = due[i]
          /\ due'[Len(due) + 1] = e
      BY <2>3, Appended DEF PipelineInv, TypeOK
    <3>2. \A i \in 1..Len(due) : due[i] \in Events /\ pipeline[due[i]] # "none"
      BY <3>1 DEF PipelineInv, DeliveredOnce
    <3>3. \A i \in 1..Len(due') : i \in 1..Len(due) \/ i = Len(due) + 1
      BY <3>1
    <3>4. \A i \in 1..Len(due') : pipeline'[due'[i]] # "none"
      BY <2>5, <3>1, <3>2, <3>3
    <3>5. QED BY <2>3, <2>4, <2>5, <3>4 DEF PipelineInv, DeliveredOnce
  <2>9. Accounted'
    BY <2>3, <2>5 DEF PipelineInv, Accounted, Alerted
  <2>10. QED BY <2>7, <2>8, <2>9 DEF PipelineInv
<1>3. QED BY <1>1, <1>2 DEF Handler

LEMMA WaitKeeps == PipelineInv /\ (Wait \/ UNCHANGED vars) => PipelineInv'
<1> SUFFICES ASSUME PipelineInv, Wait \/ UNCHANGED vars PROVE PipelineInv'
  OBVIOUS
<1>1. /\ UNCHANGED <<main, callback, inbox, unsent, passed, due, loop, pipeline, row, alerted, failed>>
      /\ waiting' \in {waiting, NoEvent}
  BY DEF Wait, WaitDone, WaitTimesOut, outcome, vars
<1>2. TypeOK' /\ HandlerOver'
  BY <1>1 DEF PipelineInv, TypeOK, InProgress, HandlerOver
<1>3. DeliveredOnce' /\ Accounted'
  BY <1>1, NothingDelivered
<1>4. QED BY <1>2, <1>3 DEF PipelineInv

LEMMA StartKeeps == PipelineInv /\ StartPipeline => PipelineInv'
<1> SUFFICES ASSUME PipelineInv, StartPipeline PROVE PipelineInv'
  OBVIOUS
<1>1. due \in Seq(Events) /\ due # <<>> /\ due' = Tail(due)
  BY DEF StartPipeline, PipelineInv, TypeOK
<1>2. PICK e \in Events : e = Head(due)
  BY <1>1, Taken
<1>3. due' \in Seq(Events)
  BY <1>1, Taken
<1>4. /\ UNCHANGED <<main, callback, inbox, unsent, waiting, passed, row, alerted, failed>>
      /\ pipeline' = [pipeline EXCEPT ![e] = "attempt1"]
      /\ loop' \in {NoEvent, e}
  BY <1>2 DEF StartPipeline, network, outcome
<1>5. pipeline[e] # "none"
  <2>1. 1 \in 1..Len(due) /\ e = due[1]
    BY <1>1, <1>2, Taken
  <2>2. QED BY <2>1 DEF PipelineInv, DeliveredOnce
<1>6. /\ pipeline' \in [Events -> {"none", "due", "attempt1", "attempt2", "done", "cancelled"}]
      /\ pipeline'[e] = "attempt1"
      /\ \A d \in Events \ {e} : pipeline'[d] = pipeline[d]
  BY <1>4 DEF PipelineInv, TypeOK
<1>7. TypeOK' /\ HandlerOver'
  BY <1>3, <1>4, <1>6, PipelineAssumption DEF PipelineInv, TypeOK, InProgress, HandlerOver
<1>8. DeliveredOnce' /\ Accounted'
  BY <1>1, <1>4, <1>5, <1>6, NothingDelivered
<1>9. QED BY <1>7, <1>8 DEF PipelineInv

\* An event is decided by an alert, by a row, or by a failure that is its own.
LEMMA ProcessKeeps ==
  ASSUME NEW e \in Events, NEW t \in Threats, NEW recommended \in Actions, NEW logged \in BOOLEAN,
         PipelineInv, pipeline[e] \in {"attempt1", "attempt2"},
         Process(e, t, recommended, logged)
  PROVE  PipelineInv'
<1> DEFINE decided == Decision(t, recommended)
<1>1. PICK alertOk \in BOOLEAN, logOk \in BOOLEAN :
        LET action == IF decided = "alert" /\ ~alertOk THEN Fallback(t) ELSE decided
        IN /\ row' = Stored(e, "yes", logged \/ (action # "alert" /\ logOk))
           /\ alerted' = IF decided = "alert" /\ alertOk THEN Append(alerted, e) ELSE alerted
           /\ failed' = IF (decided = "alert" /\ ~alertOk) \/ (action # "alert" /\ ~logOk)
                        THEN failed \cup {e} ELSE failed
           /\ pipeline' = [pipeline EXCEPT ![e] = "done"]
           /\ loop' = NoEvent
           /\ UNCHANGED <<main, callback, inbox, unsent, waiting, passed, due>>
  BY DEF Process, network
<1> HIDE DEF decided
<1>2. /\ row' \in [Events -> {"none", "no", "yes"}]
      /\ \A d \in Events : row'[d] = row[d] \/ row'[d] = "yes"
  BY <1>1 DEF Stored, PipelineInv, TypeOK
<1>3. alerted' \in Seq(Events) /\ \A d \in Alerted : d \in Alerted'
  <2>1. alerted \in Seq(Events) /\ Len(alerted) \in Nat
    BY DEF PipelineInv, TypeOK
  <2>2. CASE alerted' = Append(alerted, e)
    BY <2>1, <2>2, Appended DEF Alerted
  <2>3. CASE alerted' = alerted
    BY <2>1, <2>3 DEF Alerted
  <2>4. QED BY <1>1, <2>2, <2>3
<1>4. e \in failed' \/ e \in Alerted' \/ row'[e] = "yes"
  <2>1. CASE decided = "alert" /\ alertOk
    <3>1. alerted' = Append(alerted, e) /\ alerted \in Seq(Events)
      BY <1>1, <2>1 DEF PipelineInv, TypeOK
    <3>2. Len(alerted) \in Nat /\ Len(alerted') = Len(alerted) + 1 /\ alerted'[Len(alerted) + 1] = e
      BY <3>1, Appended
    <3>3. Len(alerted) + 1 \in 1..Len(alerted')
      BY <3>2
    <3>4. QED BY <3>2, <3>3 DEF Alerted
  <2>2. CASE decided = "alert" /\ ~alertOk
    BY <1>1, <2>2
  <2>3. CASE decided # "alert" /\ ~logOk
    BY <1>1, <2>3
  <2>4. CASE decided # "alert" /\ logOk
    BY <1>1, <2>4 DEF Stored, PipelineInv, TypeOK
  <2>5. QED BY <2>1, <2>2, <2>3, <2>4
<1>5. failed' \in {failed, failed \cup {e}}
  BY <1>1
<1>6. /\ pipeline' \in [Events -> {"none", "due", "attempt1", "attempt2", "done", "cancelled"}]
      /\ pipeline'[e] = "done"
      /\ \A d \in Events \ {e} : pipeline'[d] = pipeline[d]
  BY <1>1 DEF PipelineInv, TypeOK
<1>7. TypeOK' /\ HandlerOver'
  BY <1>1, <1>2, <1>3, <1>5, <1>6, PipelineAssumption DEF PipelineInv, TypeOK, InProgress, HandlerOver
<1>8. DeliveredOnce'
  <2>1. \A i \in 1..Len(due) : due[i] \in Events
    BY DEF PipelineInv, TypeOK
  <2>2. QED BY <1>1, <1>6, <2>1 DEF PipelineInv, DeliveredOnce, Queued
<1>9. Accounted'
  <2> SUFFICES ASSUME NEW d \in Events, d \notin failed', pipeline'[d] = "done"
               PROVE  d \in Alerted' \/ row'[d] = "yes"
    BY DEF Accounted
  <2>1. CASE d = e
    BY <1>4, <2>1
  <2>2. CASE d # e
    <3>1. d \notin failed /\ pipeline[d] = "done"
      BY <1>5, <1>6, <2>2
    <3>2. QED BY <1>2, <1>3, <3>1 DEF PipelineInv, Accounted
  <2>3. QED BY <2>1, <2>2
<1>10. QED BY <1>7, <1>8, <1>9 DEF PipelineInv

LEMMA AttemptKeeps == ASSUME NEW e \in Events PROVE PipelineInv /\ Pipeline(e) => PipelineInv'
<1> SUFFICES ASSUME PipelineInv, Pipeline(e) PROVE PipelineInv'
  OBVIOUS
<1>1. CASE Answers(e)
  BY <1>1, ProcessKeeps DEF Answers
<1>2. CASE FirstFails(e)
  <2>1. /\ UNCHANGED <<main, callback, inbox, unsent, waiting, passed, due, loop, alerted, failed>>
        /\ pipeline[e] = "attempt1"
        /\ pipeline' = [pipeline EXCEPT ![e] = "attempt2"]
        /\ row' = row \/ row' = [row EXCEPT ![e] = "yes"]
    BY <1>2 DEF FirstFails, Stored, network
  <2>2. /\ pipeline' \in [Events -> {"none", "due", "attempt1", "attempt2", "done", "cancelled"}]
        /\ pipeline'[e] = "attempt2"
        /\ \A d \in Events \ {e} : pipeline'[d] = pipeline[d] /\ row'[d] = row[d]
        /\ row' \in [Events -> {"none", "no", "yes"}]
    BY <2>1 DEF PipelineInv, TypeOK
  <2>3. TypeOK' /\ HandlerOver'
    BY <2>1, <2>2, PipelineAssumption DEF PipelineInv, TypeOK, InProgress, HandlerOver
  <2>4. \A i \in 1..Len(due) : due[i] \in Events
    BY DEF PipelineInv, TypeOK
  <2>5. DeliveredOnce' /\ Accounted'
    BY <2>1, <2>2, <2>4 DEF PipelineInv, DeliveredOnce, Queued, Accounted, Alerted
  <2>6. QED BY <2>3, <2>5 DEF PipelineInv
<1>3. CASE SecondFails(e)
  <2>1. "log" \in Actions
    BY DEF Actions
  <2>2. PICK ok \in BOOLEAN, t \in Threats : Process(e, t, "log", ok)
    BY <1>3 DEF SecondFails
  <2>3. pipeline[e] \in {"attempt1", "attempt2"}
    BY <1>3 DEF SecondFails
  <2>4. QED BY <2>1, <2>2, <2>3, ProcessKeeps
<1>4. QED BY <1>1, <1>2, <1>3 DEF Pipeline

LEMMA InvStep == PipelineInv /\ [Next]_vars => PipelineInv'
BY MainKeeps, ReceiveKeeps, HandlerKeeps, WaitKeeps, StartKeeps, AttemptKeeps DEF Next

-----------------------------------------------------------------------------
(* The order of the alerts *)

OrderInv == PipelineInv /\ LoopInOrder /\ AlertsInOrder

\* What TypeOK says of the sequences.
LEMMA Lists ==
  ASSUME PipelineInv
  PROVE  /\ due \in Seq(Events) /\ Len(due) \in Nat
         /\ passed \in Seq(Events) /\ Len(passed) \in Nat
         /\ alerted \in Seq(Events) /\ Len(alerted) \in Nat
BY DEF PipelineInv, TypeOK

\* A step that alerts of nothing and lets nothing pass or start.
LEMMA OrderStays ==
  ASSUME OrderInv, UNCHANGED <<due, loop, passed, alerted>>, main' = "closed" => main = "closed"
  PROVE  LoopInOrder' /\ AlertsInOrder'
BY DEF OrderInv, LoopInOrder, AlertsInOrder, Started

LEMMA CloseInOrder == OrderInv /\ Close => LoopInOrder' /\ AlertsInOrder'
<1> SUFFICES ASSUME OrderInv, Close PROVE LoopInOrder' /\ AlertsInOrder'
  OBVIOUS
<1>1. UNCHANGED <<loop, passed, alerted>> /\ due' = <<>> /\ loop = NoEvent /\ Len(due') = 0
  BY DEF Close, LoopFree, network, outcome
<1>2. Started \in Nat /\ Started <= Len(passed)
  BY Lists DEF OrderInv, LoopInOrder, Started
<1>3. Started' = Len(passed)
  BY <1>1, Lists DEF OrderInv, Started
<1>4. 1..Started \subseteq 1..Len(passed)
  BY <1>2, Lists DEF OrderInv
<1>5. LoopInOrder'
  BY <1>1, <1>3, <1>4, Lists DEF OrderInv, LoopInOrder
<1>6. AlertsInOrder'
  BY <1>1 DEF OrderInv, AlertsInOrder
<1>7. QED BY <1>5, <1>6

LEMMA PassesInOrder == OrderInv /\ GatePasses => LoopInOrder' /\ AlertsInOrder'
<1> SUFFICES ASSUME OrderInv, GatePasses PROVE LoopInOrder' /\ AlertsInOrder'
  OBVIOUS
<1> USE DEF OrderInv
<1>1. PICK e \in Events : e = Head(inbox)
  BY TakenOff DEF GatePasses
<1>2. /\ UNCHANGED <<main, loop, alerted>> /\ main # "closed"
      /\ passed' = Append(passed, e) /\ due' = Append(due, e)
  BY <1>1, TakenOff DEF GatePasses, outcome
<1>3. /\ Len(passed') = Len(passed) + 1 /\ Len(due') = Len(due) + 1
      /\ \A i \in 1..Len(passed) : passed'[i] = passed[i]
      /\ \A i \in 1..Len(due) : due'[i] = due[i]
      /\ passed'[Len(passed) + 1] = e /\ due'[Len(due) + 1] = e
  BY <1>2, Lists, Appended
<1>4. Started' = Started /\ Started \in Nat /\ Started <= Len(passed) /\ Started + Len(due) = Len(passed)
  BY <1>3, Lists DEF LoopInOrder, Started
<1>5. \A i \in 1..Len(due') : due'[i] = passed'[Started + i]
  <2>1. ASSUME NEW i \in 1..Len(due) PROVE due'[i] = passed'[Started + i]
    <3>1. Started + i \in 1..Len(passed)
      BY <1>4, Lists
    <3>2. QED BY <1>3, <3>1 DEF LoopInOrder
  <2>2. due'[Len(due) + 1] = passed'[Started + (Len(due) + 1)]
    <3>1. Started + (Len(due) + 1) = Len(passed) + 1
      BY <1>4, Lists
    <3>2. QED BY <1>3, <3>1
  <2>3. \A i \in 1..Len(due') : i \in 1..Len(due) \/ i = Len(due) + 1
    BY <1>3, Lists
  <2>4. QED BY <2>1, <2>2, <2>3
<1>6. 1..Started \subseteq 1..Len(passed)
  BY <1>4, Lists
<1>7. loop' # NoEvent => Started' >= 1 /\ passed'[Started'] = loop'
  BY <1>2, <1>3, <1>4, <1>6 DEF LoopInOrder
<1>8. LoopInOrder'
  <2>1. Len(due') <= Len(passed')
    BY <1>3, Lists DEF LoopInOrder
  <2>2. \A i \in 1..Len(alerted) :
          \E k \in 1..Started : passed'[k] = alerted[i] /\ (loop # NoEvent => k < Started)
    <3>1. ASSUME NEW i \in 1..Len(alerted)
          PROVE  \E k \in 1..Started : passed'[k] = alerted[i] /\ (loop # NoEvent => k < Started)
      <4>1. PICK k \in 1..Started : passed[k] = alerted[i] /\ (loop # NoEvent => k < Started)
        BY DEF LoopInOrder
      <4>2. passed'[k] = passed[k]
        BY <1>3, <1>6
      <4>3. QED BY <4>1, <4>2
    <3>2. QED BY <3>1
  <2>3. QED BY <1>2, <1>4, <1>5, <1>7, <2>1, <2>2 DEF LoopInOrder
<1>9. AlertsInOrder'
  <2>1. 1..Len(passed) \subseteq 1..Len(passed')
    BY <1>3, Lists
  <2>2. ASSUME NEW i \in 1..Len(alerted), NEW j \in 1..Len(alerted), i < j
        PROVE  \E k, l \in 1..Len(passed') : k < l /\ passed'[k] = alerted[i] /\ passed'[l] = alerted[j]
    <3>1. PICK k \in 1..Len(passed), l \in 1..Len(passed) :
            k < l /\ passed[k] = alerted[i] /\ passed[l] = alerted[j]
      BY <2>2 DEF AlertsInOrder
    <3>2. QED BY <1>3, <2>1, <3>1
  <2>3. alerted' = alerted
    BY <1>2
  <2> HIDE DEF OrderInv
  <2>4. QED BY ONLY <2>2, <2>3 DEF AlertsInOrder
<1>10. QED BY <1>8, <1>9

LEMMA StartsInOrder == OrderInv /\ StartPipeline => LoopInOrder' /\ AlertsInOrder'
<1> SUFFICES ASSUME OrderInv, StartPipeline PROVE LoopInOrder' /\ AlertsInOrder'
  OBVIOUS
<1> USE DEF OrderInv
<1>1. /\ UNCHANGED <<main, passed, alerted>>
      /\ loop = NoEvent /\ due # <<>> /\ due' = Tail(due)
      /\ loop' \in {NoEvent, Head(due)}
  BY DEF StartPipeline, LoopFree, network, outcome
<1>2. /\ Head(due) = due[1]
      /\ Len(due) \in Nat \ {0}
      /\ Len(due') = Len(due) - 1
      /\ \A i \in 1..Len(due') : due'[i] = due[i + 1]
  BY <1>1, Lists, Taken
<1>3. Started' = Started + 1 /\ Started \in Nat
  BY <1>1, <1>2, Lists DEF LoopInOrder, Started
<1>4. passed[Started + 1] = Head(due)
  <2>1. 1 \in 1..Len(due)
    BY <1>2
  <2>2. QED BY <1>2, <2>1 DEF LoopInOrder
<1>5. ASSUME NEW i \in 1..Len(due') PROVE due'[i] = passed[Started' + i]
  <2>1. i + 1 \in 1..Len(due) /\ Started + (i + 1) = Started' + i
    BY <1>2, <1>3
  <2>2. QED BY <1>2, <2>1 DEF LoopInOrder
<1>6. \A k \in 1..Started : k \in 1..Started' /\ k < Started'
  BY <1>3
<1>7. LoopInOrder'
  <2>1. Len(due') <= Len(passed') /\ main' # "closed"
    BY <1>1, <1>2, Lists DEF LoopInOrder
  <2>2. loop' # NoEvent => Started' >= 1 /\ passed'[Started'] = loop'
    BY <1>1, <1>3, <1>4
  <2>3. QED BY <1>1, <1>5, <1>6, <2>1, <2>2 DEF LoopInOrder
<1>8. AlertsInOrder'
  BY <1>1 DEF AlertsInOrder
<1>9. QED BY <1>7, <1>8

\* The coroutine that holds the loop ends it: its event passed after all those
\* alerted before.
LEMMA AlertInOrder ==
  ASSUME OrderInv, NEW e \in Events, loop = e, loop' = NoEvent, alerted' \in {alerted, Append(alerted, e)},
         UNCHANGED <<main, due, passed>>
  PROVE  LoopInOrder' /\ AlertsInOrder'
<1> USE DEF OrderInv
<1>1. e # NoEvent /\ Started >= 1 /\ passed[Started] = e /\ Started \in Nat
  BY PipelineAssumption, Lists DEF LoopInOrder, Started
<1>2. Started' = Started /\ Started \in 1..Started /\ main # "closed" /\ Started \in 1..Len(passed)
  BY <1>1, Lists DEF LoopInOrder, Started
<1>3. CASE alerted' = alerted
  <2>1. LoopInOrder'
    BY <1>1, <1>2, <1>3 DEF LoopInOrder
  <2>2. AlertsInOrder'
    BY <1>3 DEF AlertsInOrder
  <2>3. QED BY <2>1, <2>2
<1>4. CASE alerted' = Append(alerted, e)
  <2>1. /\ Len(alerted') = Len(alerted) + 1
        /\ \A i \in 1..Len(alerted) : alerted'[i] = alerted[i]
        /\ alerted'[Len(alerted) + 1] = e
    BY <1>4, Lists, Appended
  <2>2. \A i \in 1..Len(alerted') : i \in 1..Len(alerted) \/ i = Len(alerted) + 1
    BY <2>1, Lists
  <2>3. \A i \in 1..Len(alerted) : \E k \in 1..Started : passed[k] = alerted[i] /\ k < Started
    BY <1>1 DEF LoopInOrder
  <2>4. \A i \in 1..Len(alerted') : \E k \in 1..Started : passed[k] = alerted'[i]
    BY <1>1, <1>2, <2>1, <2>2, <2>3
  <2>5. LoopInOrder'
    BY <1>1, <1>2, <2>4 DEF LoopInOrder
  <2>6. ASSUME NEW i \in 1..Len(alerted'), NEW j \in 1..Len(alerted'), i < j
        PROVE  \E k, l \in 1..Len(passed) : k < l /\ passed[k] = alerted'[i] /\ passed[l] = alerted'[j]
    <3>1. i \in 1..Len(alerted)
      BY <2>1, <2>6, Lists
    <3>2. CASE j \in 1..Len(alerted)
      <4>1. \E k, l \in 1..Len(passed) : k < l /\ passed[k] = alerted[i] /\ passed[l] = alerted[j]
        BY <2>6, <3>1, <3>2 DEF AlertsInOrder
      <4>2. alerted'[i] = alerted[i] /\ alerted'[j] = alerted[j]
        BY <2>1, <3>1, <3>2
      <4>3. QED BY <4>1, <4>2
    <3>3. CASE j = Len(alerted) + 1
      <4>1. PICK k \in 1..Started : passed[k] = alerted[i] /\ k < Started
        BY <2>3, <3>1
      <4>2. k \in 1..Len(passed)
        BY <1>1, <1>2, <4>1, Lists
      <4>3. QED BY <1>1, <1>2, <2>1, <3>1, <3>3, <4>1, <4>2
    <3>4. QED BY <2>2, <3>2, <3>3
  <2>7. passed' = passed
    OBVIOUS
  <2>8. AlertsInOrder'
    BY <2>6, <2>7 DEF AlertsInOrder
  <2>9. QED BY <2>5, <2>8
<1>5. QED BY <1>3, <1>4

LEMMA AttemptInOrder ==
  ASSUME Suspends = FALSE, NEW e \in Events, OrderInv, Pipeline(e)
  PROVE  LoopInOrder' /\ AlertsInOrder'
<1>1. loop = e
  BY DEF Pipeline, Answers, FirstFails, SecondFails, Resumes
<1>2. CASE FirstFails(e)
  BY <1>2, OrderStays DEF FirstFails, network
<1>3. CASE Answers(e) \/ SecondFails(e)
  <2>1. PICK t, recommended, logged : Process(e, t, recommended, logged)
    BY <1>3 DEF Answers, SecondFails
  <2>2. loop' = NoEvent /\ alerted' \in {alerted, Append(alerted, e)} /\ UNCHANGED <<main, due, passed>>
    BY <2>1 DEF Process, network
  <2>3. QED BY <1>1, <2>2, AlertInOrder
<1>4. QED BY <1>2, <1>3 DEF Pipeline

LEMMA OrderStep ==
  ASSUME Suspends = FALSE
  PROVE  OrderInv /\ [Next]_vars => OrderInv'
<1> SUFFICES ASSUME OrderInv, [Next]_vars PROVE LoopInOrder' /\ AlertsInOrder'
  BY InvStep DEF OrderInv
<1>1. CASE SubscribeStore \/ SubscribeGate \/ Shutdown \/ Joined
  BY <1>1, OrderStays
     DEF SubscribeStore, SubscribeGate, Subscribe, Shutdown, Joined, network, outcome
<1>2. CASE Close
  BY <1>2, CloseInOrder
<1>3. ASSUME NEW e \in Events, Receive(e) PROVE LoopInOrder' /\ AlertsInOrder'
  BY <1>3, OrderStays DEF Receive, outcome
<1>4. CASE StoreEvent \/ GateRejects
  BY <1>4, OrderStays DEF StoreEvent, GateRejects
<1>5. CASE GatePasses
  BY <1>5, PassesInOrder
<1>6. CASE Wait \/ UNCHANGED vars
  BY <1>6, OrderStays DEF Wait, WaitDone, WaitTimesOut, outcome, vars
<1>7. CASE StartPipeline
  BY <1>7, StartsInOrder
<1>8. ASSUME NEW e \in Events, Pipeline(e) PROVE LoopInOrder' /\ AlertsInOrder'
  BY <1>8, AttemptInOrder
<1>9. QED BY <1>1, <1>2, <1>3, <1>4, <1>5, <1>6, <1>7, <1>8 DEF Next, Handler

-----------------------------------------------------------------------------
(* Theorems *)

\* Every variable keeps its type; the handler waits for a pipeline in progress or
\* done, and the loop is held by one that has started.
THEOREM TypeCorrect == Spec => []TypeOK
<1>1. PipelineInv => TypeOK
  BY DEF PipelineInv
<1>2. QED BY InitInv, InvStep, <1>1, PTL DEF Spec

\* phase2_pipeline.py _run_pipeline with vlm_reasoner.py reason and
\* orchestration_agent.py process: whatever the backend answers and whatever fails,
\* an event that passed the gate ends in an alert or in a row that says it passed,
\* unless the alert tool or the log entry of this very event failed.
THEOREM NoEventDropped == Spec => []Accounted
<1>1. PipelineInv => Accounted
  BY DEF PipelineInv
<1>2. QED BY InitInv, InvStep, <1>1, PTL DEF Spec

\* With a backend that holds the event loop (CosmosBackend's urlopen), alerts go out
\* in the order the events passed the gate, however many pipelines time out.
THEOREM AlertsOrdered ==
  ASSUME Suspends = FALSE
  PROVE  Spec => []AlertsInOrder
<1>1. Init => OrderInv
  <2>1. Init => AlertsInOrder
    BY DEF Init, AlertsInOrder
  <2>2. QED BY InitInv, <2>1 DEF OrderInv
<1>2. OrderInv => AlertsInOrder
  BY DEF OrderInv
<1>3. QED BY <1>1, OrderStep, <1>2, PTL DEF Spec

-----------------------------------------------------------------------------
(* The summaries of the events: EventSummarizer, under its own names          *)

CONSTANTS NumTasks, Period, MaxFaults

VARIABLES task, stop, held, age, rows, faults, slept, late, told

Sum == INSTANCE EventSummarizer

\* What EventSummarizer assumes of its constants, and that some loop sleeps longest:
\* so it is with any number of loops but none.
Periods ==
  /\ NumTasks \in Nat
  /\ Period \in [Sum!Tasks -> Nat \ {0}]
  /\ MaxFaults \in Nat
  /\ \E t \in Sum!Tasks : \A s \in Sum!Tasks : Period[s] <= Period[t]

\* An event that a loop has counted is out of its window before it looks again.
CountedIsOld ==
  \A t \in Sum!Tasks, e \in Events : told[t][e] # 0 =>
    /\ age[e] >= 1
    /\ task[t].pc = "sleep" => age[e] + task[t].left > Period[t]
    /\ task[t].pc = "analyze" => e \notin task[t].found

FoundHappened ==
  \A t \in Sum!Tasks : task[t].pc = "analyze" => \A e \in task[t].found : age[e] >= 1

\* What happened in a sleep that is not overdue happened within its period.
SleptIsRecent ==
  \A t \in Sum!Tasks : task[t].pc = "sleep" =>
    /\ task[t].left <= Period[t]
    /\ ~late[t] => \A e \in slept[t] : 0 <= age[e] /\ age[e] <= Period[t] - task[t].left

SummaryInv == Sum!TypeOK /\ CountedIsOld /\ FoundHappened /\ SleptIsRecent /\ Sum!ReportedOnce

LEMMA LongestAge ==
  ASSUME Periods
  PROVE  /\ NumTasks \in Nat /\ Period \in [Sum!Tasks -> Nat \ {0}] /\ MaxFaults \in Nat
         /\ Sum!MaxAge \in Nat /\ \A t \in Sum!Tasks : Period[t] < Sum!MaxAge
<1> DEFINE P == {Period[t] : t \in Sum!Tasks}
           top == CHOOSE p \in P : \A t \in Sum!Tasks : Period[t] <= p
<1>1. \E p \in P : \A t \in Sum!Tasks : Period[t] <= p
  BY DEF Periods
<1>2. top \in P /\ \A t \in Sum!Tasks : Period[t] <= top
  <2> HIDE DEF P
  <2>1. QED BY <1>1
<1>3. P \subseteq Nat
  BY DEF Periods
<1>4. Sum!MaxAge = 1 + top
  BY DEF Sum!MaxAge
<1>5. \A t \in Sum!Tasks : Period[t] \in Nat
  BY DEF Periods
<1> HIDE DEF top, P
<1>6. Sum!MaxAge \in Nat /\ \A t \in Sum!Tasks : Period[t] < Sum!MaxAge
  BY <1>2, <1>3, <1>4, <1>5
<1>7. QED BY <1>6 DEF Periods

LEMMA SumInit == ASSUME Periods PROVE Sum!Init => SummaryInv
<1> SUFFICES ASSUME Sum!Init PROVE SummaryInv
  OBVIOUS
<1> USE LongestAge DEF Sum!Init, Sum!Started, Sum!Asleep, Sum!NotYet
<1>0. Sum!MaxAge \in Nat /\ -1 \in -1..Sum!MaxAge /\ 0 \in 0..(NumTasks + 1) /\ 0 \in 0..MaxFaults
  BY LongestAge
<1>1. Sum!TypeOK
  <2>1. \A t \in Sum!Tasks : [pc |-> "sleep", left |-> Period[t], found |-> {}] \in Sum!Loop
    BY DEF Sum!Loop
  <2>2. task \in [Sum!Tasks -> Sum!Loop]
    BY <2>1
  <2>3. age \in [Events -> -1..Sum!MaxAge] /\ told \in [Sum!Tasks -> [Events -> 0..2]]
    BY <1>0
  <2>4. QED BY <1>0, <2>2, <2>3 DEF Sum!TypeOK
<1>2. CountedIsOld /\ FoundHappened /\ Sum!ReportedOnce
  BY DEF CountedIsOld, FoundHappened, Sum!ReportedOnce
<1>3. SleptIsRecent
  BY DEF SleptIsRecent
<1>4. QED BY <1>1, <1>2, <1>3 DEF SummaryInv

\* Time passes: left and age change together.
LEMMA SumTick == ASSUME Periods PROVE SummaryInv /\ Sum!Tick => SummaryInv'
<1> SUFFICES ASSUME SummaryInv, Sum!Tick PROVE SummaryInv'
  OBVIOUS
<1> USE DEF Sum!NotYet
<1>1. /\ \A e \in Events : age[e] \in -1..Sum!MaxAge
      /\ \A t \in Sum!Tasks : Period[t] \in Nat \ {0} /\ task[t] \in Sum!Loop /\ late[t] \in BOOLEAN
      /\ \A t \in Sum!Tasks : slept[t] \subseteq Events /\ task[t].found \subseteq Events
  BY LongestAge DEF SummaryInv, Sum!TypeOK, Sum!Loop
<1>2. /\ age' \in [Events -> -1..Sum!MaxAge]
      /\ \A e \in Events : age[e] < 0 => age'[e] = age[e]
      /\ \A e \in Events : age[e] >= 0 => age'[e] >= age[e]
      /\ \A e \in Events : 0 <= age[e] /\ age[e] < Sum!MaxAge => age'[e] = age[e] + 1
      /\ \A e \in Events : age[e] = Sum!MaxAge => age'[e] = Sum!MaxAge
  BY <1>1, LongestAge DEF Sum!Tick
<1>3. /\ UNCHANGED <<stop, held, rows, faults, slept, told>>
      /\ task' \in [Sum!Tasks -> Sum!Loop]
  BY <1>1 DEF Sum!Tick, Sum!Loop
<1>4. /\ late' \in [Sum!Tasks -> BOOLEAN]
      /\ \A t \in Sum!Tasks : late'[t] <=> late[t] \/ (task[t].pc = "sleep" /\ task[t].left = 0)
  BY <1>1 DEF Sum!Tick, Sum!Due
<1>5. \A t \in Sum!Tasks : task[t].left \in Nat
  BY <1>1 DEF Sum!Loop
<1>6. \A t \in Sum!Tasks : task'[t].pc = task[t].pc /\ task'[t].found = task[t].found
  BY <1>1 DEF Sum!Tick, Sum!Loop
<1>7. \A t \in Sum!Tasks : task'[t].left = IF task[t].left > 0 THEN task[t].left - 1 ELSE task[t].left
  BY <1>1 DEF Sum!Tick, Sum!Loop
<1>8. Sum!TypeOK'
  BY <1>2, <1>3, <1>4 DEF SummaryInv, Sum!TypeOK
<1>9. CountedIsOld'
  <2> SUFFICES ASSUME NEW t \in Sum!Tasks, NEW e \in Events, told'[t][e] # 0
               PROVE  /\ age'[e] >= 1
                      /\ task'[t].pc = "sleep" => age'[e] + task'[t].left > Period[t]
                      /\ task'[t].pc = "analyze" => e \notin task'[t].found
    BY DEF CountedIsOld
  <2>0. told[t][e] # 0 /\ task'[t].pc = task[t].pc /\ task'[t].found = task[t].found
    BY <1>3, <1>6
  <2>1. /\ age[e] >= 1
        /\ task[t].pc = "sleep" => age[e] + task[t].left > Period[t]
        /\ task[t].pc = "analyze" => e \notin task[t].found
    BY <2>0 DEF SummaryInv, CountedIsOld
  <2>2. CASE age[e] = Sum!MaxAge
    <3>1. age'[e] = Sum!MaxAge /\ Period[t] \in Nat /\ Period[t] < Sum!MaxAge /\ Sum!MaxAge \in Nat
      BY <1>1, <1>2, <2>2, LongestAge
    <3>2. task'[t].left \in Nat
      BY <1>3 DEF Sum!Loop
    <3>3. QED BY <2>0, <2>1, <2>2, <3>1, <3>2
  <2>3. CASE age[e] < Sum!MaxAge
    <3>1. age[e] \in Nat /\ age'[e] = age[e] + 1 /\ task[t].left \in Nat /\ Period[t] \in Nat
      BY <1>1, <1>2, <1>5, <2>1, <2>3, LongestAge
    <3>2. \/ task'[t].left = task[t].left - 1
          \/ task[t].left = 0 /\ task'[t].left = 0
      BY <1>5, <1>7
    <3>3. QED BY <2>0, <2>1, <3>1, <3>2
  <2>4. age[e] = Sum!MaxAge \/ age[e] < Sum!MaxAge
    BY <1>1, LongestAge
  <2>5. QED BY <2>2, <2>3, <2>4
<1>10. FoundHappened'
  <2> SUFFICES ASSUME NEW t \in Sum!Tasks, task'[t].pc = "analyze", NEW e \in task'[t].found
               PROVE  age'[e] >= 1
    BY DEF FoundHappened
  <2>1. task[t].pc = "analyze" /\ e \in task[t].found
    BY <1>6
  <2>2. age[e] >= 1 /\ e \in Events /\ age[e] \in Int
    BY <1>1, <2>1, LongestAge DEF SummaryInv, FoundHappened
  <2>3. age'[e] >= age[e] /\ age'[e] \in Int
    BY <1>2, <2>2, LongestAge
  <2>4. QED BY <2>2, <2>3
<1>11. SleptIsRecent'
  <2> SUFFICES ASSUME NEW t \in Sum!Tasks, task'[t].pc = "sleep"
               PROVE  /\ task'[t].left <= Period[t]
                      /\ ~late'[t] => \A e \in slept'[t] :
                           0 <= age'[e] /\ age'[e] <= Period[t] - task'[t].left
    BY DEF SleptIsRecent
  <2>0. /\ task[t].pc = "sleep" /\ slept'[t] = slept[t]
        /\ task[t].left \in Nat /\ task'[t].left \in Nat /\ Period[t] \in Nat
        /\ \/ task[t].left > 0 /\ task'[t].left = task[t].left - 1
           \/ task[t].left = 0 /\ task'[t].left = 0
    BY <1>1, <1>3, <1>5, <1>6, <1>7 DEF Sum!Loop
  <2>1. /\ task[t].left <= Period[t]
        /\ ~late[t] => \A e \in slept[t] : 0 <= age[e] /\ age[e] <= Period[t] - task[t].left
    BY <2>0 DEF SummaryInv, SleptIsRecent
  <2>2. task'[t].left <= Period[t]
    BY <2>0, <2>1
  <2>3. ASSUME ~late'[t], NEW e \in slept'[t]
        PROVE  0 <= age'[e] /\ age'[e] <= Period[t] - task'[t].left
    <3>1. task[t].left > 0 /\ ~late[t] /\ e \in slept[t]
      BY <1>4, <2>0, <2>3
    <3>2. e \in Events /\ age[e] \in Int /\ 0 <= age[e] /\ age[e] <= Period[t] - task[t].left
      BY <1>1, <2>1, <3>1, LongestAge
    <3>3. Period[t] < Sum!MaxAge /\ Sum!MaxAge \in Nat
      BY LongestAge
    <3>4. age[e] < Sum!MaxAge
      BY <2>0, <3>2, <3>3
    <3>5. age'[e] = age[e] + 1
      BY <1>2, <3>2, <3>4
    <3>6. QED BY <2>0, <3>1, <3>2, <3>5
  <2>4. QED BY <2>2, <2>3
<1>12. Sum!ReportedOnce'
  BY <1>3 DEF SummaryInv, Sum!ReportedOnce
<1>13. QED BY <1>8, <1>9, <1>10, <1>11, <1>12 DEF SummaryInv

\* An event happens or is stored, the event loop is held or let go, the program is
\* to stop.
LEMMA SumAround ==
  ASSUME Periods
  PROVE  SummaryInv /\ (\/ \E e \in Events : Sum!Happen(e) \/ Sum!Store(e)
                        \/ Sum!Hold \/ Sum!Release \/ Sum!BeginStop \/ UNCHANGED Sum!vars)
           => SummaryInv'
<1> SUFFICES ASSUME SummaryInv, \/ \E e \in Events : Sum!Happen(e) \/ Sum!Store(e)
                                \/ Sum!Hold \/ Sum!Release \/ Sum!BeginStop \/ UNCHANGED Sum!vars
             PROVE  SummaryInv'
  OBVIOUS
<1> USE LongestAge DEF SummaryInv, Sum!NotYet
<1>1. ASSUME NEW e \in Events, Sum!Happen(e) PROVE SummaryInv'
  <2>1. /\ UNCHANGED <<task, stop, held, rows, faults, late, told>>
        /\ age' \in [Events -> -1..Sum!MaxAge] /\ age[e] = -1 /\ age'[e] = 0
        /\ \A d \in Events \ {e} : age'[d] = age[d]
    BY <1>1 DEF Sum!Happen, Sum!program, Sum!TypeOK
  <2>2. /\ slept' \in [Sum!Tasks -> SUBSET Events]
        /\ \A t \in Sum!Tasks : slept'[t] \subseteq slept[t] \cup {e}
    BY <1>1 DEF Sum!Happen, Sum!TypeOK
  <2>3. \A t \in Sum!Tasks : slept[t] \subseteq Events /\ task[t].found \subseteq Events /\ task[t].left \in Nat
    BY DEF Sum!TypeOK, Sum!Loop
  <2>4. Sum!TypeOK'
    BY <2>1, <2>2 DEF Sum!TypeOK
  <2>5. CountedIsOld' /\ FoundHappened' /\ Sum!ReportedOnce'
    BY <2>1, <2>3 DEF CountedIsOld, FoundHappened, Sum!ReportedOnce
  <2>6. SleptIsRecent'
    BY <2>1, <2>2, <2>3 DEF SleptIsRecent
  <2>7. QED BY <2>4, <2>5, <2>6
<1>2. CASE \/ \E e \in Events : Sum!Store(e)
           \/ Sum!Hold \/ Sum!Release \/ Sum!BeginStop \/ UNCHANGED Sum!vars
  <2>1. /\ UNCHANGED <<task, age, faults, slept, late, told>>
        /\ stop' \in {stop, 1} /\ held' \in BOOLEAN /\ rows' \subseteq Events
        /\ stop' = 1 => stop = 0 \/ stop = 1
    BY <1>2 DEF Sum!Store, Sum!Hold, Sum!Release, Sum!BeginStop, Sum!program, Sum!data, Sum!history,
                Sum!vars, Sum!TypeOK
  <2>2. Sum!TypeOK'
    BY <2>1 DEF Sum!TypeOK
  <2>3. CountedIsOld' /\ FoundHappened' /\ Sum!ReportedOnce' /\ SleptIsRecent'
    BY <2>1 DEF CountedIsOld, FoundHappened, Sum!ReportedOnce, SleptIsRecent
  <2>4. QED BY <2>2, <2>3
<1>3. QED BY <1>1, <1>2

\* One loop goes on to a state that keeps the invariant, and counts nothing.
LEMMA SumMoves ==
  ASSUME Periods, SummaryInv, NEW t \in Sum!Tasks, NEW next \in Sum!Loop, task' = [task EXCEPT ![t] = next],
         stop' \in 0..(NumTasks + 1), faults' \in 0..MaxFaults, UNCHANGED <<held, age, rows, told>>,
         \/ next.pc # "sleep" /\ UNCHANGED <<slept, late>>
         \/ /\ next.pc = "sleep" /\ next.left = Period[t]
            /\ slept' = [slept EXCEPT ![t] = {}] /\ late' = [late EXCEPT ![t] = FALSE],
         next.pc = "analyze" => \A e \in next.found : age[e] >= 1 /\ told[t][e] = 0
  PROVE  SummaryInv'
<1> USE LongestAge DEF SummaryInv, Sum!NotYet
<1>1. /\ task' \in [Sum!Tasks -> Sum!Loop] /\ task'[t] = next
      /\ \A s \in Sum!Tasks \ {t} : task'[s] = task[s]
  BY DEF Sum!TypeOK
<1>2. /\ slept' \in [Sum!Tasks -> SUBSET Events] /\ late' \in [Sum!Tasks -> BOOLEAN]
      /\ \A s \in Sum!Tasks \ {t} : slept'[s] = slept[s] /\ late'[s] = late[s]
      /\ next.pc = "sleep" => slept'[t] = {}
  BY DEF Sum!TypeOK
<1>3. Sum!TypeOK'
  BY <1>1, <1>2 DEF Sum!TypeOK
<1>4. next.found \subseteq Events /\ next.left \in Nat /\ \A e \in Events : age[e] \in -1..Sum!MaxAge
  BY DEF Sum!Loop, Sum!TypeOK
<1>5. CountedIsOld'
  <2> SUFFICES ASSUME NEW s \in Sum!Tasks, NEW e \in Events, told[s][e] # 0
               PROVE  /\ age[e] >= 1
                      /\ task'[s].pc = "sleep" => age[e] + task'[s].left > Period[s]
                      /\ task'[s].pc = "analyze" => e \notin task'[s].found
    BY DEF CountedIsOld
  <2>1. age[e] >= 1
    BY DEF CountedIsOld
  <2>2. CASE s = t
    BY <1>1, <1>4, <2>1, <2>2
  <2>3. CASE s # t
    BY <1>1, <2>3 DEF CountedIsOld
  <2>4. QED BY <2>1, <2>2, <2>3
<1>6. FoundHappened'
  BY <1>1 DEF FoundHappened
<1>7. SleptIsRecent'
  BY <1>1, <1>2, <1>4 DEF SleptIsRecent
<1>8. Sum!ReportedOnce'
  BY DEF Sum!ReportedOnce
<1>9. QED BY <1>3, <1>5, <1>6, <1>7, <1>8

LEMMA SumLoops ==
  ASSUME Periods, NEW t \in Sum!Tasks
  PROVE  SummaryInv /\ (\/ Sum!Summarize(t) \/ Sum!QueryRaises(t) \/ Sum!Leave(t)
                        \/ Sum!Deliver(t) \/ Sum!Cancelled(t))
           => SummaryInv'
<1> SUFFICES ASSUME SummaryInv,
                    \/ Sum!Summarize(t) \/ Sum!QueryRaises(t) \/ Sum!Leave(t)
                    \/ Sum!Deliver(t) \/ Sum!Cancelled(t)
             PROVE  SummaryInv'
  OBVIOUS
<1> USE LongestAge DEF Sum!data, Sum!history
<1>1. stop \in 0..(NumTasks + 1) /\ faults \in 0..MaxFaults /\ rows \subseteq Events
  BY DEF SummaryInv, Sum!TypeOK
<1>2. CASE Sum!Summarize(t)
  <2> DEFINE pc == IF Sum!InWindow(t) = {} THEN "deliver" ELSE "analyze"
             next == [pc |-> pc, left |-> 0, found |-> Sum!InWindow(t)]
  <2>1. next \in Sum!Loop /\ next.pc # "sleep" /\ next.found = Sum!InWindow(t)
    BY <1>1 DEF Sum!Loop, Sum!InWindow
  <2>2. task' = [task EXCEPT ![t] = next] /\ UNCHANGED <<stop, held, age, rows, faults, slept, late, told>>
    BY <1>2 DEF Sum!Summarize, Sum!Goto
  \* What it counted before is older than its window.
  <2>3. \A e \in Sum!InWindow(t) : age[e] >= 1 /\ told[t][e] = 0
    <3> SUFFICES ASSUME NEW e \in Sum!InWindow(t) PROVE age[e] >= 1 /\ told[t][e] = 0
      OBVIOUS
    <3>1. task[t].pc = "sleep" /\ task[t].left = 0 /\ Period[t] \in Nat
      BY <1>2 DEF Sum!Summarize, Sum!Due
    <3>2. e \in Events /\ age[e] > 0 /\ age[e] <= Period[t]
      BY <1>1 DEF Sum!InWindow
    <3>3. age[e] \in Int
      BY <3>2 DEF SummaryInv, Sum!TypeOK, Sum!NotYet
    <3>4. told[t][e] # 0 => age[e] + task[t].left > Period[t]
      BY <3>1, <3>2 DEF SummaryInv, CountedIsOld
    <3>5. QED BY <3>1, <3>2, <3>3, <3>4
  <2> HIDE DEF next
  <2>4. QED BY <1>1, <2>1, <2>2, <2>3, SumMoves
<1>3. CASE Sum!QueryRaises(t) \/ (Sum!Deliver(t) /\ stop = 0)
  <2>1. Sum!Asleep(t) \in Sum!Loop /\ Sum!Asleep(t).pc = "sleep" /\ Sum!Asleep(t).left = Period[t]
    BY DEF Sum!Asleep, Sum!Loop
  <2>2. /\ task' = [task EXCEPT ![t] = Sum!Asleep(t)]
        /\ slept' = [slept EXCEPT ![t] = {}] /\ late' = [late EXCEPT ![t] = FALSE]
        /\ UNCHANGED <<stop, held, age, rows, told>>
        /\ faults' \in 0..MaxFaults
    BY <1>1, <1>3 DEF Sum!QueryRaises, Sum!Deliver, Sum!Sleep, Sum!Fault
  <2>3. QED BY <1>1, <2>1, <2>2, SumMoves
<1>4. CASE Sum!Leave(t) \/ Sum!Cancelled(t) \/ (Sum!Deliver(t) /\ stop # 0)
  <2> DEFINE next == [pc |-> "ended", left |-> 0, found |-> {}]
  <2>1. next \in Sum!Loop /\ next.pc \notin {"sleep", "analyze"}
    BY DEF Sum!Loop
  <2>2. /\ task' = [task EXCEPT ![t] = next] /\ UNCHANGED <<held, age, rows, faults, slept, late, told>>
        /\ stop' \in {stop, t + 1}
    BY <1>1, <1>4 DEF Sum!Leave, Sum!Cancelled, Sum!Deliver, Sum!Goto
  <2>3. t + 1 \in 0..(NumTasks + 1)
    BY DEF Sum!Tasks
  <2> HIDE DEF next
  <2>4. QED BY <1>1, <2>1, <2>2, <2>3, SumMoves
<1>5. QED BY <1>2, <1>3, <1>4

\* The found events are counted, each for the first time.
LEMMA SumAnswers == ASSUME Periods, NEW t \in Sum!Tasks PROVE SummaryInv /\ Sum!Answer(t) => SummaryInv'
<1> SUFFICES ASSUME SummaryInv, Sum!Answer(t) PROVE SummaryInv'
  OBVIOUS
<1> USE LongestAge DEF SummaryInv, Sum!NotYet
<1>1. /\ UNCHANGED <<stop, held, age, rows, faults, slept, late>>
      /\ task' = [task EXCEPT ![t] = [pc |-> "deliver", left |-> 0, found |-> task[t].found]]
      /\ task[t].pc = "analyze"
  BY DEF Sum!Answer, Sum!Goto, Sum!data
<1>2. task[t] \in Sum!Loop /\ task[t].found \subseteq Events
  BY DEF Sum!TypeOK, Sum!Loop
<1>3. /\ task' \in [Sum!Tasks -> Sum!Loop] /\ task'[t].pc = "deliver"
      /\ \A s \in Sum!Tasks \ {t} : task'[s] = task[s]
  BY <1>1, <1>2 DEF Sum!TypeOK, Sum!Loop
<1>4. /\ told' \in [Sum!Tasks -> [Events -> 0..2]]
      /\ \A s \in Sum!Tasks \ {t} : told'[s] = told[s]
      /\ \A e \in Events : e \notin task[t].found => told'[t][e] = told[t][e]
      /\ \A e \in task[t].found : told[t][e] = 0 /\ told'[t][e] = 1 /\ age[e] >= 1
  <2>1. \A e \in task[t].found : told[t][e] = 0 /\ age[e] >= 1
    BY <1>1, <1>2 DEF CountedIsOld, FoundHappened
  <2>2. told \in [Sum!Tasks -> [Events -> 0..2]]
    BY DEF Sum!TypeOK
  <2>3. told' = [told EXCEPT ![t] = [e \in Events |->
                   IF e \in task[t].found /\ told[t][e] < 2 THEN told[t][e] + 1 ELSE told[t][e]]]
    BY DEF Sum!Answer
  <2>4. \A e \in Events : told[t][e] \in 0..2
    BY <2>2
  <2>5. [e \in Events |-> IF e \in task[t].found /\ told[t][e] < 2 THEN told[t][e] + 1 ELSE told[t][e]]
          \in [Events -> 0..2]
    BY <2>4
  <2>6. told' \in [Sum!Tasks -> [Events -> 0..2]]
    BY <2>2, <2>3, <2>5
  <2>7. \A e \in Events : told'[t][e] =
          IF e \in task[t].found /\ told[t][e] < 2 THEN told[t][e] + 1 ELSE told[t][e]
    BY <2>2, <2>3
  <2>8. QED BY <1>2, <2>1, <2>2, <2>3, <2>6, <2>7
<1>5. Sum!TypeOK'
  BY <1>1, <1>3, <1>4 DEF Sum!TypeOK
<1>6. CountedIsOld'
  <2> SUFFICES ASSUME NEW s \in Sum!Tasks, NEW e \in Events, told'[s][e] # 0
               PROVE  /\ age[e] >= 1
                      /\ task'[s].pc = "sleep" => age[e] + task'[s].left > Period[s]
                      /\ task'[s].pc = "analyze" => e \notin task'[s].found
    BY <1>1 DEF CountedIsOld
  <2>1. CASE s = t
    BY <1>3, <1>4, <2>1 DEF CountedIsOld
  <2>2. CASE s # t
    BY <1>3, <1>4, <2>2 DEF CountedIsOld
  <2>3. QED BY <2>1, <2>2
<1>7. FoundHappened' /\ SleptIsRecent'
  BY <1>1, <1>3 DEF FoundHappened, SleptIsRecent
<1>8. Sum!ReportedOnce'
  <2> SUFFICES ASSUME NEW s \in Sum!Tasks, NEW e \in Events PROVE told'[s][e] <= 1
    BY DEF Sum!ReportedOnce
  <2>1. told[s][e] <= 1
    BY DEF Sum!ReportedOnce
  <2>2. QED BY <1>4, <2>1
<1>9. QED BY <1>5, <1>6, <1>7, <1>8

LEMMA SumRestart == ASSUME Periods PROVE SummaryInv /\ Sum!Restart => SummaryInv'
<1> SUFFICES ASSUME SummaryInv, Sum!Restart PROVE SummaryInv'
  OBVIOUS
<1> USE LongestAge DEF SummaryInv, Sum!NotYet
<1>1. /\ task' = [t \in Sum!Tasks |-> Sum!Asleep(t)] /\ stop' = 0 /\ held' = FALSE
      /\ slept' = [t \in Sum!Tasks |-> {}] /\ late' = [t \in Sum!Tasks |-> FALSE]
      /\ UNCHANGED <<age, rows, told>> /\ faults' \in 0..MaxFaults
  BY DEF Sum!Restart, Sum!Started, Sum!Fault, Sum!data, Sum!TypeOK
<1>2. /\ task' \in [Sum!Tasks -> Sum!Loop]
      /\ \A t \in Sum!Tasks : task'[t].pc = "sleep" /\ task'[t].left = Period[t]
  BY <1>1 DEF Sum!Asleep, Sum!Loop
<1>3. Sum!TypeOK'
  <2>1. 0 \in 0..(NumTasks + 1)
    OBVIOUS
  <2>2. slept' \in [Sum!Tasks -> SUBSET Events] /\ late' \in [Sum!Tasks -> BOOLEAN] /\ held' \in BOOLEAN
    BY <1>1
  <2>3. age' \in [Events -> -1..Sum!MaxAge] /\ rows' \subseteq Events /\ told' \in [Sum!Tasks -> [Events -> 0..2]]
    BY <1>1 DEF Sum!TypeOK
  <2>4. QED BY <1>1, <1>2, <2>1, <2>2, <2>3 DEF Sum!TypeOK
<1>4. \A e \in Events : age[e] \in Int
  BY DEF Sum!TypeOK
<1>5. CountedIsOld' /\ FoundHappened'
  BY <1>1, <1>2, <1>4 DEF CountedIsOld, FoundHappened
<1>6. SleptIsRecent' /\ Sum!ReportedOnce'
  BY <1>1, <1>2 DEF SleptIsRecent, Sum!ReportedOnce
<1>7. QED BY <1>3, <1>5, <1>6

LEMMA SumStep == ASSUME Periods PROVE SummaryInv /\ [Sum!Next]_(Sum!vars) => SummaryInv'
BY SumTick, SumAround, SumLoops, SumAnswers, SumRestart DEF Sum!Next, Sum!LoopStep

\* event_summarizer.py: no event is counted in two summaries of a loop, for any
\* number of loops with any periods (one of which is the longest), any events,
\* failures and restarts.
THEOREM CountedInOneSummary == ASSUME Periods PROVE Sum!Spec => []Sum!ReportedOnce
<1>1. SummaryInv => Sum!ReportedOnce
  BY DEF SummaryInv
<1>2. QED BY SumInit, SumStep, <1>1, PTL DEF Sum!Spec

\* Types of the loops, the events' ages and the counts of the summaries.
THEOREM SummaryTypes == ASSUME Periods PROVE Sum!Spec => []Sum!TypeOK
<1>1. SummaryInv => Sum!TypeOK
  BY DEF SummaryInv
<1>2. QED BY SumInit, SumStep, <1>1, PTL DEF Sum!Spec

\* A loop that wakes up on time finds every event of its sleep that is stored.
THEOREM SleepCovered == ASSUME Periods PROVE Sum!Spec => Sum!SleepReported
<1>1. ASSUME SummaryInv, [Sum!Next]_(Sum!vars), NEW t \in Sum!Tasks, Sum!Due(t), ~late[t],
             task'[t].pc \in {"analyze", "deliver"}
      PROVE  {e \in slept[t] \cap rows : age[e] > 0} \subseteq task'[t].found
  <2>1. task[t].pc = "sleep" /\ task[t].left = 0
    BY <1>1 DEF Sum!Due
  <2>2. task \in [Sum!Tasks -> Sum!Loop]
    BY <1>1 DEF SummaryInv, Sum!TypeOK
  <2>3. task'[t] # task[t] /\ task'[t].pc # "sleep"
    BY <1>1, <2>1
  <2>4. ~Sum!Tick
    <3> SUFFICES ASSUME Sum!Tick PROVE FALSE
      OBVIOUS
    <3>1. task'[t] = [task[t] EXCEPT !.left = IF task[t].left > 0 THEN task[t].left - 1 ELSE task[t].left]
      BY <1>1 DEF Sum!Tick
    <3>2. task[t] \in Sum!Loop
      BY <1>1, <2>2
    <3>3. task'[t].pc = "sleep"
      BY <2>1, <3>1, <3>2 DEF Sum!Loop
    <3>4. QED BY <2>3, <3>3
  <2>5. /\ ~(\E e \in Events : Sum!Happen(e) \/ Sum!Store(e))
        /\ ~Sum!Hold /\ ~Sum!Release /\ ~Sum!BeginStop /\ ~UNCHANGED Sum!vars
    BY <2>3 DEF Sum!Happen, Sum!Store, Sum!Hold, Sum!Release, Sum!BeginStop, Sum!program, Sum!vars
  <2>6. ~Sum!Restart
    BY <2>3 DEF Sum!Restart, Sum!Started, Sum!Asleep
  <2>7. ASSUME NEW s \in Sum!Tasks, Sum!LoopStep(s) \/ Sum!Cancelled(s) PROVE s = t
    BY <2>2, <2>3, <2>7
       DEF Sum!LoopStep, Sum!Cancelled, Sum!Summarize, Sum!QueryRaises, Sum!Leave, Sum!Answer,
           Sum!Deliver, Sum!Goto, Sum!Sleep
  <2>8. Sum!LoopStep(t) \/ Sum!Cancelled(t)
    BY <1>1, <2>4, <2>5, <2>6, <2>7 DEF Sum!Next
  <2>9. Sum!Summarize(t)
    BY <1>1, <2>1, <2>2, <2>3, <2>8
       DEF Sum!LoopStep, Sum!Cancelled, Sum!QueryRaises, Sum!Leave, Sum!Answer, Sum!Deliver,
           Sum!Goto, Sum!Sleep, Sum!Asleep
  <2>10. task'[t].found = Sum!InWindow(t)
    BY <2>2, <2>9 DEF Sum!Summarize, Sum!Goto
  <2>11. \A e \in slept[t] : age[e] <= Period[t]
    BY <1>1, <2>1, LongestAge DEF SummaryInv, SleptIsRecent
  <2>12. QED BY <2>10, <2>11 DEF Sum!InWindow
<1>2. SummaryInv /\ [Sum!Next]_(Sum!vars) =>
        [\A t \in Sum!Tasks :
           Sum!Due(t) /\ task'[t].pc \in {"analyze", "deliver"} /\ ~late[t] =>
             {e \in slept[t] \cap rows : age[e] > 0} \subseteq task'[t].found]_(Sum!vars)
  BY <1>1
<1>3. QED BY SumInit, SumStep, <1>2, PTL DEF Sum!Spec, Sum!SleepReported
=============================================================================
