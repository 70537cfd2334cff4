------------------------ MODULE AlertSystem_proofs ------------------------
(***************************************************************************)
(* Proofs about AlertSystem for any keys, windows, callers and channels,   *)
(* and about AlertReview for any requests and alerts besides.              *)
(***************************************************************************)
EXTENDS AlertReview, TLAPS

-----------------------------------------------------------------------------
(* Type correctness *)

\* What the steps rely on and TypeOK does not say: the coroutine that holds the
\* loop is the one between two deliveries, and a coroutine inside send_alert
\* has a key.
LoopHeld ==
  /\ \A s \in Callers : (loop = s) <=> (call[s].pc = "deliver")
  /\ \A s \in Callers : (call[s].pc = "idle") <=> (call[s].key = NoKey)
  /\ \A s \in Callers : call[s].pc = "await" => call[s].ch \in Suspending

TypeInv == TypeOK /\ LoopHeld

LEMMA TypeInvInit == Init => TypeInv
BY AlertAssumption
   DEF Init, TypeInv, TypeOK, LoopHeld, Idle, NoEntry, Channels, Activation, Hearing

\* Whatever the channel answers, the coroutine goes on with the next one, and
\* only an acceptance is remembered.
LEMMA Answered ==
  ASSUME TypeInv, NEW s \in Callers,
         call[s].pc # "idle", call[s].ch \in Channels, Accept(s) \/ Refuse(s)
  PROVE  /\ call' \in [Callers -> Activation]
         /\ heard' \in [Keys -> [Channels -> Hearing]]
         /\ call'[s].pc = "deliver" /\ call'[s].key = call[s].key
         /\ call'[s].ch = call[s].ch + 1
         /\ \A t \in Callers \ {s} : call'[t] = call[t]
<1>1. call \in [Callers -> Activation] /\ call[s].key \in Keys
  BY DEF TypeInv, TypeOK, LoopHeld, Activation
<1>2. call[s].ch + 1 \in 1..(NumChannels + 1)
  BY AlertAssumption DEF Channels
<1>3. clock \in Int /\ heard \in [Keys -> [Channels -> Hearing]]
  BY DEF TypeInv, TypeOK
<1>4. CASE Accept(s)
  BY <1>1, <1>2, <1>3, <1>4 DEF Accept, Activation, Hearing
<1>5. CASE Refuse(s)
  BY <1>1, <1>2, <1>3, <1>5 DEF Refuse, Activation
<1>6. QED BY <1>4, <1>5

\* The coroutine that goes on holds the loop.
LEMMA HolderGoesOn ==
  ASSUME LoopHeld, NEW s \in Callers, loop \in {s, NoCaller}, loop' = s,
         call[s].pc # "idle", call'[s].pc = "deliver", call'[s].key = call[s].key,
         \A t \in Callers \ {s} : call'[t] = call[t]
  PROVE  LoopHeld'
<1>1. ASSUME NEW t \in Callers
      PROVE  /\ (loop' = t) <=> (call'[t].pc = "deliver")
             /\ (call'[t].pc = "idle") <=> (call'[t].key = NoKey)
             /\ call'[t].pc = "await" => call'[t].ch \in Suspending
  <2>1. CASE t = s
    <3>1. call[s].key # NoKey
      BY DEF LoopHeld
    <3>2. QED BY <2>1, <3>1
  <2>2. CASE t # s
    <3>1. call'[t] = call[t] /\ loop # t /\ loop' # t
      BY <2>2, AlertAssumption
    <3>2. QED BY <3>1 DEF LoopHeld
  <2>3. QED BY <2>1, <2>2
<1>2. QED BY <1>1 DEF LoopHeld

LEMMA TypeInvStep == TypeInv /\ [Next]_vars => TypeInv'
<1> SUFFICES ASSUME TypeInv, [Next]_vars PROVE TypeInv'
  OBVIOUS
<1> USE AlertAssumption DEF TypeInv, TypeOK, LoopHeld
<1>1. CASE Tick
  BY <1>1 DEF Tick
<1>2. ASSUME NEW s \in Callers, NEW k \in Keys, Suppress(s, k) PROVE TypeInv'
  <2>1. cooldownMap' \in [Keys -> [at : Nat \cup {NoEntry}, suppressed : Nat]]
    <3>1. cooldownMap[k].suppressed + 1 \in Nat
      OBVIOUS
    <3>2. QED BY <1>2, <3>1 DEF Suppress, NoEntry
  <2>2. QED BY <1>2, <2>1 DEF Suppress
<1>3. ASSUME NEW s \in Callers, NEW k \in Keys, Begin(s, k) PROVE TypeInv'
  BY <1>3 DEF Begin, Cross, Activation
<1>4. ASSUME NEW s \in Callers, Deliver(s) PROVE TypeInv'
  <2>1. (Accept(s) \/ Refuse(s)) /\ call[s].pc # "idle" /\ call[s].ch \in Channels
    BY <1>4 DEF Deliver
  <2>2. /\ call' \in [Callers -> Activation]
        /\ heard' \in [Keys -> [Channels -> Hearing]]
        /\ call'[s].pc = "deliver" /\ call'[s].key = call[s].key
        /\ \A t \in Callers \ {s} : call'[t] = call[t]
    BY <2>1, Answered
  <2>3. TypeOK'
    BY <1>4, <2>2 DEF Deliver
  <2>4. LoopHeld'
    <3>1. loop = s /\ loop' = s
      BY <1>4 DEF Deliver
    <3>2. QED BY <2>1, <2>2, <3>1, HolderGoesOn
  <2>5. QED BY <2>3, <2>4
<1>5. ASSUME NEW s \in Callers, Resume(s) PROVE TypeInv'
  <2>1. (Accept(s) \/ Refuse(s)) /\ call[s].pc # "idle" /\ call[s].ch \in Channels
    BY <1>5 DEF Resume
  <2>2. /\ call' \in [Callers -> Activation]
        /\ heard' \in [Keys -> [Channels -> Hearing]]
        /\ call'[s].pc = "deliver" /\ call'[s].key = call[s].key
        /\ \A t \in Callers \ {s} : call'[t] = call[t]
    BY <2>1, Answered
  <2>3. TypeOK'
    BY <1>5, <2>2 DEF Resume
  <2>4. LoopHeld'
    <3>1. loop = NoCaller /\ loop' = s
      BY <1>5 DEF Resume
    <3>2. QED BY <2>1, <2>2, <3>1, HolderGoesOn
  <2>5. QED BY <2>3, <2>4
<1>6. ASSUME NEW s \in Callers, Suspend(s) PROVE TypeInv'
  <2>1. /\ call' = [call EXCEPT ![s].pc = "await"]
        /\ loop = s /\ loop' = NoCaller
        /\ UNCHANGED <<clock, cooldownMap, accepted, heard, crossed>>
    BY <1>6 DEF Suspend
  <2>2. call' \in [Callers -> Activation]
    BY <2>1 DEF Activation
  <2>3. TypeOK'
    BY <2>1, <2>2
  <2>4. LoopHeld'
    BY <1>6, <2>1 DEF Suspend
  <2>5. QED BY <2>3, <2>4
<1>7. ASSUME NEW s \in Callers, Record(s) PROVE TypeInv'
  BY <1>7 DEF Record, Idle, Activation
<1>8. CASE UNCHANGED vars
  BY <1>8 DEF vars
<1>9. QED
  BY <1>1, <1>2, <1>3, <1>4, <1>5, <1>6, <1>7, <1>8 DEF Next, SendAlert

\* Every variable keeps its type: the loop over the channels ends after the
\* last, and the cooldown table holds one entry per key.
THEOREM TypeCorrect == Spec => []TypeOK
<1>1. TypeInv => TypeOK
  BY DEF TypeInv
<1>2. QED
  BY <1>1, TypeInvInit, TypeInvStep, PTL DEF Spec

-----------------------------------------------------------------------------
(* No duplicate within the window, but from overlapping calls *)

\* Calls of one key that are in progress together know of it.
RivalsCrossed ==
  \A s, t \in Callers :
    s # t /\ call[s].key # NoKey /\ call[s].key = call[t].key => s \in crossed

\* A call that met no other still has to deliver to channels that last heard of
\* its key a full window ago.
WindowOpen ==
  \A s \in Callers : call[s].pc # "idle" /\ s \notin crossed =>
    \A c \in Channels : c >= call[s].ch =>
      heard[call[s].key][c].last + Cooldown[call[s].key] <= clock

\* The time the cooldown table gives for a key.
Entry(k) == IF cooldownMap[k].at = NoEntry THEN -Cooldown[k] ELSE cooldownMap[k].at

\* What a channel accepted last is recorded, or the call that brought it is
\* still in progress and will record it.
Recorded ==
  \A k \in Keys, c \in Channels :
    \/ heard[k][c].last <= Entry(k)
    \/ \E s \in Callers : call[s].key = k /\ c \in call[s].took

\* No acceptance and no entry lies in the future.
PastOnly ==
  /\ \A k \in Keys, c \in Channels : heard[k][c].last <= clock
  /\ \A k \in Keys : cooldownMap[k].at <= clock

WindowInv == TypeInv /\ RivalsCrossed /\ WindowOpen /\ Recorded /\ PastOnly /\ NoDuplicate

LEMMA WindowInvInit == Init => WindowInv
<1> SUFFICES ASSUME Init PROVE WindowInv
  OBVIOUS
<1>1. TypeInv
  BY TypeInvInit
<1>2. QED
  BY <1>1, AlertAssumption
     DEF Init, WindowInv, RivalsCrossed, WindowOpen, Recorded, Entry, PastOnly, NoDuplicate,
         Idle, NoEntry, Channels

\* A coroutine inside send_alert has a key, one outside has none.
LEMMA KeyHeld ==
  ASSUME TypeInv, NEW s \in Callers
  PROVE  /\ call[s].pc # "idle" => call[s].key \in Keys
         /\ call[s].pc = "idle" => call[s].key = NoKey
BY DEF TypeInv, TypeOK, LoopHeld, Activation

\* The times are integers.
LEMMA Times ==
  ASSUME TypeInv, NEW k \in Keys, NEW c \in Channels
  PROVE  /\ clock \in Nat /\ Cooldown[k] \in Nat /\ Entry(k) \in Int
         /\ heard[k][c].last \in Int /\ heard[k][c].prev \in Int
BY AlertAssumption DEF TypeInv, TypeOK, Entry, NoEntry, Hearing

\* The fields of an acceptance.
LEMMA HearingFields ==
  ASSUME NEW p, NEW l, NEW a \in BOOLEAN
  PROVE  [prev |-> p, last |-> l, alone |-> a].alone = a
OBVIOUS

\* A channel's answer keeps the invariant, whether it suspended or not.
LEMMA AnswerKeepsWindow ==
  ASSUME WindowInv, TypeInv', NEW s \in Callers, call[s].pc # "idle", call[s].ch \in Channels,
         Accept(s) \/ Refuse(s), UNCHANGED <<clock, cooldownMap, crossed>>
  PROVE  WindowInv'
<1> DEFINE k == call[s].key
           d == call[s].ch
<1>0. TypeInv /\ k \in Keys /\ d \in Channels
  BY KeyHeld DEF WindowInv
<1>1. /\ call'[s].pc = "deliver" /\ call'[s].key = k /\ call'[s].ch = d + 1
      /\ \A t \in Callers \ {s} : call'[t] = call[t]
  BY <1>0, Answered
<1>2. /\ call[s].took \subseteq call'[s].took
      /\ \A j \in Keys, c \in Channels :
           \/ heard'[j][c] = heard[j][c]
           \/ /\ j = k /\ c = d /\ d \in call'[s].took
              /\ heard'[j][c] = [prev |-> heard[k][d].last, last |-> clock,
                                 alone |-> s \notin crossed]
  <2>0. /\ call \in [Callers -> Activation] /\ heard \in [Keys -> [Channels -> Hearing]]
    BY <1>0 DEF TypeInv, TypeOK
  <2>1. CASE Accept(s)
    BY <1>0, <2>0, <2>1 DEF Accept
  <2>2. CASE Refuse(s)
    BY <1>0, <2>0, <2>2 DEF Refuse
  <2>3. QED BY <2>1, <2>2
<1>3. s \notin crossed => heard[k][d].last + Cooldown[k] <= clock
  BY <1>0 DEF WindowInv, WindowOpen, Channels
<1>k. \A t \in Callers : call'[t].key = call[t].key
  BY <1>1
<1> HIDE DEF k, d
<1>4. RivalsCrossed'
  BY <1>k DEF WindowInv, RivalsCrossed
<1>5. WindowOpen'
  <2> SUFFICES ASSUME NEW t \in Callers, call'[t].pc # "idle", t \notin crossed,
                      NEW c \in Channels, c >= call'[t].ch
               PROVE  heard'[call[t].key][c].last + Cooldown[call[t].key] <= clock
    BY <1>k DEF WindowOpen
  <2>1. call[t].pc # "idle" /\ call[t].key \in Keys
    BY <1>0, <1>1, KeyHeld
  <2>2. c >= call[t].ch
    <3>1. CASE t = s
      BY <1>0, <1>1, <3>1 DEF d, Channels
    <3>2. CASE t # s
      BY <1>1, <3>2
    <3>3. QED BY <3>1, <3>2
  <2>3. heard[call[t].key][c].last + Cooldown[call[t].key] <= clock
    BY <2>1, <2>2 DEF WindowInv, WindowOpen
  <2>4. ~(call[t].key = k /\ c = d)
    <3>1. CASE t = s
      BY <1>0, <1>1, <3>1 DEF d, Channels
    <3>2. CASE t # s
      BY <1>0, <3>2, AlertAssumption DEF WindowInv, RivalsCrossed, k
    <3>3. QED BY <3>1, <3>2
  <2>5. heard'[call[t].key][c] = heard[call[t].key][c]
    BY <1>2, <2>1, <2>4
  <2>6. QED BY <2>3, <2>5
<1>6. Recorded'
  <2> SUFFICES ASSUME NEW j \in Keys, NEW c \in Channels
               PROVE  \/ heard'[j][c].last <= Entry(j)
                      \/ \E t \in Callers : call'[t].key = j /\ c \in call'[t].took
    BY DEF Recorded, Entry
  <2>1. CASE heard'[j][c] = heard[j][c]
    <3>1. CASE heard[j][c].last <= Entry(j)
      BY <2>1, <3>1
    <3>2. CASE \E t \in Callers : call[t].key = j /\ c \in call[t].took
      BY <1>1, <1>2, <3>2 DEF k
    <3>3. QED BY <3>1, <3>2 DEF WindowInv, Recorded
  <2>2. CASE j = k /\ c = d /\ d \in call'[s].took
    BY <1>1, <2>2
  <2>3. QED BY <1>2, <2>1, <2>2
<1>7. PastOnly'
  <2>1. \A j \in Keys, c \in Channels : heard'[j][c].last <= clock
    BY <1>0, <1>2, Times DEF WindowInv, PastOnly
  <2>2. QED BY <2>1 DEF WindowInv, PastOnly
<1>8. NoDuplicate'
  <2> SUFFICES ASSUME NEW j \in Keys, NEW c \in Channels, heard'[j][c].alone
               PROVE  heard'[j][c].last - heard'[j][c].prev >= Cooldown[j]
    BY DEF NoDuplicate
  <2>1. CASE heard'[j][c] = heard[j][c]
    BY <2>1 DEF WindowInv, NoDuplicate
  <2>2. CASE j = k /\ c = d /\ heard'[j][c] = [prev |-> heard[k][d].last, last |-> clock,
                                               alone |-> s \notin crossed]
    <3>0. heard'[j][c].alone = (s \notin crossed)
      BY <2>2, HearingFields, Zenon
    <3>1. /\ s \notin crossed
          /\ heard'[j][c].last = clock /\ heard'[j][c].prev = heard[k][d].last
      <4>1. s \notin crossed
        BY <3>0
      <4>2. heard'[j][c].last = clock /\ heard'[j][c].prev = heard[k][d].last
        BY <2>2
      <4>3. QED BY <4>1, <4>2
    <3>2. heard[k][d].last \in Int /\ Cooldown[k] \in Nat /\ clock \in Nat
      BY <1>0, Times
    <3>3. QED BY <1>3, <2>2, <3>1, <3>2
  <2>3. QED BY <1>2, <2>1, <2>2
<1>9. QED BY <1>4, <1>5, <1>6, <1>7, <1>8 DEF WindowInv

LEMMA WindowInvStep == WindowInv /\ [Next]_vars => WindowInv'
<1> SUFFICES ASSUME WindowInv, [Next]_vars PROVE WindowInv'
  OBVIOUS
<1>0. TypeInv /\ TypeInv'
  BY TypeInvStep DEF WindowInv
<1>i. /\ call \in [Callers -> Activation]
      /\ cooldownMap \in [Keys -> [at : Nat \cup {NoEntry}, suppressed : Nat]]
  BY <1>0 DEF TypeInv, TypeOK
<1>1. CASE Tick
  <2>1. clock' > clock /\ UNCHANGED <<loop, call, cooldownMap, heard, crossed>>
    BY <1>0, <1>1 DEF Tick, TypeInv, TypeOK
  <2>2. WindowOpen'
    <3> SUFFICES ASSUME NEW s \in Callers, call[s].pc # "idle", s \notin crossed,
                        NEW c \in Channels, c >= call[s].ch
                 PROVE  heard[call[s].key][c].last + Cooldown[call[s].key] <= clock'
      BY <2>1 DEF WindowOpen
    <3>1. call[s].key \in Keys
      BY <1>0, KeyHeld
    <3>2. heard[call[s].key][c].last + Cooldown[call[s].key] <= clock
      BY DEF WindowInv, WindowOpen
    <3>3. QED BY <1>0, <2>1, <3>1, <3>2, Times DEF TypeInv, TypeOK
  <2>3. PastOnly'
    <3>1. clock \in Int /\ clock' \in Int
      BY <1>0 DEF TypeInv, TypeOK
    <3>2. \A j \in Keys : cooldownMap[j].at \in Int
      BY <1>i DEF NoEntry
    <3>3. QED BY <1>0, <2>1, <3>1, <3>2, Times DEF WindowInv, PastOnly
  <2>4. RivalsCrossed' /\ Recorded' /\ NoDuplicate'
    BY <2>1 DEF WindowInv, RivalsCrossed, Recorded, Entry, NoDuplicate
  <2>5. QED BY <1>0, <2>2, <2>3, <2>4 DEF WindowInv
<1>2. ASSUME NEW s \in Callers, NEW k \in Keys, Suppress(s, k) PROVE WindowInv'
  <2>1. UNCHANGED <<clock, loop, call, heard, crossed>>
    BY <1>2 DEF Suppress
  <2>2. \A j \in Keys : cooldownMap'[j].at = cooldownMap[j].at
    BY <1>i, <1>2 DEF Suppress
  <2>3. QED
    BY <1>0, <2>1, <2>2
       DEF WindowInv, RivalsCrossed, WindowOpen, Recorded, Entry, PastOnly, NoDuplicate
<1>3. ASSUME NEW s \in Callers, NEW k \in Keys, Begin(s, k) PROVE WindowInv'
  <2> DEFINE rivals == {t \in Callers : call[t].key = k}
  <2>1. /\ call[s].pc = "idle" /\ call[s].key = NoKey
        /\ call' = [call EXCEPT ![s] = [pc |-> "deliver", key |-> k, ch |-> 1, took |-> {}]]
        /\ crossed' = IF rivals = {} THEN crossed ELSE crossed \cup rivals \cup {s}
        /\ UNCHANGED <<clock, cooldownMap, heard>>
    BY <1>0, <1>3, KeyHeld DEF Begin, Cross
  <2>2. /\ call'[s].pc = "deliver" /\ call'[s].key = k /\ call'[s].ch = 1
        /\ \A t \in Callers \ {s} : call'[t] = call[t]
    BY <1>i, <2>1
  <2>3. RivalsCrossed'
    <3> SUFFICES ASSUME NEW t \in Callers, NEW u \in Callers, t # u, call'[t].key # NoKey,
                        call'[t].key = call'[u].key
                 PROVE  t \in crossed'
      BY DEF RivalsCrossed
    <3>1. CASE t = s
      BY <2>1, <2>2, <3>1
    <3>2. CASE u = s
      BY <2>1, <2>2, <3>2
    <3>3. CASE t # s /\ u # s
      BY <2>1, <2>2, <3>3 DEF WindowInv, RivalsCrossed
    <3>4. QED BY <3>1, <3>2, <3>3
  <2>4. WindowOpen'
    <3> SUFFICES ASSUME NEW t \in Callers, call'[t].pc # "idle", t \notin crossed',
                        NEW c \in Channels, c >= call'[t].ch
                 PROVE  heard[call'[t].key][c].last + Cooldown[call'[t].key] <= clock
      BY <2>1 DEF WindowOpen
    <3>1. CASE t = s
      <4>1. \A u \in Callers : call[u].key # k
        BY <2>1, <3>1
      <4>2. heard[k][c].last <= Entry(k)
        BY <4>1 DEF WindowInv, Recorded
      <4>3. heard[k][c].last + Cooldown[k] <= clock
        <5>1. CASE cooldownMap[k].at = NoEntry
          BY <1>0, <4>2, <5>1, Times DEF Entry
        <5>2. CASE cooldownMap[k].at # NoEntry
          <6>1. clock - Entry(k) >= Cooldown[k]
            BY <1>0, <1>3, <5>2, Times DEF Begin, InCooldown, Entry
          <6>2. QED BY <1>0, <4>2, <6>1, Times
        <5>3. QED BY <5>1, <5>2
      <4>4. QED BY <2>2, <3>1, <4>3
    <3>2. CASE t # s
      BY <2>1, <2>2, <3>2 DEF WindowInv, WindowOpen
    <3>3. QED BY <3>1, <3>2
  <2>5. Recorded'
    <3>1. ASSUME NEW t \in Callers, NEW j \in Keys, NEW c, call[t].key = j, c \in call[t].took
          PROVE  call'[t].key = j /\ c \in call'[t].took
      BY <2>1, <2>2, <3>1, AlertAssumption
    <3>2. QED BY <2>1, <3>1 DEF WindowInv, Recorded, Entry
  <2>6. PastOnly' /\ NoDuplicate'
    BY <2>1 DEF WindowInv, PastOnly, NoDuplicate
  <2>7. QED BY <1>0, <2>3, <2>4, <2>5, <2>6 DEF WindowInv
<1>4. ASSUME NEW s \in Callers, Deliver(s) PROVE WindowInv'
  BY <1>0, <1>4, AnswerKeepsWindow DEF Deliver
<1>5. ASSUME NEW s \in Callers, Resume(s) PROVE WindowInv'
  <2>1. call[s].ch \in Channels
    BY <1>0, <1>5, AlertAssumption DEF Resume, TypeInv, LoopHeld
  <2>2. QED BY <1>0, <1>5, <2>1, AnswerKeepsWindow DEF Resume
<1>6. ASSUME NEW s \in Callers, Suspend(s) PROVE WindowInv'
  <2>1. /\ call' = [call EXCEPT ![s].pc = "await"] /\ call[s].pc = "deliver"
        /\ UNCHANGED <<clock, cooldownMap, heard, crossed>>
    BY <1>6 DEF Suspend
  <2>2. \A t \in Callers : /\ call'[t].key = call[t].key
                           /\ call'[t].ch = call[t].ch
                           /\ call'[t].took = call[t].took
                           /\ call'[t].pc = "idle" <=> call[t].pc = "idle"
    BY <1>i, <2>1
  <2>3. QED
    BY <1>0, <2>1, <2>2
       DEF WindowInv, RivalsCrossed, WindowOpen, Recorded, Entry, PastOnly, NoDuplicate
<1>7. ASSUME NEW s \in Callers, Record(s) PROVE WindowInv'
  <2> DEFINE k == call[s].key
  <2>1. /\ k \in Keys
        /\ cooldownMap' = [cooldownMap EXCEPT ![k] = [at |-> clock, suppressed |-> 0]]
        /\ call' = [call EXCEPT ![s] = Idle]
        /\ crossed' = crossed \ {s}
        /\ UNCHANGED <<clock, heard>>
    BY <1>0, <1>7, KeyHeld DEF Record
  <2>2. /\ call'[s] = Idle
        /\ \A t \in Callers \ {s} : call'[t] = call[t]
    BY <1>i, <2>1
  <2>3. /\ cooldownMap'[k].at = clock
        /\ \A j \in Keys \ {k} : cooldownMap'[j] = cooldownMap[j]
    BY <1>i, <2>1
  <2> HIDE DEF k
  <2>4. RivalsCrossed'
    BY <2>1, <2>2 DEF WindowInv, RivalsCrossed, Idle
  <2>5. WindowOpen'
    <3> SUFFICES ASSUME NEW t \in Callers, call'[t].pc # "idle", t \notin crossed',
                        NEW c \in Channels, c >= call'[t].ch
                 PROVE  heard[call'[t].key][c].last + Cooldown[call'[t].key] <= clock
      BY <2>1 DEF WindowOpen
    <3>1. t # s
      BY <2>2 DEF Idle
    <3>2. QED BY <2>1, <2>2, <3>1 DEF WindowInv, WindowOpen
  <2>6. Recorded'
    <3> SUFFICES ASSUME NEW j \in Keys, NEW c \in Channels
                 PROVE  \/ heard[j][c].last <= Entry(j)'
                        \/ \E t \in Callers : call'[t].key = j /\ c \in call'[t].took
      BY <2>1 DEF Recorded
    <3>1. CASE j = k
      <4>1. Entry(j)' = clock
        BY <1>0, <2>3, <3>1 DEF Entry, NoEntry, TypeInv, TypeOK
      <4>2. QED BY <4>1 DEF WindowInv, PastOnly
    <3>2. CASE j # k
      <4>1. Entry(j)' = Entry(j)
        BY <2>3, <3>2 DEF Entry
      <4>2. \A t \in Callers : call[t].key = j => t # s /\ call'[t] = call[t]
        BY <2>2, <3>2 DEF k
      <4>3. QED BY <4>1, <4>2 DEF WindowInv, Recorded
    <3>3. QED BY <3>1, <3>2
  <2>7. PastOnly'
    <3>1. \A j \in Keys : cooldownMap'[j].at <= clock
      <4>1. TAKE j \in Keys
      <4>2. CASE j = k
        BY <1>0, <2>3, <4>2 DEF TypeInv, TypeOK
      <4>3. CASE j # k
        BY <2>3, <4>3 DEF WindowInv, PastOnly
      <4>4. QED BY <4>2, <4>3
    <3>2. QED BY <2>1, <3>1 DEF WindowInv, PastOnly
  <2>8. NoDuplicate'
    BY <2>1 DEF WindowInv, NoDuplicate
  <2>9. QED BY <1>0, <2>4, <2>5, <2>6, <2>7, <2>8 DEF WindowInv
<1>8. CASE UNCHANGED vars
  BY <1>0, <1>8
     DEF vars, WindowInv, RivalsCrossed, WindowOpen, Recorded, Entry, PastOnly, NoDuplicate
<1>9. QED
  BY <1>1, <1>2, <1>3, <1>4, <1>5, <1>6, <1>7, <1>8 DEF Next, SendAlert

\* For any keys, windows, callers and channels, and however long a channel takes
\* to answer: two acceptances of one key less than its window apart come from
\* send_alert calls that overlapped.
THEOREM WindowKept == Spec => []NoDuplicate
<1>1. WindowInv => NoDuplicate
  BY DEF WindowInv
<1>2. QED BY <1>1, WindowInvInit, WindowInvStep, PTL DEF Spec

\* Calls never overlap when no channel suspends, as none of the channels the
\* file ships does: the coroutine inside send_alert holds the event loop.
NeverCrossed == TypeInv /\ crossed = {} /\ \A k \in Keys, c \in Channels : heard[k][c].alone

\* With such channels no channel accepts two alerts of one key within its
\* window, without exception.
COROLLARY WindowKeptUnsuspended ==
  ASSUME Suspending = {}
  PROVE  Spec => [](NoDuplicate /\ \A k \in Keys, c \in Channels : heard[k][c].alone)
<1>1. Init => NeverCrossed
  BY TypeInvInit DEF Init, NeverCrossed
<1>2. NeverCrossed /\ [Next]_vars => NeverCrossed'
  <2> SUFFICES ASSUME NeverCrossed, [Next]_vars PROVE NeverCrossed'
    OBVIOUS
  <2>0. TypeInv /\ TypeInv'
    BY TypeInvStep DEF NeverCrossed
  <2>1. ASSUME NEW s \in Callers, NEW k \in Keys, Begin(s, k) PROVE NeverCrossed'
    <3>1. \A t \in Callers : call[t].pc = "idle"
      BY <2>0, <2>1 DEF Begin, TypeInv, TypeOK, LoopHeld, Activation
    <3>2. \A t \in Callers : call[t].key # k
      BY <2>0, <3>1, KeyHeld, AlertAssumption
    <3>3. QED BY <2>0, <2>1, <3>2 DEF Begin, Cross, NeverCrossed
  <2>2. ASSUME NEW s \in Callers, Deliver(s) \/ Resume(s) PROVE NeverCrossed'
    <3>1. crossed' = crossed /\ (Accept(s) \/ Refuse(s))
      BY <2>2 DEF Deliver, Resume
    <3>2. heard \in [Keys -> [Channels -> Hearing]] /\ s \notin crossed
      BY <2>0 DEF NeverCrossed, TypeInv, TypeOK
    <3>3. \A k \in Keys, c \in Channels : heard'[k][c].alone
      <4>1. CASE Accept(s)
        BY <3>2, <4>1 DEF Accept, NeverCrossed
      <4>2. CASE Refuse(s)
        BY <4>2 DEF Refuse, NeverCrossed
      <4>3. QED BY <3>1, <4>1, <4>2
    <3>4. QED BY <2>0, <3>1, <3>3 DEF NeverCrossed
  <2>3. QED
    BY <2>0, <2>1, <2>2
       DEF NeverCrossed, Next, SendAlert, Tick, Suppress, Suspend, Record, vars
<1>3. NeverCrossed => \A k \in Keys, c \in Channels : heard[k][c].alone
  BY DEF NeverCrossed
<1>4. QED BY <1>1, <1>2, <1>3, WindowKept, PTL DEF Spec

-----------------------------------------------------------------------------
(* What suppression relies on, when some channel is reliable *)

Reliable == Channels \ MayFail

\* A reliable channel already passed has taken the alert.
ReliableTook ==
  \A s \in Callers : call[s].pc # "idle" =>
    \A c \in Reliable : c < call[s].ch => c \in call[s].took

\* A recorded alert was taken by the reliable channels; a counter counts from
\* a recorded alert.
RecordedTaken ==
  \A k \in Keys :
    /\ cooldownMap[k].at # NoEntry => Reliable \subseteq accepted[k]
    /\ cooldownMap[k].suppressed > 0 => cooldownMap[k].at # NoEntry

AcceptInv == TypeInv /\ ReliableTook /\ RecordedTaken

LEMMA AcceptInvInit == Init => AcceptInv
<1> SUFFICES ASSUME Init PROVE AcceptInv
  OBVIOUS
<1>1. TypeInv
  BY TypeInvInit
<1>2. QED
  BY <1>1, AlertAssumption DEF Init, AcceptInv, ReliableTook, RecordedTaken, Idle, NoEntry

LEMMA AcceptInvStep == AcceptInv /\ [Next]_vars => AcceptInv'
<1> SUFFICES ASSUME AcceptInv, [Next]_vars PROVE AcceptInv'
  OBVIOUS
<1>0. TypeInv'
  BY TypeInvStep DEF AcceptInv
<1> USE AlertAssumption
    DEF AcceptInv, TypeInv, TypeOK, LoopHeld, ReliableTook, RecordedTaken, Reliable
<1>1. CASE Tick
  BY <1>0, <1>1 DEF Tick
<1>2. ASSUME NEW s \in Callers, NEW k \in Keys, Suppress(s, k) PROVE AcceptInv'
  BY <1>0, <1>2 DEF Suppress, InCooldown
<1>3. ASSUME NEW s \in Callers, NEW k \in Keys, Begin(s, k) PROVE AcceptInv'
  <2>1. UNCHANGED <<cooldownMap, accepted>>
        /\ call' = [call EXCEPT ![s] = [pc |-> "deliver", key |-> k, ch |-> 1, took |-> {}]]
    BY <1>3 DEF Begin
  <2>2. ReliableTook'
    BY <2>1 DEF Channels
  <2>3. QED BY <1>0, <2>1, <2>2
<1>4. ASSUME NEW s \in Callers,
             (Accept(s) \/ Refuse(s)), call[s].pc # "idle", call[s].ch \in Channels,
             UNCHANGED <<cooldownMap, accepted>>
      PROVE  AcceptInv'
  <2>1. /\ call' \in [Callers -> Activation]
        /\ call'[s].ch = call[s].ch + 1
        /\ \A t \in Callers \ {s} : call'[t] = call[t]
    BY <1>4, Answered
  <2>2. \A c \in Reliable : c < call'[s].ch => c \in call'[s].took
    <3>1. CASE Accept(s)
      BY <1>4, <2>1, <3>1 DEF Channels, Accept, Activation
    <3>2. CASE Refuse(s)
      BY <1>4, <2>1, <3>2 DEF Channels, Refuse, Activation
    <3>3. QED BY <1>4, <3>1, <3>2
  <2>3. QED BY <1>0, <1>4, <2>1, <2>2
<1>5. ASSUME NEW s \in Callers, Deliver(s) \/ Resume(s)
      PROVE  AcceptInv'
  BY <1>4, <1>5 DEF Deliver, Resume
<1>6. ASSUME NEW s \in Callers, Suspend(s) PROVE AcceptInv'
  BY <1>0, <1>6 DEF Suspend
<1>7. ASSUME NEW s \in Callers, Record(s) PROVE AcceptInv'
  <2>1. call[s].key \in Keys
    BY <1>7 DEF Record, Activation
  <2>2. Reliable \subseteq call[s].took
    BY <1>7 DEF Record, Channels, Activation
  <2>3. QED BY <1>0, <1>7, <2>1, <2>2 DEF Record, Idle
<1>8. CASE UNCHANGED vars
  BY <1>0, <1>8 DEF vars
<1>9. QED
  BY <1>1, <1>2, <1>3, <1>5, <1>6, <1>7, <1>8 DEF Next, SendAlert

\* If at least one configured channel is reliable, an alert is suppressed only
\* on account of an alert some channel accepted, suspending channels included.
THEOREM SuppressionJustified ==
  ASSUME Reliable # {}
  PROVE  Spec => []SuppressedIsDuplicate
<1>1. AcceptInv => SuppressedIsDuplicate
  BY DEF AcceptInv, RecordedTaken, SuppressedIsDuplicate
<1>2. QED BY <1>1, AcceptInvInit, AcceptInvStep, PTL DEF Spec

-----------------------------------------------------------------------------
(* The handlers of the web APIs *)

\* A handler's part in send_alert is a step of send_alert, and it does nothing
\* else to the alert system.
LEMMA ReviewStep == [ReviewNext]_allVars => [Next]_vars
<1> SUFFICES ASSUME [ReviewNext]_allVars PROVE [Next]_vars
  OBVIOUS
<1> USE ReviewAssumption DEF Next, SendAlert
<1>1. ASSUME NEW r \in Reviewers, Sending(r) \/ Escalated(r) PROVE [Next]_vars
  BY <1>1 DEF Sending, Escalated
<1>2. ASSUME NEW r \in Reviewers, NEW a \in Alerts,
             OnDashboard(r, a) \/ OnMobile(r, a) \/ NotFound(r, a)
      PROVE  [Next]_vars
  <2>1. CASE Escalate(r, a)
    BY <2>1 DEF Escalate
  <2>2. CASE UNCHANGED vars
    BY <2>2
  <2>3. QED BY <1>2, <2>1, <2>2 DEF OnDashboard, OnMobile, NotFound, Mark
<1>3. ASSUME NEW a \in Alerts, Purge(a) PROVE [Next]_vars
  BY <1>3 DEF Purge
<1>4. CASE UNCHANGED allVars
  BY <1>4 DEF allVars, vars
<1>5. QED BY <1>1, <1>2, <1>3, <1>4 DEF ReviewNext

\* Operators' requests leave AlertSystem what it is, so that all that is proved
\* of send_alert holds with any number of them.
THEOREM ReviewImplements == ReviewSpec => Spec
<1>1. ReviewInit => Init
  BY DEF ReviewInit
<1>2. QED BY <1>1, ReviewStep, PTL DEF ReviewSpec, Spec

Requests == [Reviewers -> [pc : {"new", "sending", "done"},
                           alert : Alerts \cup {"none"},
                           answer : Statuses \cup {"none", "not found"}]]

\* A handler inside send_alert sends with the key of its alert; an escalated
\* alert is being sent, or its key has been recorded.
EscalationInv ==
  /\ AcceptInv
  /\ status \in [Alerts -> Statuses \cup {"deleted"}]
  /\ request \in Requests
  /\ \A r \in Reviewers : request[r].pc = "sending" =>
       request[r].alert \in Alerts /\ call[r].key = KeyOf[request[r].alert]
  /\ \A a \in Alerts : status[a] = "escalated" =>
       \/ \E r \in Reviewers : request[r].pc = "sending" /\ request[r].alert = a
       \/ cooldownMap[KeyOf[a]].at # NoEntry

\* Once a key is recorded it stays so.
LEMMA RecordedForGood ==
  ASSUME AcceptInv, [Next]_vars, NEW k \in Keys, cooldownMap[k].at # NoEntry
  PROVE  cooldownMap'[k].at # NoEntry
<1> USE AlertAssumption DEF AcceptInv, TypeInv, TypeOK, NoEntry
<1>1. ASSUME NEW s \in Callers, NEW j \in Keys, Suppress(s, j) PROVE cooldownMap'[k].at # NoEntry
  BY <1>1 DEF Suppress
<1>2. ASSUME NEW s \in Callers, Record(s) PROVE cooldownMap'[k].at # NoEntry
  BY <1>2 DEF Record
<1>3. QED
  BY <1>1, <1>2 DEF Next, SendAlert, Tick, Begin, Deliver, Resume, Suspend, vars

LEMMA EscalationInvStep == EscalationInv /\ [ReviewNext]_allVars => EscalationInv'
<1> SUFFICES ASSUME EscalationInv, [ReviewNext]_allVars PROVE EscalationInv'
  OBVIOUS
<1>0. [Next]_vars /\ AcceptInv /\ AcceptInv'
  BY ReviewStep, AcceptInvStep DEF EscalationInv
<1>k. \A k \in Keys : cooldownMap[k].at # NoEntry => cooldownMap'[k].at # NoEntry
  BY <1>0, RecordedForGood
<1>a. \A a \in Alerts : KeyOf[a] \in Keys
  BY ReviewAssumption
<1>c. call \in [Callers -> Activation]
  BY <1>0 DEF AcceptInv, TypeInv, TypeOK
\* A step that leaves the requests alone.
<1>q. ASSUME UNCHANGED reviewVars,
             \A r \in Reviewers : request[r].pc = "sending" => call'[r].key = call[r].key
      PROVE  EscalationInv'
  BY <1>0, <1>k, <1>a, <1>q DEF EscalationInv, reviewVars
<1>1. CASE Tick /\ UNCHANGED reviewVars
  BY <1>1, <1>q DEF Tick
<1>2. ASSUME NEW s \in Callers \ Reviewers, SendAlert(s), UNCHANGED reviewVars
      PROVE  EscalationInv'
  <2>1. \A r \in Reviewers : call'[r] = call[r]
    BY <1>2, <1>c, ReviewAssumption
       DEF SendAlert, Suppress, Begin, Deliver, Resume, Suspend, Record, Accept, Refuse
  <2>2. QED BY <1>2, <1>q, <2>1
<1>3. ASSUME NEW r \in Reviewers, Sending(r) PROVE EscalationInv'
  <2>1. \A t \in Callers : call'[t].key = call[t].key
    BY <1>3, <1>c, ReviewAssumption
       DEF Sending, Deliver, Suspend, Resume, Accept, Refuse, Activation
  <2>2. QED BY <1>3, <1>q, <2>1, ReviewAssumption DEF Sending
\* A handler answers.
<1>m. ASSUME NEW r \in Reviewers, NEW a \in Alerts \cup {"none"},
             NEW answer \in Statuses \cup {"not found"}, Answer(r, a, answer)
      PROVE  /\ request' \in Requests
             /\ request'[r].pc = "done"
             /\ \A t \in Reviewers \ {r} : request'[t] = request[t]
  BY <1>m DEF Answer, EscalationInv, Requests
\* Alerts being sent by others, or recorded, still are.
<1>n. ASSUME NEW r \in Reviewers, request[r].pc = "new",
             \A t \in Reviewers \ {r} : request'[t] = request[t],
             NEW a \in Alerts, status[a] = "escalated"
      PROVE  \/ \E t \in Reviewers : request'[t].pc = "sending" /\ request'[t].alert = a
             \/ cooldownMap'[KeyOf[a]].at # NoEntry
  <2>1. CASE \E t \in Reviewers : request[t].pc = "sending" /\ request[t].alert = a
    <3>1. PICK t \in Reviewers : request[t].pc = "sending" /\ request[t].alert = a
      BY <2>1
    <3>2. t # r /\ request'[t] = request[t]
      BY <1>n, <3>1
    <3>3. QED BY <3>1, <3>2
  <2>2. CASE cooldownMap[KeyOf[a]].at # NoEntry
    BY <1>k, <1>a, <2>2
  <2>3. QED BY <1>n, <2>1, <2>2 DEF EscalationInv
<1>4. ASSUME NEW r \in Reviewers, Escalated(r) PROVE EscalationInv'
  <2> DEFINE k == call[r].key
  <2>1. /\ call' = [call EXCEPT ![r] = Idle] /\ k \in Keys
        /\ cooldownMap' = [cooldownMap EXCEPT ![k] = [at |-> clock, suppressed |-> 0]]
        /\ UNCHANGED status /\ Answer(r, request[r].alert, "escalated")
    BY <1>0, <1>4, ReviewAssumption, KeyHeld DEF Escalated, Record, AcceptInv
  <2>2. cooldownMap'[k].at # NoEntry
    BY <1>0, <2>1 DEF AcceptInv, TypeInv, TypeOK, NoEntry
  <2>3. request[r].alert \in Alerts \cup {"none"}
    BY DEF EscalationInv, Requests
  <2>4. /\ request' \in Requests
        /\ request'[r].pc = "done"
        /\ \A t \in Reviewers \ {r} : request'[t] = request[t]
    BY <1>m, <2>1, <2>3 DEF Statuses
  <2>5. \A t \in Reviewers \ {r} : call'[t] = call[t]
    BY <1>c, <2>1, ReviewAssumption
  <2>6. ASSUME NEW a \in Alerts, status[a] = "escalated"
        PROVE  \/ \E t \in Reviewers : request'[t].pc = "sending" /\ request'[t].alert = a
               \/ cooldownMap'[KeyOf[a]].at # NoEntry
    <3>1. CASE request[r].pc = "sending" /\ request[r].alert = a
      BY <2>2, <3>1 DEF EscalationInv
    <3>2. CASE \E t \in Reviewers \ {r} : request[t].pc = "sending" /\ request[t].alert = a
      BY <2>4, <3>2
    <3>3. CASE cooldownMap[KeyOf[a]].at # NoEntry
      BY <1>k, <1>a, <3>3
    <3>4. QED BY <2>6, <3>1, <3>2, <3>3 DEF EscalationInv
  <2> HIDE DEF k
  <2>7. QED BY <1>0, <2>1, <2>4, <2>5, <2>6 DEF EscalationInv
<1>5. ASSUME NEW r \in Reviewers, NEW a \in Alerts, NEW to \in {"acknowledged", "dismissed"},
             Mark(r, a, to)
      PROVE  EscalationInv'
  <2>1. /\ Answer(r, a, to) /\ status' = [status EXCEPT ![a] = to] /\ UNCHANGED vars
        /\ request[r].pc = "new"
    BY <1>5 DEF Mark, Update, Reads
  <2>2. /\ request' \in Requests
        /\ request'[r].pc = "done"
        /\ \A t \in Reviewers \ {r} : request'[t] = request[t]
    BY <1>m, <2>1 DEF Statuses
  <2>3. status' \in [Alerts -> Statuses \cup {"deleted"}]
    BY <2>1 DEF EscalationInv, Statuses
  <2>4. \A b \in Alerts : status'[b] = "escalated" => status[b] = "escalated"
    BY <2>1 DEF EscalationInv
  <2>5. UNCHANGED call
    BY <2>1 DEF vars
  <2>6. \A t \in Reviewers : request'[t].pc = "sending" =>
          request'[t].alert \in Alerts /\ call'[t].key = KeyOf[request'[t].alert]
    BY <2>2, <2>5 DEF EscalationInv
  <2>7. \A b \in Alerts : status'[b] = "escalated" =>
          \/ \E t \in Reviewers : request'[t].pc = "sending" /\ request'[t].alert = b
          \/ cooldownMap'[KeyOf[b]].at # NoEntry
    BY <1>n, <2>1, <2>2, <2>4
  <2>8. QED BY <1>0, <2>2, <2>3, <2>6, <2>7 DEF EscalationInv
<1>6. ASSUME NEW r \in Reviewers, NEW a \in Alerts, Escalate(r, a) PROVE EscalationInv'
  <2>1. status' = [status EXCEPT ![a] = "escalated"] /\ request[r].pc = "new"
    BY <1>6 DEF Escalate, Update, Reads
  <2>2. \A b \in Alerts \ {a} : status'[b] = "escalated" => status[b] = "escalated"
    BY <2>1 DEF EscalationInv
  <2>3. status' \in [Alerts -> Statuses \cup {"deleted"}]
    BY <2>1 DEF EscalationInv, Statuses
  <2>4. CASE Suppress(r, KeyOf[a]) /\ Answer(r, a, "escalated")
    <3>1. cooldownMap'[KeyOf[a]].at # NoEntry /\ UNCHANGED call
      BY <1>a, <1>k, <2>4 DEF Suppress, InCooldown
    <3>2. /\ request' \in Requests
          /\ request'[r].pc = "done"
          /\ \A t \in Reviewers \ {r} : request'[t] = request[t]
      BY <1>m, <2>4 DEF Statuses
    <3>3. \A t \in Reviewers : request'[t].pc = "sending" =>
            request'[t].alert \in Alerts /\ call'[t].key = KeyOf[request'[t].alert]
      BY <3>1, <3>2 DEF EscalationInv
    <3>4. \A b \in Alerts : status'[b] = "escalated" =>
            \/ \E t \in Reviewers : request'[t].pc = "sending" /\ request'[t].alert = b
            \/ cooldownMap'[KeyOf[b]].at # NoEntry
      BY <1>n, <2>1, <2>2, <3>1, <3>2
    <3>5. QED BY <1>0, <2>3, <3>2, <3>3, <3>4 DEF EscalationInv
  <2>5. CASE /\ Begin(r, KeyOf[a])
             /\ request' = [request EXCEPT ![r] = [pc |-> "sending", alert |-> a, answer |-> "none"]]
    <3>1. /\ call'[r].key = KeyOf[a] /\ \A t \in Callers \ {r} : call'[t] = call[t]
          /\ UNCHANGED cooldownMap
      BY <1>c, <2>5, ReviewAssumption DEF Begin
    <3>2. /\ request' \in Requests
          /\ request'[r].pc = "sending" /\ request'[r].alert = a
          /\ \A t \in Reviewers \ {r} : request'[t] = request[t]
      BY <2>5 DEF EscalationInv, Requests
    <3>3. \A t \in Reviewers : request'[t].pc = "sending" =>
            request'[t].alert \in Alerts /\ call'[t].key = KeyOf[request'[t].alert]
      BY <3>1, <3>2, ReviewAssumption DEF EscalationInv
    <3>4. \A b \in Alerts : status'[b] = "escalated" =>
            \/ \E t \in Reviewers : request'[t].pc = "sending" /\ request'[t].alert = b
            \/ cooldownMap'[KeyOf[b]].at # NoEntry
      BY <1>n, <2>1, <2>2, <3>2
    <3>5. QED BY <1>0, <2>3, <3>2, <3>3, <3>4 DEF EscalationInv
  <2>6. QED BY <1>6, <2>4, <2>5 DEF Escalate
<1>7. ASSUME NEW r \in Reviewers, NEW a \in Alerts, NotFound(r, a) PROVE EscalationInv'
  <2>1. /\ Answer(r, a, "not found") /\ UNCHANGED <<vars, status>> /\ request[r].pc = "new"
    BY <1>7 DEF NotFound
  <2>2. /\ request' \in Requests
        /\ request'[r].pc = "done"
        /\ \A t \in Reviewers \ {r} : request'[t] = request[t]
    BY <1>m, <2>1
  <2>3. UNCHANGED <<call, status>>
    BY <2>1 DEF vars
  <2>4. \A t \in Reviewers : request'[t].pc = "sending" =>
          request'[t].alert \in Alerts /\ call'[t].key = KeyOf[request'[t].alert]
    BY <2>2, <2>3 DEF EscalationInv
  <2>5. \A b \in Alerts : status'[b] = "escalated" =>
          \/ \E t \in Reviewers : request'[t].pc = "sending" /\ request'[t].alert = b
          \/ cooldownMap'[KeyOf[b]].at # NoEntry
    BY <1>n, <2>1, <2>2, <2>3
  <2>6. QED BY <1>0, <2>2, <2>3, <2>4, <2>5 DEF EscalationInv
<1>8. ASSUME NEW a \in Alerts, Purge(a) PROVE EscalationInv'
  BY <1>0, <1>8 DEF Purge, Update, EscalationInv, vars
<1>9. CASE UNCHANGED allVars
  BY <1>9, <1>q DEF allVars, vars
<1>10. QED
  BY <1>1, <1>2, <1>3, <1>4, <1>5, <1>6, <1>7, <1>8, <1>9
     DEF ReviewNext, OnDashboard, OnMobile

\* However the requests of operators, the program's own alerts and the purge
\* interleave, with one reliable channel an alert left escalated was heard of.
THEOREM EscalationsHeard ==
  ASSUME Reliable # {}
  PROVE  ReviewSpec => []EscalatedHeard
<1>1. ReviewInit => EscalationInv
  <2> SUFFICES ASSUME ReviewInit PROVE EscalationInv
    OBVIOUS
  <2>1. AcceptInv
    BY AcceptInvInit DEF ReviewInit
  <2>2. QED BY <2>1 DEF ReviewInit, EscalationInv, Requests, Statuses, New
<1>2. EscalationInv => EscalatedHeard
  BY ReviewAssumption
     DEF EscalationInv, EscalatedHeard, AcceptInv, RecordedTaken
<1>3. QED BY <1>1, <1>2, EscalationInvStep, PTL DEF ReviewSpec
=============================================================================
