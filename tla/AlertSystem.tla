---------------------------- MODULE AlertSystem ----------------------------
(***************************************************************************)
(* alert_system.py: AlertSystem.send_alert, called by the orchestration    *)
(* pipelines, the watchdog and the escalation handlers of the two web      *)
(* APIs, all of them coroutines of one event loop.                         *)
(*                                                                         *)
(* A coroutine keeps the loop until an await really suspends it.  A        *)
(* channel's deliver may do so (an HTTP or push client) or not (the three  *)
(* stub channels the file ships, which only log); either kind may refuse   *)
(* the alert by returning False or raising.  An alert is its cooldown key. *)
(***************************************************************************)
EXTENDS Integers

CONSTANTS
  Keys,           \* the (camera_id, alert_type) pairs
  Cooldown,       \* key -> per_type_overrides or default_seconds
  Callers,        \* coroutines that may be inside send_alert
  NoCaller,       \* the loop is between callbacks
  NoKey,          \* the key of a coroutine that is not inside send_alert
  NumChannels,    \* AlertSystem.channels is the list 1..NumChannels
  Suspending,     \* channels whose deliver suspends the coroutine
  MayFail,        \* channels that may refuse an alert
  MaxClock,       \* bound on the clock
  MaxSuppressed   \* bound on the counter of suppressed alerts

Channels == 1..NumChannels

ASSUME AlertAssumption ==
  /\ Cooldown \in [Keys -> Nat]
  /\ NoCaller \notin Callers
  /\ NoKey \notin Keys
  /\ NumChannels \in Nat \ {0}
  /\ Suspending \subseteq Channels
  /\ MayFail \subseteq Channels
  /\ MaxClock \in Nat
  /\ MaxSuppressed \in Nat

VARIABLES
  clock,        \* time.monotonic()
  loop,         \* the coroutine that holds the event loop
  call,         \* each coroutine's activation of send_alert
  cooldownMap,  \* AlertSystem._cooldown_map (at = NoEntry: no key)
  accepted,     \* history: the channels that took the alert recorded last
  heard,        \* history: when a channel last accepted each key, and before,
                \* and whether the last call met no other of its key
  crossed       \* history: callers whose call met another of its key

vars == <<clock, loop, call, cooldownMap, accepted, heard, crossed>>

-----------------------------------------------------------------------------
NoEntry == -1

Idle == [pc |-> "idle", key |-> NoKey, ch |-> 1, took |-> {}]

Activation == [pc : {"idle", "deliver", "await"},
               key : Keys \cup {NoKey},
               ch : 1..(NumChannels + 1),   \* next channel of the loop
               took : SUBSET Channels]      \* delivered_channels

Hearing == [prev : Int, last : Int, alone : BOOLEAN]

TypeOK ==
  /\ clock \in Nat
  /\ loop \in Callers \cup {NoCaller}
  /\ call \in [Callers -> Activation]
  /\ cooldownMap \in [Keys -> [at : Nat \cup {NoEntry}, suppressed : Nat]]
  /\ accepted \in [Keys -> SUBSET Channels]
  /\ heard \in [Keys -> [Channels -> Hearing]]
  /\ crossed \subseteq Callers

\* is_in_cooldown
InCooldown(k) ==
  cooldownMap[k].at # NoEntry /\ clock - cooldownMap[k].at < Cooldown[k]

\* Initially a channel may hear of any key at once.
Init ==
  /\ clock = 0
  /\ loop = NoCaller
  /\ call = [s \in Callers |-> Idle]
  /\ cooldownMap = [k \in Keys |-> [at |-> NoEntry, suppressed |-> 0]]
  /\ accepted = [k \in Keys |-> {}]
  /\ heard = [k \in Keys |-> [c \in Channels |->
                [prev |-> -2 * Cooldown[k], last |-> -Cooldown[k], alone |-> TRUE]]]
  /\ crossed = {}

\* Time also passes while a coroutine runs.
Tick ==
  /\ clock < MaxClock
  /\ clock' = clock + 1
  /\ UNCHANGED <<loop, call, cooldownMap, accepted, heard, crossed>>

-----------------------------------------------------------------------------
(* send_alert *)

\* The key is in cooldown: the counter is incremented and the call returns.
Suppress(s, k) ==
  /\ loop = NoCaller
  /\ call[s].pc = "idle"
  /\ InCooldown(k)
  /\ cooldownMap[k].suppressed < MaxSuppressed
  /\ cooldownMap' = [cooldownMap EXCEPT ![k].suppressed = @ + 1]
  /\ UNCHANGED <<clock, loop, call, accepted, heard, crossed>>

\* The history of overlapping calls: s enters a call of key k.
Cross(s, k) ==
  LET rivals == {t \in Callers : call[t].key = k}
  IN crossed' = IF rivals = {} THEN crossed ELSE crossed \cup rivals \cup {s}

\* Mutant of Begin: the window is not looked at.
BeginUnchecked(s, k) ==
  /\ loop = NoCaller
  /\ call[s].pc = "idle"
  /\ loop' = s
  /\ call' = [call EXCEPT ![s] = [pc |-> "deliver", key |-> k, ch |-> 1, took |-> {}]]
  /\ Cross(s, k)
  /\ UNCHANGED <<clock, cooldownMap, accepted, heard>>

\* The key is not in cooldown: the delivery loop is entered.
Begin(s, k) ==
  /\ loop = NoCaller
  /\ call[s].pc = "idle"
  /\ ~InCooldown(k)
  /\ loop' = s
  /\ call' = [call EXCEPT ![s] = [pc |-> "deliver", key |-> k, ch |-> 1, took |-> {}]]
  /\ Cross(s, k)
  /\ UNCHANGED <<clock, cooldownMap, accepted, heard>>

\* The next channel takes the alert.
Accept(s) ==
  LET k == call[s].key
      c == call[s].ch
  IN /\ call' = [call EXCEPT ![s] = [pc |-> "deliver", key |-> k, ch |-> c + 1,
                                     took |-> @.took \cup {c}]]
     /\ heard' = [heard EXCEPT ![k][c] =
                    [prev |-> @.last, last |-> clock, alone |-> s \notin crossed]]

\* Mutant of Refuse: the first refusal ends the loop over the channels.
RefuseStops(s) ==
  /\ call[s].ch \in MayFail
  /\ call' = [call EXCEPT ![s] = [pc |-> "deliver", key |-> @.key, ch |-> NumChannels + 1,
                                  took |-> @.took]]
  /\ UNCHANGED heard

\* It returns False or raises: the loop goes on with the channel after it.
Refuse(s) ==
  /\ call[s].ch \in MayFail
  /\ call' = [call EXCEPT ![s] = [pc |-> "deliver", key |-> @.key, ch |-> @.ch + 1,
                                  took |-> @.took]]
  /\ UNCHANGED heard

\* deliver of a channel that returns or raises without suspending.
Deliver(s) ==
  /\ loop = s
  /\ call[s].pc = "deliver"
  /\ call[s].ch \in Channels \ Suspending
  /\ Accept(s) \/ Refuse(s)
  /\ UNCHANGED <<clock, loop, cooldownMap, accepted, crossed>>

\* deliver of a channel that suspends: the loop is free for other coroutines.
Suspend(s) ==
  /\ loop = s
  /\ call[s].pc = "deliver"
  /\ call[s].ch \in Suspending
  /\ call' = [call EXCEPT ![s].pc = "await"]
  /\ loop' = NoCaller
  /\ UNCHANGED <<clock, cooldownMap, accepted, heard, crossed>>

\* The channel answers and the coroutine resumes.
Resume(s) ==
  /\ loop = NoCaller
  /\ call[s].pc = "await"
  /\ Accept(s) \/ Refuse(s)
  /\ loop' = s
  /\ UNCHANGED <<clock, cooldownMap, accepted, crossed>>

\* After the last channel the cooldown is recorded, whatever they answered, and
\* the call returns.
Record(s) ==
  LET k == call[s].key
  IN /\ loop = s
     /\ call[s].pc = "deliver"
     /\ call[s].ch = NumChannels + 1
     /\ cooldownMap' = [cooldownMap EXCEPT ![k] = [at |-> clock, suppressed |-> 0]]
     /\ accepted' = [accepted EXCEPT ![k] = call[s].took]
     /\ call' = [call EXCEPT ![s] = Idle]
     /\ loop' = NoCaller
     /\ crossed' = crossed \ {s}
     /\ UNCHANGED <<clock, heard>>

SendAlert(s) ==
  \/ \E k \in Keys : Suppress(s, k) \/ Begin(s, k)
  \/ Deliver(s)
  \/ Resume(s)
  \/ Suspend(s)
  \/ Record(s)

Next ==
  \/ Tick
  \/ \E s \in Callers : SendAlert(s)

Spec == Init /\ [][Next]_vars

-----------------------------------------------------------------------------
(* Properties *)

\* "suppresses duplicate alerts within a configurable cooldown period per
\* (camera_id, event_type) combination" (alert_system.py:4-5): a channel accepts
\* two alerts of one key less than the key's cooldown apart only when their
\* send_alert calls overlapped, both past the check before either recorded.
\* Calls overlap only at a channel that suspends.
NoDuplicate ==
  \A k \in Keys, c \in Channels :
    heard[k][c].alone => heard[k][c].last - heard[k][c].prev >= Cooldown[k]

\* "Suppressed alerts increment a counter on the original alert rather than
\* being delivered again" (alert_system.py:122-123): an alert is suppressed only
\* on account of one that some channel accepted, provided one channel never
\* refuses (an alert nobody took starts the cooldown like any other).
SuppressedIsDuplicate ==
  \A k \in Keys : cooldownMap[k].suppressed > 0 => accepted[k] # {}
=============================================================================
