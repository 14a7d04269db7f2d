--------------------------- MODULE ShutdownProofs ---------------------------
(***************************************************************************)
(* Proofs about the ways in which a scheduler waits and ends: wake-ups,    *)
(* periodic timers, the shutdown and the time-out, for all environments,   *)
(* actions, timers, tags and delays.                                       *)
(***************************************************************************)
EXTENDS SchedulerProofs

-----------------------------------------------------------------------------
(* The steps of an environment: the insertion of one event, which belongs  *)
(* neither to a timer nor to a shutdown trigger, by a reaction or by       *)
(* another thread; and everything else.                                    *)

SmallTags == \A tag \in GivenTag : tag.micro_step <= MaxMicro

Inserts(e, tag, a) ==
  /\ a \in (Action \cup {NoAction}) \ (Timer \cup ShutdownTrigger)
  /\ event_queue' = [event_queue EXCEPT ![e] = @ \cup {EventAt(tag, a)}]
  /\ logical_time[e].time <= tag.time
  /\ AsyncIsLater => logical_time[e] \prec tag
  /\ SmallTags => tag.micro_step <= MaxMicro
  /\ ~Locked(e)
  /\ UNCHANGED <<pc, logical_time, triggered_actions, t_next, control, released_time>>
  /\ (At(e, "react") /\ UNCHANGED condition) \/ WillNotify(e)
  /\ \A f \in Env : failed'[f] \subseteq failed[f] \cup {"schedule_sync"}

InsertsOne(e) == \E tag \in NatTag, a \in Action \cup {NoAction} : Inserts(e, tag, a)

Shutdown(e) == IdleShutdown(e) \/ ReactionShutdown(e) \/ AsyncShutdown(e)
Crashes(e) == IdleCrash(e) \/ StopCrash(e) \/ ReactionCrash(e) \/ AsyncShutdownCrash(e)
OwnSteps(e) ==
  \/ Startup(e) \/ start(e) \/ CleanupAfterTag(e) \/ WaitForEvent(e) \/ Stop(e) \/ Select(e)
  \/ WakeUp(e) \/ SpuriousWakeUp(e) \/ TimeOut(e) \/ Take(e) \/ ReleaseEmpty(e)
  \/ EndReactions(e) \/ Notify(e) \/ Shutdown(e) \/ Crashes(e)

LEMMA StepShapes ==
  ASSUME TypeInv, NEW e \in Env, ClockInv(e), StepOf(e)
  PROVE  OwnSteps(e) \/ InsertsOne(e)
<1>0. /\ logical_time[e] \in NatTag /\ physical_time \in Nat
      /\ failed \in [Env -> SUBSET Site]
  BY DEF TypeInv
<1>1. /\ \A a \in In(e, LogicalAction) : environment[a] = e /\ a \in LogicalAction
      /\ \A a \in In(e, PhysicalAction) : environment[a] = e /\ a \in PhysicalAction
  BY DEF In
<1>2. \A a \in LogicalAction \cup PhysicalAction \cup {NoAction} :
        a \in (Action \cup {NoAction}) \ (Timer \cup ShutdownTrigger)
  BY ActionAssumption DEF Action
<1>3. \A d \in Nat : from_physical_time(physical_time + d) \in NatTag
                     /\ from_physical_time(physical_time + d).micro_step = 0
  BY <1>0, MaxMicrostepAssumption DEF from_physical_time, TagAt, NatTag, Microstep
<1>4. ASSUME NEW site \in Site, NEW cond, Check(e, site, cond), site = "schedule_sync"
      PROVE  \A f \in Env : failed'[f] \subseteq failed[f] \cup {"schedule_sync"}
  BY <1>0, <1>4 DEF Check
<1>. DEFINE NotEarlier(tag) == logical_time[e].time <= tag.time
<1>a. ASSUME NEW tag \in NatTag, logical_time[e] \prec tag PROVE NotEarlier(tag)
  BY <1>0, <1>a DEF \prec, Less, NatTag
<1>b. (\E a \in PhysicalAction : environment[a] = e) => logical_time[e].time <= physical_time
  <2>1. WaitsForClock(e) => Reached(logical_time[e].time)
    BY DEF ClockInv
  <2>. QED
    BY <1>0, <2>1 DEF WaitsForClock, Reached, In, NatTag
<1>c. \A d \in Nat : (\E a \in PhysicalAction : environment[a] = e)
                    => NotEarlier(from_physical_time(physical_time + d))
  BY <1>0, <1>b DEF from_physical_time, TagAt, NatTag
<1>5. ASSUME NEW a \in In(e, LogicalAction), NEW d \in Delay, ScheduleSync(a, d)
      PROVE  InsertsOne(e)
  <2>. DEFINE tag == delay(logical_time[e], d)
  <2>1. environment[a] = e /\ a \in LogicalAction
    BY <1>1
  <2>2. tag \in NatTag /\ logical_time[e] \prec tag
    BY <1>0, <1>5, <2>1, NatTags, InsertedLater, TimeAssumption DEF ScheduleSync
  <2>3. tag.micro_step <= MaxMicro
    <3>1. CASE d = 0
      <4>1. logical_time[e].micro_step < MaxMicro
        BY <1>5, <2>1, <3>1 DEF ScheduleSync
      <4>2. ~Overflows(logical_time[e], 0) /\ logical_time[e] \in Tag
        <5>1. logical_time[e].micro_step # MaxMicrostep
          BY <4>1, TimeAssumption, MaxMicrostepAssumption
        <5>. QED
          BY <1>0, <5>1, NatTags DEF Overflows
      <4>3. tag = TagAt(logical_time[e].time, logical_time[e].micro_step + 1)
        BY <3>1, <4>2, DelayByZero
      <4>4. logical_time[e].micro_step \in Int
        BY <1>0, MaxMicrostepAssumption DEF NatTag, Microstep
      <4>. QED
        BY <4>1, <4>3, <4>4, TimeAssumption DEF TagAt
    <3>2. CASE d # 0
      BY <3>2, TimeAssumption DEF delay, TagAt
    <3>. QED
      BY <3>1, <3>2
  <2>4. \A f \in Env : failed'[f] \subseteq failed[f] \cup {"schedule_sync"}
    BY <1>4, <1>5, <2>1 DEF ScheduleSync, Site
  <2>5. Inserts(e, tag, a)
    BY <1>2, <1>5, <1>a, <2>1, <2>2, <2>3, <2>4 DEF ScheduleSync, Insert, Inserts, Locked, At
  <2>. QED
    BY <1>2, <2>1, <2>2, <2>5 DEF InsertsOne
<1>6. ASSUME NEW a \in In(e, LogicalAction), NEW tag \in GivenTag, ScheduleSyncAt(a, tag)
      PROVE  InsertsOne(e)
  <2>1. environment[a] = e /\ a \in LogicalAction /\ tag \in NatTag
    BY <1>1, TimeAssumption DEF NatTag
  <2>2. Inserts(e, tag, a)
    BY <1>2, <1>6, <1>a, <2>1 DEF ScheduleSyncAt, Insert, Inserts, Locked, At, SmallTags
  <2>. QED
    BY <1>2, <2>1, <2>2 DEF InsertsOne
<1>7. ASSUME NEW a \in In(e, PhysicalAction), NEW d \in AsyncDelay, ScheduleAsync(a, d)
      PROVE  InsertsOne(e)
  <2>. DEFINE tag == from_physical_time(physical_time + d)
  <2>1. environment[a] = e /\ a \in PhysicalAction /\ d \in Nat
    BY <1>1, TimeAssumption
  <2>2. AsyncIsLater => logical_time[e] \prec tag
    BY <2>1, AsyncLater
  <2>3. tag \in NatTag /\ tag.micro_step <= MaxMicro
    BY <1>3, <2>1, TimeAssumption
  <2>4. \A f \in Env : failed'[f] \subseteq failed[f] \cup {"schedule_sync"}
    BY <1>4, <1>7, <2>1 DEF ScheduleAsync, Site
  <2>5. Inserts(e, tag, a)
    BY <1>2, <1>7, <1>c, <2>1, <2>2, <2>3, <2>4 DEF ScheduleAsync, Insert, Inserts
  <2>. QED
    BY <1>2, <2>1, <2>3, <2>5 DEF InsertsOne
<1>8. ASSUME NEW a \in PhysicalAction \cup {NoAction}, NEW tag \in GivenTag, InsertAsyncAt(e, tag, a)
      PROVE  InsertsOne(e)
  <2>1. tag \in NatTag
    BY TimeAssumption DEF NatTag
  <2>2. Inserts(e, tag, a)
    BY <1>2, <1>8, <1>a, <2>1 DEF InsertAsyncAt, Insert, Inserts, SmallTags
  <2>. QED
    BY <1>2, <2>1, <2>2 DEF InsertsOne
<1>9. CASE React(e)
  BY <1>5, <1>6, <1>9 DEF React, OwnSteps, Shutdown, Crashes
<1>10. CASE Disturb(e)
  BY <1>1, <1>7, <1>8, <1>10
     DEF Disturb, OwnSteps, Shutdown, Crashes, ScheduleAsyncAt, ScheduleEmpty
<1>. QED
  BY <1>9, <1>10 DEF StepOf, Proceed, OwnSteps, Shutdown, Crashes

(* The steps of one environment do not touch the control of the others.    *)
LEMMA LocalControl ==
  ASSUME TypeInv, NEW e \in Env, ClockInv(e), StepOf(e), NEW f \in Env, f # e
  PROVE  /\ stop'[f] = stop[f] /\ continue_execution'[f] = continue_execution[f]
         /\ phase'[f] = phase[f]
         /\ notified'[f] = notified[f] /\ notifications'[f] = notifications[f]
<1>. USE DEF control, condition, TypeInv
<1>1. CASE InsertsOne(e)
  BY <1>1 DEF InsertsOne, Inserts, WillNotify
<1>2. CASE Startup(e) \/ start(e) \/ CleanupAfterTag(e) \/ WaitForEvent(e)
  BY <1>2 DEF Startup, start, CleanupAfterTag, WaitForEvent
<1>3. CASE Stop(e) \/ Select(e) \/ WakeUp(e) \/ SpuriousWakeUp(e) \/ TimeOut(e)
  BY <1>3 DEF Stop, Select, WakeUp, SpuriousWakeUp, TimeOut
<1>4. CASE Take(e) \/ ReleaseEmpty(e) \/ EndReactions(e) \/ Notify(e)
  BY <1>4 DEF Take, ReleaseEmpty, EndReactions, Notify
<1>5. CASE Shutdown(e)
  BY <1>5 DEF Shutdown, IdleShutdown, ReactionShutdown, AsyncShutdown, sync_shutdown
<1>6. CASE Crashes(e)
  BY <1>6 DEF Crashes, IdleCrash, StopCrash, ReactionCrash, AsyncShutdownCrash, ShutdownCrash, Crash
<1>. QED
  BY <1>1, <1>2, <1>3, <1>4, <1>5, <1>6, StepShapes DEF OwnSteps

-----------------------------------------------------------------------------
(* Wake-ups *)

WakeInv(e) == Waiting(e) /\ Interrupted(e) => notified[e] \/ notifications[e] > 0

LEMMA WakeFrame ==
  ASSUME NEW e \in Env, WakeInv(e),
         Waiting(e)' => Waiting(e) /\ pc'[e] = pc[e],
         event_queue'[e] = event_queue[e], stop'[e] = stop[e], t_next'[e] = t_next[e],
         notified[e] => notified'[e],
         notifications'[e] = notifications[e]
  PROVE  WakeInv(e)'
BY DEF WakeInv, Interrupted, At

LEMMA WakeStep ==
  ASSUME TypeInv, NEW e \in Env, ClockInv(e), WakeInv(e), StepOf(e)
  PROVE  WakeInv(e)'
<1>. USE DEF Goto, At, Waiting, control, condition, clock
<1>0. /\ pc \in [Env -> Location]
      /\ event_queue \in [Env -> SUBSET NatEvent]
      /\ t_next \in [Env -> NatTag]
      /\ stop \in [Env -> BOOLEAN]
      /\ notified \in [Env -> BOOLEAN]
      /\ notifications \in [Env -> Nat]
  BY DEF TypeInv
<1>1. CASE InsertsOne(e)
  <2>1. \/ pc[e] = "react" /\ pc' = pc
        \/ notifications'[e] = notifications[e] + 1
    BY <1>0, <1>1 DEF InsertsOne, Inserts, WillNotify
  <2>2. notifications[e] \in Nat
    BY <1>0
  <2>. QED
    BY <2>1, <2>2 DEF WakeInv
<1>2. CASE Startup(e) \/ start(e) \/ CleanupAfterTag(e) \/ Stop(e) \/ Take(e)
           \/ ReleaseEmpty(e) \/ EndReactions(e)
  <2>1. ~Waiting(e)'
    BY <1>0, <1>2 DEF Startup, start, CleanupAfterTag, Stop, Take, ReleaseEmpty, EndReactions
  <2>. QED
    BY <2>1 DEF WakeInv
<1>3. CASE WaitForEvent(e)
  <2>1. pc'[e] = "await_event" /\ event_queue'[e] = {} /\ ~stop'[e]
    BY <1>0, <1>3 DEF WaitForEvent, Idle
  <2>. QED
    BY <2>1 DEF WakeInv, Interrupted
<1>4. CASE Select(e)
  <2>1. /\ pc'[e] # "await_event"
        /\ t_next'[e] = next_tag(event_queue'[e])
    BY <1>0, <1>4 DEF Select
  <2>. QED
    BY <2>1 DEF WakeInv, Interrupted
<1>5. CASE WakeUp(e)
  <2>1. CASE Interrupted(e)
    <3>1. pc'[e] = "loop"
      BY <1>0, <1>5, <2>1 DEF WakeUp
    <3>. QED
      BY <3>1 DEF WakeInv
  <2>2. CASE ~Interrupted(e)
    <3>1. UNCHANGED <<pc, event_queue, t_next, stop>>
      BY <1>5, <2>2 DEF WakeUp
    <3>. QED
      BY <2>2, <3>1 DEF WakeInv, Interrupted
  <2>. QED
    BY <2>1, <2>2
<1>6. CASE SpuriousWakeUp(e) \/ TimeOut(e)
  <2>1. ~Waiting(e)'
    BY <1>0, <1>6 DEF SpuriousWakeUp, TimeOut
  <2>. QED
    BY <2>1 DEF WakeInv
<1>7. CASE Notify(e)
  <2>1. notified'[e] = Waiting(e) /\ pc' = pc
    BY <1>0, <1>7 DEF Notify
  <2>. QED
    BY <2>1 DEF WakeInv
<1>8. CASE Shutdown(e)
  <2>1. CASE IdleShutdown(e) \/ ReactionShutdown(e)
    <3>1. ~Waiting(e)'
      BY <1>0, <2>1 DEF IdleShutdown, ReactionShutdown
    <3>. QED
      BY <3>1 DEF WakeInv
  <2>2. CASE AsyncShutdown(e)
    <3>1. notified'[e] = Waiting(e) /\ pc' = pc
      BY <1>0, <2>2 DEF AsyncShutdown
    <3>. QED
      BY <3>1 DEF WakeInv
  <2>. QED
    BY <1>8, <2>1, <2>2 DEF Shutdown
<1>9. CASE Crashes(e)
  <2>1. Crash(e)
    BY <1>9 DEF Crashes, IdleCrash, StopCrash, ReactionCrash, AsyncShutdownCrash, ShutdownCrash
  <2>2. ~Waiting(e)'
    BY <1>0, <2>1 DEF Crash
  <2>. QED
    BY <2>2 DEF WakeInv
<1>. QED
  BY <1>1, <1>2, <1>3, <1>4, <1>5, <1>6, <1>7, <1>8, <1>9, StepShapes DEF OwnSteps

(* A scheduler that waits although an event or the shutdown has come up    *)
(* has been notified or is going to be: notify() may come late, after the  *)
(* mutex has been released, but never too early, before the wait.          *)
THEOREM NoWakeUpIsLost == Spec => []NoLostWakeUp
<1>. DEFINE Clock == TypeInv /\ \A e \in Env : ClockInv(e)
            Wake == \A e \in Env : WakeInv(e)
<1>1. Init => Wake
  BY DEF Init, WakeInv, Waiting
<1>2. Clock /\ Wake /\ [Next]_vars => Wake'
  <2>. SUFFICES ASSUME Clock, Wake, [Next]_vars, NEW f \in Env PROVE WakeInv(f)'
    OBVIOUS
  <2>1. CASE UNCHANGED vars \/ Tick
    BY <2>1, WakeFrame DEF vars, Tick, condition, control, Waiting, At
  <2>2. ASSUME NEW e \in Env, StepOf(e)
        PROVE  WakeInv(f)'
    <3>1. CASE e = f
      BY <2>2, <3>1, WakeStep
    <3>2. CASE e # f
      BY <2>2, <3>2, Local, LocalControl, WakeFrame DEF Waiting, At
    <3>. QED
      BY <3>1, <3>2
  <2>. QED
    BY <2>1, <2>2 DEF Next, StepOf
<1>3. Wake => NoLostWakeUp
  BY DEF WakeInv, NoLostWakeUp
<1>. HIDE DEF Clock, Wake
<1>4. Spec => []Clock
  BY ClockInvariance DEF Clock
<1>. QED
  BY <1>1, <1>2, <1>3, <1>4, PTL DEF Spec

-----------------------------------------------------------------------------
(* Periodic timers *)

LEMMA Division ==
  ASSUME NEW n \in Nat, NEW p \in Nat \ {0}
  PROVE  n = p * (n \div p) + (n % p) /\ n % p \in 0..(p - 1) /\ n \div p \in Int
OBVIOUS

LEMMA NoMultipleBetween ==
  ASSUME NEW p \in Nat \ {0}, NEW d \in Int, -p < p * d, p * d < p
  PROVE  d = 0
<1>1. CASE d >= 1
  <2>1. p * d >= p
    BY <1>1
  <2>. QED
    BY <2>1
<1>2. CASE d <= -1
  <2>1. p * d <= -p
    BY <1>2
  <2>. QED
    BY <2>1
<1>. QED
  BY <1>1, <1>2

(* A period later, the phase is the same.                                  *)
LEMMA Periods ==
  ASSUME NEW n \in Nat, NEW p \in Nat \ {0}
  PROVE  (n + p) % p = n % p
<1>. DEFINE q == n \div p
            r == n % p
            later == (n + p) \div p
            rest == (n + p) % p
<1>1. n = p * q + r /\ r \in 0..(p - 1) /\ q \in Int
  BY Division
<1>2. n + p = p * later + rest /\ rest \in 0..(p - 1) /\ later \in Int
  <2>1. n + p \in Nat
    OBVIOUS
  <2>. QED
    BY <2>1, Division
<1>. HIDE DEF q, r, later, rest
<1>3. p * (q + 1 - later) = p * q + p - p * later /\ q + 1 - later \in Int
  BY <1>1, <1>2
<1>4. p * (q + 1 - later) = rest - r
  BY <1>1, <1>2, <1>3
<1>5. q + 1 - later = 0
  BY <1>1, <1>2, <1>4, NoMultipleBetween
<1>6. r = rest
  BY <1>1, <1>2, <1>4, <1>5
<1>. QED
  BY <1>6 DEF r, rest

Pending(e, t) == {v \in event_queue[e] : v.action = t}
FirstTime(t) == StartTime + offset[t]
Periodic(e) == {t \in In(e, Timer) : period[t] # 0}

(* An expiry of the timer t *)
Expiry(t, tag) ==
  /\ tag.micro_step = 0
  /\ FirstTime(t) <= tag.time
  /\ (tag.time - FirstTime(t)) % period[t] = 0

(* It either has been triggered, at an expiry, or waits for the one event  *)
(* it has, which is the first, or less than a period away from the last.   *)
TimerInv(e, t) ==
  IF t \in triggered_actions[e]
  THEN Pending(e, t) = {} /\ Expiry(t, logical_time[e])
  ELSE \E tag \in NatTag :
         /\ Pending(e, t) = {EventAt(tag, t)}
         /\ Expiry(t, tag)
         /\ tag.time = FirstTime(t) \/ tag.time <= logical_time[e].time + period[t]

TimersInv(e) ==
  /\ triggered_actions[e] # {} => pc[e] \in {"react", "next", "final", "crashed"}
  /\ \A v \in event_queue[e] : logical_time[e].time <= v.tag.time
  /\ At(e, "startup") => phase[e] # "Execution" /\ \A t \in Timer : Pending(e, t) = {}
  /\ ~At(e, "startup") => \A t \in Periodic(e) : TimerInv(e, t)

LEMMA PeriodicTimers ==
  ASSUME NEW e \in Env, NEW t \in Periodic(e)
  PROVE  /\ t \in Timer /\ t \in Action /\ environment[t] = e
         /\ period[t] \in Nat \ {0}
         /\ FirstTime(t) \in Nat /\ StartTime <= FirstTime(t)
         /\ StartTime \in Nat /\ StartTime > 0
BY TimeAssumption DEF Periodic, In, Action, FirstTime

LEMMA TimersExactFollows ==
  ASSUME TypeInv, \A e \in Env : TimersInv(e)
  PROVE  TimersExact
<1>. SUFFICES ASSUME NEW t \in Timer, period[t] # 0, Started(environment[t])
              PROVE  TimerExact(environment[t], t)
  BY DEF TimersExact
<1>. DEFINE e == environment[t]
            pending == {v \in event_queue[e] : v.action = t}
<1>1. e \in Env /\ t \in Periodic(e)
  BY ActionAssumption DEF Periodic, In, Action
<1>2. TimerInv(e, t)
  BY <1>1 DEF TimersInv, Started
<1>3. pending = Pending(e, t)
  BY DEF Pending
<1>4. logical_time[e].time \in Nat
  BY <1>1 DEF TypeInv, NatTag
<1>5. CASE t \in triggered_actions[e]
  BY <1>2, <1>3, <1>5 DEF TimerInv, TimerExact
<1>6. CASE t \notin triggered_actions[e]
  <2>1. PICK tag \in NatTag :
          /\ Pending(e, t) = {EventAt(tag, t)}
          /\ Expiry(t, tag)
          /\ tag.time = FirstTime(t) \/ tag.time <= logical_time[e].time + period[t]
    BY <1>2, <1>6 DEF TimerInv
  <2>2. EventAt(tag, t).tag = tag /\ tag.time \in Nat
    BY DEF EventAt, NatTag
  <2>3. tag.time <= logical_time[e].time + period[t] => tag.time - period[t] <= logical_time[e].time
    BY <1>1, <1>4, <2>2, PeriodicTimers
  <2>4. EventAt(tag, t) \in pending /\ pending = {EventAt(tag, t)}
    BY <1>3, <2>1
  <2>. QED
    BY <1>6, <2>1, <2>2, <2>3, <2>4 DEF TimerExact, Expiry, FirstTime
<1>. QED
  BY <1>5, <1>6

(* What neither takes nor adds events of the timers keeps the invariant.   *)
LEMMA TimersFrame ==
  ASSUME NEW e \in Env, TimersInv(e),
         pc'[e] = "startup" <=> pc[e] = "startup",
         pc[e] = "startup" => phase'[e] = phase[e],
         pc[e] \in {"react", "next", "final", "crashed"} /\ triggered_actions'[e] # {}
           => pc'[e] \in {"react", "next", "final", "crashed"},
         logical_time'[e] = logical_time[e], triggered_actions'[e] = triggered_actions[e],
         event_queue[e] \subseteq event_queue'[e],
         \A v \in event_queue'[e] \ event_queue[e] :
           v.action \notin Timer /\ logical_time[e].time <= v.tag.time
  PROVE  TimersInv(e)'
<1>1. \A t \in Timer : Pending(e, t)' = Pending(e, t)
  BY DEF Pending
<1>2. Periodic(e)' = Periodic(e) /\ Periodic(e) \subseteq Timer
  BY DEF Periodic, In
<1>3. \A t \in Periodic(e) : TimerInv(e, t) => TimerInv(e, t)'
  BY <1>1, <1>2 DEF TimerInv, Expiry, FirstTime
<1>4. \A v \in event_queue'[e] : logical_time'[e].time <= v.tag.time
  BY DEF TimersInv
<1>. QED
  BY <1>1, <1>2, <1>3, <1>4 DEF TimersInv, At

(* The events of a tag are taken: the timers among them are triggered.     *)
LEMMA TimersTaken ==
  ASSUME TypeInv, NEW e \in Env, TimersInv(e), event_queue[e] # {}, triggered_actions[e] = {},
         pc[e] # "startup", pc'[e] # "startup",
         logical_time'[e] = next_tag(event_queue[e]),
         event_queue'[e] = Without(event_queue[e], next_tag(event_queue[e])),
         triggered_actions'[e] = List(event_queue[e], next_tag(event_queue[e])),
         triggered_actions'[e] # {} => pc'[e] = "react"
  PROVE  TimersInv(e)'
<1>. DEFINE tag == next_tag(event_queue[e])
<1>0. /\ event_queue[e] \in SUBSET NatEvent /\ logical_time[e] \in NatTag
      /\ tag \in NatTag /\ tag \in QueuedTags(event_queue[e])
      /\ \A v \in event_queue[e] : tag \preceq v.tag
  BY NextTag DEF TypeInv
<1>1. logical_time[e].time <= tag.time
  BY <1>0 DEF QueuedTags, TimersInv
<1>2. \A v \in event_queue'[e] : logical_time'[e].time <= v.tag.time
  BY <1>0 DEF Without, \preceq, \prec, Less, NatEvent, NatTag
<1>3. ASSUME NEW t \in Periodic(e)
      PROVE  TimerInv(e, t)'
  <2>1. PICK own \in NatTag :
          /\ Pending(e, t) = {EventAt(own, t)}
          /\ Expiry(t, own)
          /\ own.time = FirstTime(t) \/ own.time <= logical_time[e].time + period[t]
    BY DEF TimersInv, TimerInv, At
  <2>2. /\ EventAt(own, t) \in event_queue[e]
        /\ EventAt(own, t).tag = own /\ EventAt(own, t).action = t
        /\ \A v \in event_queue[e] : v.action = t => v = EventAt(own, t)
    BY <2>1 DEF Pending, EventAt
  <2>3. t # NoAction
    BY PeriodicTimers, ActionAssumption
  <2>4. t \in triggered_actions'[e] <=> own = tag
    BY <2>2, <2>3 DEF List
  <2>5. CASE own = tag
    <3>1. Pending(e, t)' = {}
      BY <2>2, <2>5 DEF Pending, Without
    <3>2. Expiry(t, logical_time[e])'
      BY <2>1, <2>5 DEF Expiry, FirstTime
    <3>. QED
      BY <2>4, <2>5, <3>1, <3>2 DEF TimerInv
  <2>6. CASE own # tag
    <3>1. Pending(e, t)' = {EventAt(own, t)}
      BY <2>1, <2>2, <2>6 DEF Pending, Without
    <3>2. own.time <= logical_time[e].time + period[t] => own.time <= tag.time + period[t]
      BY <1>0, <1>1, PeriodicTimers DEF NatTag
    <3>3. Expiry(t, own)'
      BY <2>1 DEF Expiry, FirstTime
    <3>. QED
      BY <2>1, <2>4, <2>6, <3>1, <3>2, <3>3 DEF TimerInv, FirstTime
  <2>. QED
    BY <2>5, <2>6
<1>4. Periodic(e)' = Periodic(e)
  BY DEF Periodic, In
<1>. QED
  BY <1>2, <1>3, <1>4 DEF TimersInv, At

LEMMA TimersStarted ==
  ASSUME TypeInv, NEW e \in Env, ClockInv(e), TimersInv(e), Startup(e)
  PROVE  TimersInv(e)'
<1>. DEFINE first(t) == IF offset[t] = 0 THEN start_tag ELSE delay(start_tag, offset[t])
            events == {EventAt(first(t), t) : t \in In(e, Timer)}
                      \cup {EventAt(timeout_tag, s) : s \in IF HasTimeout THEN In(e, ShutdownTrigger) ELSE {}}
<1>1. /\ event_queue'[e] = event_queue[e] \cup events
      /\ logical_time'[e] = logical_time[e] /\ triggered_actions'[e] = triggered_actions[e]
      /\ pc[e] = "startup" /\ pc'[e] = "start"
      /\ logical_time[e] = TagAt(0, 0)
  BY DEF Startup, Insert, Goto, At, TypeInv, ClockInv
<1>2. \A v \in events : v.tag.time \in Nat
  <2>1. events \subseteq NatEvent
    BY InsertedTypes
  <2>. QED
    BY <2>1 DEF NatEvent, NatTag
<1>3. \A v \in event_queue'[e] : logical_time'[e].time <= v.tag.time
  <2>1. logical_time[e].time = 0
    BY <1>1 DEF TagAt
  <2>. HIDE DEF events
  <2>. QED
    BY <1>1, <1>2, <2>1 DEF TimersInv
<1>4. ASSUME NEW t \in Periodic(e)
      PROVE  TimerInv(e, t)'
  <2>1. t \in In(e, Timer) /\ t \in Timer /\ t \notin ShutdownTrigger /\ offset[t] \in Nat
    BY ActionAssumption, TimeAssumption DEF Periodic, In
  <2>2. first(t) \in NatTag /\ first(t).micro_step = 0 /\ first(t).time = FirstTime(t)
    <3>1. offset[t] = 0 => start_tag.time = FirstTime(t)
      BY NatTags, TimeAssumption DEF FirstTime
    <3>2. offset[t] # 0 => /\ delay(start_tag, offset[t]).micro_step = 0
                           /\ delay(start_tag, offset[t]).time = FirstTime(t)
      BY NatTags DEF delay, TagAt, FirstTime
    <3>. QED
      BY <2>1, <3>1, <3>2, NatTags
  <2>. DEFINE own == first(t)
  <2>3. Pending(e, t) = {}
    BY <1>1, <2>1 DEF TimersInv, At
  <2>4. Pending(e, t)' = {EventAt(own, t)}
    <3>1. \A v \in events : v.action = t <=> v = EventAt(own, t)
      BY <2>1 DEF In, EventAt
    <3>2. EventAt(own, t) \in events
      BY <2>1
    <3>. HIDE DEF events, own
    <3>. QED
      BY <1>1, <2>3, <3>1, <3>2 DEF Pending
  <2>5. Expiry(t, own)'
    <3>1. FirstTime(t) - FirstTime(t) = 0 /\ 0 % period[t] = 0 /\ FirstTime(t) <= FirstTime(t)
      BY PeriodicTimers
    <3>. QED
      BY <2>2, <3>1 DEF Expiry, FirstTime
  <2>6. t \notin triggered_actions'[e]
    BY <1>1 DEF TimersInv
  <2>7. own.time = FirstTime(t)'
    BY <2>2 DEF FirstTime
  <2>. HIDE DEF own
  <2>8. own \in NatTag
    BY <2>2 DEF own
  <2>. QED
    BY <2>4, <2>5, <2>6, <2>7, <2>8 DEF TimerInv
<1>5. Periodic(e)' = Periodic(e)
  BY DEF Periodic, In
<1>. QED
  BY <1>1, <1>3, <1>4, <1>5 DEF TimersInv, At

LEMMA TimersRearmed ==
  ASSUME TypeInv, NEW e \in Env, ClockInv(e), TimersInv(e), CleanupAfterTag(e)
  PROVE  TimersInv(e)'
<1>1. /\ event_queue'[e] = event_queue[e] \cup Rearmed(e)
      /\ logical_time'[e] = logical_time[e] /\ triggered_actions'[e] = {}
      /\ pc[e] # "startup" /\ pc'[e] # "startup"
      /\ logical_time[e] \in NatTag
  BY DEF CleanupAfterTag, Insert, Goto, At, TypeInv
<1>2. ASSUME NEW t \in Timer, period[t] # 0
      PROVE  /\ delay(logical_time[e], period[t]) \in NatTag
             /\ delay(logical_time[e], period[t]).micro_step = 0
             /\ delay(logical_time[e], period[t]).time = logical_time[e].time + period[t]
             /\ period[t] \in Nat
  BY <1>1, <1>2, NatTags, TimeAssumption DEF delay, TagAt
<1>3. \A v \in event_queue'[e] : logical_time'[e].time <= v.tag.time
  <2>1. \A v \in Rearmed(e) : logical_time[e].time <= v.tag.time
    <3>. SUFFICES ASSUME NEW t \in Timer, period[t] # 0
                  PROVE  logical_time[e].time <= delay(logical_time[e], period[t]).time
      BY DEF Rearmed, In, EventAt
    <3>. QED
      BY <1>1, <1>2 DEF NatTag
  <2>. QED
    BY <1>1, <2>1 DEF TimersInv
<1>4. ASSUME NEW t \in Periodic(e)
      PROVE  TimerInv(e, t)'
  <2>1. t \in In(e, Timer) /\ t \in Timer /\ period[t] # 0
    BY PeriodicTimers DEF Periodic
  <2>2. TimerInv(e, t)
    BY <1>1 DEF TimersInv, At
  <2>3. CASE t \in triggered_actions[e]
    <3>. DEFINE own == delay(logical_time[e], period[t])
    <3>1. Pending(e, t) = {} /\ Expiry(t, logical_time[e])
      BY <2>2, <2>3 DEF TimerInv
    <3>2. Pending(e, t)' = {EventAt(own, t)}
      <4>1. \A v \in Rearmed(e) : v.action = t <=> v = EventAt(own, t)
        BY DEF Rearmed, EventAt
      <4>2. EventAt(own, t) \in Rearmed(e)
        BY <2>1, <2>3 DEF Rearmed
      <4>. HIDE DEF own
      <4>. QED
        BY <1>1, <3>1, <4>1, <4>2 DEF Pending
    <3>3. Expiry(t, own)
      <4>. DEFINE n == logical_time[e].time - FirstTime(t)
      <4>1. /\ n \in Nat /\ own.time - FirstTime(t) = n + period[t]
            /\ FirstTime(t) <= own.time /\ period[t] \in Nat \ {0}
        BY <1>1, <1>2, <2>1, <3>1, PeriodicTimers DEF Expiry, NatTag
      <4>2. n % period[t] = 0
        BY <3>1 DEF Expiry
      <4>3. (n + period[t]) % period[t] = 0
        BY <4>1, <4>2, Periods
      <4>. QED
        BY <1>2, <2>1, <4>1, <4>3 DEF Expiry
    <3>4. Expiry(t, own)' /\ own' = own
      BY <1>1, <3>3 DEF Expiry, FirstTime
    <3>5. own \in NatTag /\ own.time <= logical_time[e].time + period[t]
      BY <1>1, <1>2, <2>1 DEF NatTag
    <3>. HIDE DEF own
    <3>. QED
      BY <1>1, <3>2, <3>4, <3>5 DEF TimerInv
  <2>4. CASE t \notin triggered_actions[e]
    <3>1. \A v \in Rearmed(e) : v.action # t
      BY <2>4 DEF Rearmed, EventAt
    <3>2. Pending(e, t)' = Pending(e, t)
      BY <1>1, <3>1 DEF Pending
    <3>. QED
      BY <1>1, <2>2, <2>4, <3>2 DEF TimerInv, Expiry, FirstTime
  <2>. QED
    BY <2>3, <2>4
<1>5. Periodic(e)' = Periodic(e)
  BY DEF Periodic, In
<1>. QED
  BY <1>1, <1>3, <1>4, <1>5 DEF TimersInv, At

LEMMA TimersStep ==
  ASSUME TypeInv, NEW e \in Env, ClockInv(e), TimersInv(e), StepOf(e)
  PROVE  TimersInv(e)'
<1>. USE DEF Goto, At, control, condition, clock
<1>0. /\ pc \in [Env -> Location]
      /\ event_queue \in [Env -> SUBSET NatEvent]
      /\ event_queue[e] \in SUBSET NatEvent
      /\ logical_time \in [Env -> NatTag] /\ logical_time[e] \in NatTag
      /\ triggered_actions \in [Env -> SUBSET Action]
  BY DEF TypeInv
<1>1. CASE InsertsOne(e)
  <2>1. PICK tag \in NatTag, a \in Action \cup {NoAction} : Inserts(e, tag, a)
    BY <1>1 DEF InsertsOne
  <2>2. /\ event_queue'[e] = event_queue[e] \cup {EventAt(tag, a)}
        /\ a \notin Timer /\ logical_time[e].time <= tag.time
        /\ UNCHANGED <<pc, logical_time, triggered_actions, phase>>
    BY <1>0, <2>1 DEF Inserts
  <2>. QED
    BY <2>2, TimersFrame DEF EventAt
<1>2. CASE Startup(e)
  BY <1>2, TimersStarted
<1>3. CASE start(e)
  <2>1. /\ event_queue'[e] = {v \in event_queue[e] : decrement(start_tag) \prec v.tag}
        /\ logical_time'[e] = decrement(start_tag)
        /\ triggered_actions'[e] = triggered_actions[e]
        /\ pc[e] = "start" /\ pc'[e] = "next"
        /\ triggered_actions[e] = {}
        /\ logical_time[e] = TagAt(0, 0)
    BY <1>0, <1>3 DEF start, TimersInv, ClockInv
  <2>2. /\ decrement(start_tag).time = StartTime - 1
        /\ decrement(start_tag).micro_step = MaxMicrostep
        /\ StartTime \in Nat /\ StartTime > 0
    BY NatTags, TimeAssumption DEF TagAt
  <2>3. \A v \in event_queue'[e] : logical_time'[e].time <= v.tag.time
    BY <1>0, <2>1, <2>2 DEF \prec, Less, NatEvent, NatTag
  <2>4. ASSUME NEW t \in Periodic(e)
        PROVE  TimerInv(e, t)'
    <3>1. PICK own \in NatTag :
            /\ Pending(e, t) = {EventAt(own, t)}
            /\ Expiry(t, own)
            /\ own.time = FirstTime(t) \/ own.time <= logical_time[e].time + period[t]
      BY <2>1 DEF TimersInv, TimerInv
    <3>2. decrement(start_tag) \prec own
      BY <2>2, <3>1, PeriodicTimers DEF Expiry, \prec, Less, NatTag
    <3>3. EventAt(own, t).tag = own
      BY DEF EventAt
    <3>4. Pending(e, t)' = Pending(e, t)
      BY <2>1, <3>1, <3>2, <3>3 DEF Pending
    <3>5. own.time <= logical_time[e].time + period[t]
            => own.time <= decrement(start_tag).time + period[t]
      BY <2>1, <2>2, PeriodicTimers DEF TagAt, NatTag
    <3>. QED
      BY <2>1, <3>1, <3>4, <3>5 DEF TimerInv, Expiry, FirstTime
  <2>5. Periodic(e)' = Periodic(e)
    BY DEF Periodic, In
  <2>. QED
    BY <2>1, <2>3, <2>4, <2>5 DEF TimersInv
<1>4. CASE CleanupAfterTag(e)
  BY <1>4, TimersRearmed
<1>5. CASE Stop(e)
  <2>. DEFINE next == delay(logical_time[e], 0)
  <2>1. triggered_actions[e] = {} /\ pc[e] \in {"loop", "stopping"}
    BY <1>5 DEF Stop, Stopping, TimersInv
  <2>2. CASE /\ event_queue[e] # {} /\ next_tag(event_queue[e]) = next
             /\ triggered_actions' = [triggered_actions EXCEPT ![e] = List(event_queue[e], next)]
             /\ event_queue' = [event_queue EXCEPT ![e] = Without(@, next)]
             /\ logical_time' = [logical_time EXCEPT ![e] = next]
             /\ Goto(e, IF List(event_queue[e], next) = {} THEN "loop" ELSE "react")
    <3>1. /\ triggered_actions'[e] = List(event_queue[e], next)
          /\ event_queue'[e] = Without(event_queue[e], next)
          /\ logical_time'[e] = next
          /\ pc'[e] # "startup"
          /\ triggered_actions'[e] # {} => pc'[e] = "react"
      BY <1>0, <2>2
    <3>. QED
      BY <2>1, <2>2, <3>1, TimersTaken
  <2>3. CASE UNCHANGED <<triggered_actions, event_queue, logical_time>> /\ Goto(e, "final")
    BY <1>0, <2>1, <2>3, TimersFrame
  <2>. QED
    BY <1>5, <2>2, <2>3 DEF Stop
<1>6. CASE Take(e)
  <2>1. /\ pc[e] = "take" /\ triggered_actions[e] = {} /\ event_queue[e] # {}
        /\ logical_time'[e] = next_tag(event_queue[e])
        /\ event_queue'[e] = Without(event_queue[e], next_tag(event_queue[e]))
        /\ triggered_actions'[e] = List(event_queue[e], next_tag(event_queue[e]))
        /\ pc'[e] # "startup" /\ (triggered_actions'[e] # {} => pc'[e] = "react")
    BY <1>0, <1>6 DEF Take, TimersInv, ClockInv
  <2>. QED
    BY <2>1, TimersTaken
<1>7. CASE WaitForEvent(e) \/ Select(e) \/ WakeUp(e) \/ SpuriousWakeUp(e) \/ TimeOut(e)
           \/ ReleaseEmpty(e) \/ EndReactions(e) \/ Notify(e)
  <2>1. /\ UNCHANGED <<event_queue, logical_time, triggered_actions, phase>>
        /\ \/ pc[e] \in {"loop", "await_event", "await_time", "release"} /\ pc'[e] # "startup"
           \/ pc[e] = "react" /\ pc'[e] \in {"next", "final"}
           \/ pc'[e] = pc[e]
    BY <1>0, <1>7 DEF WaitForEvent, Idle, Select, WakeUp, SpuriousWakeUp, Waiting, TimeOut,
                      ReleaseEmpty, EndReactions, Notify
  <2>. QED
    BY <2>1, TimersFrame
<1>8. CASE Shutdown(e)
  <2>1. /\ event_queue'[e] = event_queue[e] \cup ShutdownEvents(e)
        /\ UNCHANGED <<logical_time, triggered_actions>>
        /\ pc'[e] = pc[e] \/ (pc[e] = "loop" /\ pc'[e] = "stopping")
        /\ pc[e] # "startup"
    BY <1>0, <1>8 DEF Shutdown, IdleShutdown, Idle, ReactionShutdown, AsyncShutdown, sync_shutdown, Insert,
                      TimersInv
  <2>2. \A v \in ShutdownEvents(e) : v.action \notin Timer /\ logical_time[e].time <= v.tag.time
    <3>1. delay(logical_time[e], 0).time = logical_time[e].time
      BY DEF delay, TagAt
    <3>2. \A s \in In(e, ShutdownTrigger) : s \notin Timer
      BY ActionAssumption DEF In
    <3>. QED
      BY <1>0, <3>1, <3>2 DEF ShutdownEvents, EventAt, NatTag
  <2>. QED
    BY <2>1, <2>2, TimersFrame
<1>9. CASE Crashes(e)
  <2>1. Crash(e) /\ pc[e] # "startup"
    BY <1>9 DEF Crashes, IdleCrash, Idle, StopCrash, Stopping, ReactionCrash, AsyncShutdownCrash,
                ShutdownCrash, TimersInv
  <2>2. UNCHANGED <<event_queue, logical_time, triggered_actions>> /\ pc'[e] = "crashed"
    BY <1>0, <2>1 DEF Crash
  <2>. QED
    BY <2>1, <2>2, TimersFrame
<1>. QED
  BY <1>1, <1>2, <1>3, <1>4, <1>5, <1>6, <1>7, <1>8, <1>9, StepShapes DEF OwnSteps

LEMMA TimersInvariance == Spec => [](TypeInv /\ \A e \in Env : ClockInv(e) /\ TimersInv(e))
<1>. DEFINE Clock == TypeInv /\ \A e \in Env : ClockInv(e)
            Timers == \A e \in Env : TimersInv(e)
<1>1. Init => Timers
  BY DEF Init, TimersInv, At, Pending
<1>2. Clock /\ Timers /\ [Next]_vars => Timers'
  <2>. SUFFICES ASSUME Clock, Timers, [Next]_vars, NEW f \in Env PROVE TimersInv(f)'
    OBVIOUS
  <2>1. CASE UNCHANGED vars \/ Tick
    BY <2>1, TimersFrame DEF vars, Tick, condition, control
  <2>2. ASSUME NEW e \in Env, StepOf(e)
        PROVE  TimersInv(f)'
    <3>1. CASE e = f
      BY <2>2, <3>1, TimersStep
    <3>2. CASE e # f
      BY <2>2, <3>2, Local, LocalControl, TimersFrame
    <3>. QED
      BY <3>1, <3>2
  <2>. QED
    BY <2>1, <2>2 DEF Next, StepOf
<1>3. Clock /\ Timers => TypeInv /\ \A e \in Env : ClockInv(e) /\ TimersInv(e)
  OBVIOUS
<1>. HIDE DEF Clock, Timers
<1>4. Spec => []Clock
  BY ClockInvariance DEF Clock
<1>. QED
  BY <1>1, <1>2, <1>3, <1>4, PTL DEF Spec

(* Periodic timers neither drift nor get lost nor multiply, whoever else   *)
(* schedules, and however late the scheduler gets to a tag.                *)
THEOREM TimersAreExact == Spec => []TimersExact
<1>1. (TypeInv /\ \A e \in Env : ClockInv(e) /\ TimersInv(e)) => TimersExact
  BY TimersExactFollows
<1>. QED
  BY <1>1, TimersInvariance, PTL

-----------------------------------------------------------------------------
(* The shutdown and the time-out *)

(* What the shutdown relies on: the clock that the barrier has read is     *)
(* past the tag; or nobody waits for the clock.                            *)
ClockIsPast == Latency \/ (fast_fwd_execution /\ PhysicalAction = {})

LEMMA ClockIsPastForAll ==
  ASSUME ClockIsPast
  PROVE  AsyncIsLater /\ \A e \in Env : WaitsForClock(e) => Latency
BY DEF ClockIsPast, AsyncIsLater, WaitsForClock, In

Triggers(e) == In(e, ShutdownTrigger)
TimeoutEvents(e) == {EventAt(timeout_tag, s) : s \in Triggers(e)}

(* A stop that has been requested waits, with the shutdown events, for the *)
(* next microstep; no later tag is selected or taken in between.           *)
RequestInv(e) ==
  /\ stop[e] /\ continue_execution[e] /\ ~Overflows(logical_time[e], 0)
       => ShutdownEvents(e) \subseteq event_queue[e]
  /\ At(e, "stopping") => stop[e]
  /\ At(e, "await_time") =>
       /\ logical_time[e].time < t_next[e].time
       /\ stop[e] /\ Triggers(e) # {} => ~Overflows(logical_time[e], 0)
  /\ At(e, "take") /\ stop[e] => Triggers(e) = {}
  /\ HasTimeout /\ continue_execution[e] /\ ~At(e, "startup")
       => TimeoutEvents(e) \subseteq event_queue[e]

(* Once continue_execution_ is reset, the shutdown triggers are triggered, *)
(* and only then; the time-out is not passed.                              *)
LastInv(e) ==
  /\ At(e, "final") => ~continue_execution[e]
  /\ ~continue_execution[e] /\ Triggers(e) # {} =>
       \/ pc[e] \in {"react", "final"} /\ Triggers(e) \subseteq triggered_actions[e]
       \/ pc[e] \in {"done", "crashed"}
  /\ HasTimeout /\ Triggers(e) # {} => logical_time[e] \preceq timeout_tag
  /\ \A v \in event_queue[e] : v.action \in ShutdownTrigger =>
       /\ v.action \in Triggers(e)
       /\ stop[e] \/ (HasTimeout /\ v.tag = timeout_tag)
  /\ triggered_actions[e] \cap ShutdownTrigger # {} => ~continue_execution[e]

StopInv(e) == RequestInv(e) /\ LastInv(e)

(* Steps that move the scheduler neither into a wait for the clock nor to  *)
(* a tag, and insert no shutdown events, keep the invariant.               *)
LEMMA StopFrame ==
  ASSUME NEW e \in Env, StopInv(e),
         logical_time'[e] = logical_time[e], t_next'[e] = t_next[e],
         stop'[e] = stop[e], continue_execution'[e] = continue_execution[e],
         triggered_actions'[e] = triggered_actions[e],
         event_queue[e] \subseteq event_queue'[e],
         \A v \in event_queue'[e] \ event_queue[e] : v.action \notin ShutdownTrigger,
         \/ pc'[e] = pc[e]
         \/ /\ pc[e] # "startup" /\ pc'[e] \notin {"startup", "stopping", "await_time", "take"}
            /\ pc'[e] = "final" => ~continue_execution[e]
            /\ ~continue_execution[e] /\ Triggers(e) # {} =>
                 pc'[e] = "crashed" \/ (pc[e] = "react" /\ pc'[e] = "final")
  PROVE  StopInv(e)'
<1>1. /\ ShutdownEvents(e)' = ShutdownEvents(e) /\ TimeoutEvents(e)' = TimeoutEvents(e)
      /\ Triggers(e)' = Triggers(e)
  BY DEF ShutdownEvents, TimeoutEvents, Triggers, In
<1>2. RequestInv(e)'
  BY <1>1 DEF StopInv, RequestInv, At
<1>3. LastInv(e)'
  <2>1. \A v \in event_queue'[e] : v.action \in ShutdownTrigger =>
          /\ v.action \in Triggers(e)
          /\ stop[e] \/ (HasTimeout /\ v.tag = timeout_tag)
    BY DEF StopInv, LastInv
  <2>2. ~continue_execution[e] /\ Triggers(e) # {} =>
          \/ pc'[e] \in {"react", "final"} /\ Triggers(e) \subseteq triggered_actions[e]
          \/ pc'[e] \in {"done", "crashed"}
    BY DEF StopInv, LastInv
  <2>. QED
    BY <1>1, <2>1, <2>2 DEF StopInv, LastInv, At
<1>. QED
  BY <1>2, <1>3 DEF StopInv

(* A list of which an event is known *)
LEMMA Listed ==
  ASSUME NEW queue \in SUBSET NatEvent, NEW tag \in NatTag, NEW S \in SUBSET Action,
         {EventAt(tag, s) : s \in S} \subseteq queue
  PROVE  /\ S \subseteq List(queue, tag)
         /\ S # {} => queue # {} /\ next_tag(queue) \preceq tag
<1>1. ASSUME NEW s \in S PROVE s \in List(queue, tag)
  <2>1. EventAt(tag, s) \in queue /\ EventAt(tag, s).tag = tag /\ EventAt(tag, s).action = s
    BY DEF EventAt
  <2>2. s # NoAction
    BY ActionAssumption
  <2>. QED
    BY <2>1, <2>2 DEF List
<1>2. ASSUME NEW s \in S PROVE queue # {} /\ next_tag(queue) \preceq tag
  <2>1. EventAt(tag, s) \in queue /\ EventAt(tag, s).tag = tag
    BY DEF EventAt
  <2>. QED
    BY <2>1, NextTag
<1>. QED
  BY <1>1, <1>2

(* While the shutdown events wait, the next microstep is the next tag.     *)
LEMMA ShutdownNext ==
  ASSUME TypeInv, NEW e \in Env, FutureInv(e), StopInv(e),
         stop[e], continue_execution[e], ~Overflows(logical_time[e], 0), Triggers(e) # {}
  PROVE  /\ event_queue[e] # {}
         /\ next_tag(event_queue[e]) = delay(logical_time[e], 0)
         /\ Triggers(e) \subseteq List(event_queue[e], delay(logical_time[e], 0))
<1>. DEFINE next == delay(logical_time[e], 0)
            first == next_tag(event_queue[e])
<1>1. /\ event_queue[e] \in SUBSET NatEvent
      /\ logical_time[e] \in NatTag /\ logical_time[e] \in Tag
      /\ next \in NatTag /\ next \in Tag
      /\ Triggers(e) \in SUBSET Action
  BY NatTags DEF TypeInv, Triggers, In, Action
<1>2. {EventAt(next, s) : s \in Triggers(e)} \subseteq event_queue[e]
  BY DEF StopInv, RequestInv, ShutdownEvents, Triggers
<1>3. /\ Triggers(e) \subseteq List(event_queue[e], next)
      /\ event_queue[e] # {} /\ first \preceq next
  BY <1>1, <1>2, Listed
<1>4. first \in QueuedTags(event_queue[e]) /\ first \in Tag
  BY <1>1, <1>3, NextTag, NatTags
<1>5. logical_time[e] \prec first
  BY <1>4 DEF QueuedTags, FutureInv, AllLater
<1>6. next \preceq first
  BY <1>1, <1>4, <1>5, DelayIsNext
<1>. QED
  BY <1>1, <1>3, <1>4, <1>6, TagOrder

LEMMA TimeoutTag ==
  ASSUME HasTimeout
  PROVE  /\ timeout_tag \in NatTag
         /\ TagAt(0, 0) \preceq timeout_tag
         /\ decrement(start_tag) \prec timeout_tag
<1>1. timeout \in Nat
  BY TimeAssumption DEF HasTimeout
<1>2. timeout_tag \in NatTag
  BY <1>1, NatTags DEF timeout_tag
<1>3. timeout_tag.time >= StartTime /\ StartTime \in Nat /\ StartTime > 0
  <2>1. start_tag.time = StartTime /\ StartTime \in Nat /\ StartTime > 0
    BY NatTags, TimeAssumption
  <2>2. timeout # 0 => delay(start_tag, timeout).time = start_tag.time + timeout
    BY DEF delay, TagAt
  <2>. QED
    BY <1>1, <2>1, <2>2 DEF timeout_tag
<1>4. decrement(start_tag).time = StartTime - 1 /\ TagAt(0, 0).time = 0
  BY NatTags DEF TagAt
<1>5. timeout_tag.time \in Nat
  BY <1>2 DEF NatTag
<1>. QED
  BY <1>2, <1>3, <1>4, <1>5 DEF \preceq, \prec, Less

LEMMA StopStarted ==
  ASSUME TypeInv, NEW e \in Env, StopInv(e), Startup(e)
  PROVE  StopInv(e)'
<1>. DEFINE first(t) == IF offset[t] = 0 THEN start_tag ELSE delay(start_tag, offset[t])
            events == {EventAt(first(t), t) : t \in In(e, Timer)}
                      \cup {EventAt(timeout_tag, s) : s \in IF HasTimeout THEN In(e, ShutdownTrigger) ELSE {}}
<1>1. /\ event_queue'[e] = event_queue[e] \cup events
      /\ UNCHANGED <<logical_time, triggered_actions, stop, continue_execution>>
      /\ pc[e] = "startup" /\ pc'[e] = "start"
  BY DEF Startup, Insert, Goto, At, TypeInv
<1>2. HasTimeout => TimeoutEvents(e) \subseteq events
  BY DEF TimeoutEvents, Triggers
<1>3. ASSUME NEW v \in events, v.action \in ShutdownTrigger
      PROVE  v.action \in Triggers(e) /\ HasTimeout /\ v.tag = timeout_tag
  <2>1. \A t \in In(e, Timer) : t \notin ShutdownTrigger
    BY ActionAssumption DEF In
  <2>2. v \notin {EventAt(first(t), t) : t \in In(e, Timer)}
    BY <1>3, <2>1 DEF EventAt
  <2>3. v \in {EventAt(timeout_tag, s) : s \in IF HasTimeout THEN In(e, ShutdownTrigger) ELSE {}}
    BY <2>2
  <2>. QED
    BY <2>3 DEF EventAt, Triggers
<1>4. /\ ShutdownEvents(e)' = ShutdownEvents(e) /\ TimeoutEvents(e)' = TimeoutEvents(e)
      /\ Triggers(e)' = Triggers(e)
  BY <1>1 DEF ShutdownEvents, TimeoutEvents, Triggers, In
<1>. HIDE DEF events
<1>5. RequestInv(e)'
  BY <1>1, <1>2, <1>4 DEF StopInv, RequestInv, At
<1>6. LastInv(e)'
  BY <1>1, <1>3, <1>4 DEF StopInv, LastInv, At
<1>. QED
  BY <1>5, <1>6 DEF StopInv

LEMMA StopBegun ==
  ASSUME TypeInv, NEW e \in Env, StopInv(e), start(e)
  PROVE  StopInv(e)'
<1>1. /\ event_queue'[e] = {v \in event_queue[e] : decrement(start_tag) \prec v.tag}
      /\ logical_time'[e] = decrement(start_tag)
      /\ UNCHANGED <<triggered_actions, stop, continue_execution>>
      /\ pc[e] = "start" /\ pc'[e] = "next"
  BY DEF start, Goto, At, TypeInv, control
<1>2. Overflows(logical_time[e], 0)'
  BY <1>1, NatTags DEF Overflows, TagAt
<1>3. /\ TimeoutEvents(e)' = TimeoutEvents(e) /\ Triggers(e)' = Triggers(e)
  BY DEF TimeoutEvents, Triggers, In
<1>4. HasTimeout => /\ decrement(start_tag) \preceq timeout_tag
                    /\ \A v \in TimeoutEvents(e) : decrement(start_tag) \prec v.tag
  <2>1. HasTimeout => decrement(start_tag) \in Tag /\ timeout_tag \in Tag
    BY TimeoutTag, NatTags
  <2>. QED
    BY <2>1, TimeoutTag, TagOrder DEF TimeoutEvents, EventAt
<1>5. RequestInv(e)'
  BY <1>1, <1>2, <1>3, <1>4 DEF StopInv, RequestInv, At
<1>6. LastInv(e)'
  BY <1>1, <1>3, <1>4 DEF StopInv, LastInv, At
<1>. QED
  BY <1>5, <1>6 DEF StopInv

LEMMA StopCleaned ==
  ASSUME TypeInv, NEW e \in Env, StopInv(e), CleanupAfterTag(e)
  PROVE  StopInv(e)'
<1>1. /\ event_queue'[e] = event_queue[e] \cup Rearmed(e)
      /\ UNCHANGED <<logical_time, stop, continue_execution>>
      /\ triggered_actions'[e] = {}
      /\ \/ pc[e] = "next" /\ pc'[e] = "loop"
         \/ pc[e] = "final" /\ pc'[e] = "done"
  BY DEF CleanupAfterTag, Insert, Goto, At, TypeInv, control
<1>2. \A v \in Rearmed(e) : v.action \notin ShutdownTrigger
  BY ActionAssumption DEF Rearmed, In, EventAt
<1>3. /\ ShutdownEvents(e)' = ShutdownEvents(e) /\ TimeoutEvents(e)' = TimeoutEvents(e)
      /\ Triggers(e)' = Triggers(e)
  BY <1>1 DEF ShutdownEvents, TimeoutEvents, Triggers, In
<1>4. RequestInv(e)'
  BY <1>1, <1>3 DEF StopInv, RequestInv, At
<1>5. LastInv(e)'
  BY <1>1, <1>2, <1>3 DEF StopInv, LastInv, At
<1>. QED
  BY <1>4, <1>5 DEF StopInv

LEMMA StopRequested ==
  ASSUME TypeInv, NEW e \in Env, StopInv(e), Shutdown(e)
  PROVE  StopInv(e)'
<1>1. /\ event_queue'[e] = event_queue[e] \cup ShutdownEvents(e)
      /\ UNCHANGED <<logical_time, triggered_actions, t_next, continue_execution>>
      /\ stop'[e] = TRUE
      /\ ~ShutdownOverflows(e)
      /\ \/ pc[e] = "loop" /\ pc'[e] = "stopping"
         \/ pc'[e] = pc[e] /\ pc[e] # "take"
  BY DEF Shutdown, IdleShutdown, Idle, ReactionShutdown, AsyncShutdown, AsyncAllowed, Locked,
         sync_shutdown, Insert, Goto, At, TypeInv
<1>2. /\ ShutdownEvents(e)' = ShutdownEvents(e) /\ TimeoutEvents(e)' = TimeoutEvents(e)
      /\ Triggers(e)' = Triggers(e)
  BY <1>1 DEF ShutdownEvents, TimeoutEvents, Triggers, In
<1>3. Triggers(e) # {} => ~Overflows(logical_time[e], 0)
  BY <1>1 DEF ShutdownOverflows, Triggers
<1>4. \A v \in ShutdownEvents(e) : v.action \in Triggers(e)
  BY DEF ShutdownEvents, Triggers, EventAt
<1>5. RequestInv(e)'
  BY <1>1, <1>2, <1>3 DEF StopInv, RequestInv, At
<1>6. LastInv(e)'
  <2>1. \A v \in event_queue'[e] : v.action \in ShutdownTrigger => v.action \in Triggers(e)
    BY <1>1, <1>4 DEF StopInv, LastInv
  <2>2. ~continue_execution[e] /\ Triggers(e) # {} =>
          \/ pc'[e] \in {"react", "final"} /\ Triggers(e) \subseteq triggered_actions[e]
          \/ pc'[e] \in {"done", "crashed"}
    BY <1>1 DEF StopInv, LastInv
  <2>3. pc'[e] = "final" => ~continue_execution[e]
    BY <1>1 DEF StopInv, LastInv, At
  <2>4. /\ HasTimeout /\ Triggers(e) # {} => logical_time[e] \preceq timeout_tag
        /\ triggered_actions[e] \cap ShutdownTrigger # {} => ~continue_execution[e]
    BY DEF StopInv, LastInv
  <2>5. logical_time'[e] = logical_time[e] /\ triggered_actions'[e] = triggered_actions[e]
        /\ continue_execution'[e] = continue_execution[e] /\ stop'[e]
    BY <1>1
  <2>. QED
    BY <1>2, <2>1, <2>2, <2>3, <2>4, <2>5 DEF LastInv, At
<1>. QED
  BY <1>5, <1>6 DEF StopInv

LEMMA StopSelected ==
  ASSUME ClockIsPast, TypeInv, NEW e \in Env, ClockInv(e), StopInv(e), Select(e)
  PROVE  StopInv(e)'
<1>1. /\ UNCHANGED <<logical_time, event_queue, triggered_actions, stop, continue_execution>>
      /\ pc[e] = "loop" /\ ~stop[e]
      /\ t_next'[e] = next_tag(event_queue[e])
      /\ pc'[e] \in {"await_time", "take"}
      /\ pc'[e] = "await_time" => WaitsForClock(e) /\ ~(t_next'[e].time < physical_time)
      /\ event_queue[e] # {}
  BY DEF Select, Goto, At, TypeInv, control
<1>2. /\ ShutdownEvents(e)' = ShutdownEvents(e) /\ TimeoutEvents(e)' = TimeoutEvents(e)
      /\ Triggers(e)' = Triggers(e)
  BY <1>1 DEF ShutdownEvents, TimeoutEvents, Triggers, In
<1>3. pc'[e] = "await_time" => logical_time[e].time < t_next'[e].time
  <2>. SUFFICES ASSUME pc'[e] = "await_time" PROVE logical_time[e].time < t_next'[e].time
    OBVIOUS
  <2>1. logical_time[e].time < physical_time
    BY <1>1, ClockIsPastForAll DEF ClockInv, Reached
  <2>2. t_next'[e].time \in Nat /\ logical_time[e].time \in Nat /\ physical_time \in Nat
    BY <1>1, NextTag DEF TypeInv, NatTag
  <2>. QED
    BY <1>1, <2>1, <2>2
<1>4. RequestInv(e)'
  BY <1>1, <1>2, <1>3 DEF StopInv, RequestInv, At
<1>5. LastInv(e)'
  BY <1>1, <1>2 DEF StopInv, LastInv, At
<1>. QED
  BY <1>4, <1>5 DEF StopInv

LEMMA StopWaited ==
  ASSUME TypeInv, NEW e \in Env, FutureInv(e), StopInv(e), TimeOut(e)
  PROVE  StopInv(e)'
<1>1. /\ UNCHANGED <<logical_time, event_queue, triggered_actions, t_next, stop, continue_execution>>
      /\ pc[e] = "await_time"
      /\ pc'[e] = IF t_next[e] # next_tag(event_queue[e]) THEN "loop" ELSE "take"
  BY DEF TimeOut, Interrupted, Goto, At, TypeInv, control
<1>2. CASE pc'[e] = "loop"
  BY <1>1, <1>2, StopFrame DEF StopInv, LastInv
<1>3. CASE pc'[e] = "take"
  <2>1. t_next[e] = next_tag(event_queue[e])
    BY <1>1, <1>3
  <2>2. ASSUME stop[e], Triggers(e) # {} PROVE FALSE
    <3>1. continue_execution[e] /\ ~Overflows(logical_time[e], 0)
      BY <1>1, <2>2 DEF StopInv, RequestInv, LastInv, At, TypeInv
    <3>2. t_next[e] = delay(logical_time[e], 0)
      BY <2>1, <2>2, <3>1, ShutdownNext
    <3>3. t_next[e].time = logical_time[e].time
      BY <3>2 DEF delay, TagAt
    <3>4. logical_time[e].time < t_next[e].time /\ logical_time[e].time \in Nat
      BY <1>1 DEF StopInv, RequestInv, At, TypeInv, NatTag
    <3>. QED
      BY <3>3, <3>4
  <2>3. /\ ShutdownEvents(e)' = ShutdownEvents(e) /\ TimeoutEvents(e)' = TimeoutEvents(e)
        /\ Triggers(e)' = Triggers(e)
    BY <1>1 DEF ShutdownEvents, TimeoutEvents, Triggers, In
  <2>4. RequestInv(e)'
    BY <1>1, <1>3, <2>2, <2>3 DEF StopInv, RequestInv, At
  <2>5. LastInv(e)'
    BY <1>1, <1>3, <2>3 DEF StopInv, LastInv, At
  <2>. QED
    BY <2>4, <2>5 DEF StopInv
<1>. QED
  BY <1>1, <1>2, <1>3

(* The last microstep: the shutdown triggers are triggered at once.        *)
LEMMA StopStop ==
  ASSUME TypeInv, NEW e \in Env, FutureInv(e), StopInv(e), Stop(e)
  PROVE  StopInv(e)'
<1>. DEFINE next == delay(logical_time[e], 0)
            list == List(event_queue[e], next)
            last == event_queue[e] # {} /\ next_tag(event_queue[e]) = next
<1>0. /\ pc \in [Env -> Location] /\ logical_time \in [Env -> NatTag]
      /\ event_queue \in [Env -> SUBSET NatEvent]
      /\ triggered_actions \in [Env -> SUBSET Action]
      /\ continue_execution \in [Env -> BOOLEAN]
  BY DEF TypeInv
<1>1. /\ pc[e] \in {"stopping", "loop"} /\ stop[e] /\ ~Overflows(logical_time[e], 0)
      /\ ~continue_execution'[e] /\ UNCHANGED stop
      /\ event_queue'[e] \subseteq event_queue[e]
      /\ pc'[e] \in {"loop", "react", "final"}
  BY <1>0 DEF Stop, Stopping, StopInv, RequestInv, Goto, At, Without
<1>2. last => /\ triggered_actions'[e] = list /\ logical_time'[e] = next
              /\ pc'[e] = IF list = {} THEN "loop" ELSE "react"
  BY <1>0 DEF Stop, Goto
<1>3. TimeoutEvents(e)' = TimeoutEvents(e) /\ Triggers(e)' = Triggers(e)
  BY DEF TimeoutEvents, Triggers, In
<1>4. ASSUME Triggers(e) # {}
      PROVE  last /\ Triggers(e) \subseteq list /\ continue_execution[e]
  <2>1. continue_execution[e]
    BY <1>1, <1>4 DEF StopInv, LastInv
  <2>. QED
    BY <1>1, <1>4, <2>1, ShutdownNext
<1>5. ASSUME HasTimeout, Triggers(e) # {}
      PROVE  next \preceq timeout_tag
  <2>1. {EventAt(timeout_tag, s) : s \in Triggers(e)} \subseteq event_queue[e]
    BY <1>1, <1>4, <1>5 DEF StopInv, RequestInv, TimeoutEvents, At
  <2>2. next_tag(event_queue[e]) \preceq timeout_tag
    BY <1>0, <1>5, <2>1, TimeoutTag, Listed DEF Triggers, In, Action
  <2>. QED
    BY <1>4, <1>5, <2>2
<1>. HIDE DEF list, next, last
<1>6. RequestInv(e)'
  BY <1>1, <1>3 DEF RequestInv, At
<1>7. LastInv(e)'
  <2>1. Triggers(e) # {} => pc'[e] = "react" /\ Triggers(e) \subseteq triggered_actions'[e]
    BY <1>2, <1>4
  <2>2. HasTimeout /\ Triggers(e) # {} => logical_time'[e] \preceq timeout_tag
    BY <1>2, <1>4, <1>5
  <2>. QED
    BY <1>1, <1>3, <2>1, <2>2 DEF LastInv, StopInv, At
<1>. QED
  BY <1>6, <1>7 DEF StopInv

(* A tag that is taken: the shutdown triggers are triggered if it is the   *)
(* time-out, and otherwise they are not.                                   *)
LEMMA StopTaken ==
  ASSUME TypeInv, NEW e \in Env, ClockInv(e), StopInv(e), Take(e)
  PROVE  StopInv(e)'
<1>. DEFINE tag == next_tag(event_queue[e])
            list == List(event_queue[e], tag)
<1>0. /\ pc \in [Env -> Location] /\ logical_time \in [Env -> NatTag]
      /\ event_queue \in [Env -> SUBSET NatEvent]
      /\ triggered_actions \in [Env -> SUBSET Action]
      /\ continue_execution \in [Env -> BOOLEAN]
      /\ Triggers(e) \in SUBSET Action
  BY DEF TypeInv, Triggers, In, Action
<1>1. /\ pc[e] = "take" /\ t_next[e] = tag /\ UNCHANGED stop
      /\ continue_execution'[e] = (continue_execution[e] /\ ~(HasTimeout /\ tag = timeout_tag))
      /\ triggered_actions'[e] = list
      /\ event_queue'[e] = Without(event_queue[e], tag)
      /\ logical_time'[e] = tag
      /\ pc'[e] = IF list = {} THEN "release" ELSE "react"
  BY <1>0 DEF Take, ClockInv, Goto, At
<1>2. TimeoutEvents(e)' = TimeoutEvents(e) /\ Triggers(e)' = Triggers(e)
  BY DEF TimeoutEvents, Triggers, In
<1>3. stop[e] => Triggers(e) = {} /\ ShutdownEvents(e)' = {}
  BY <1>1 DEF StopInv, RequestInv, At, ShutdownEvents, Triggers, In
<1>4. ASSUME Triggers(e) # {}, HasTimeout
      PROVE  /\ continue_execution[e] /\ TimeoutEvents(e) \subseteq event_queue[e]
             /\ tag \preceq timeout_tag
             /\ Triggers(e) \subseteq List(event_queue[e], timeout_tag)
  <2>1. continue_execution[e]
    BY <1>1, <1>4 DEF StopInv, LastInv
  <2>2. {EventAt(timeout_tag, s) : s \in Triggers(e)} \subseteq event_queue[e]
    BY <1>1, <1>4, <2>1 DEF StopInv, RequestInv, At, TimeoutEvents
  <2>. QED
    BY <1>0, <1>4, <2>1, <2>2, TimeoutTag, Listed DEF TimeoutEvents
<1>5. ASSUME NEW s \in list, s \in ShutdownTrigger
      PROVE  HasTimeout /\ tag = timeout_tag
  <2>1. PICK v \in event_queue[e] : v.tag = tag /\ v.action = s
    BY <1>5 DEF List
  <2>2. s \in Triggers(e) /\ (stop[e] \/ (HasTimeout /\ v.tag = timeout_tag))
    BY <1>5, <2>1 DEF StopInv, LastInv
  <2>. QED
    BY <1>3, <2>1, <2>2
<1>6. Without(event_queue[e], tag) \subseteq event_queue[e]
  BY DEF Without
<1>7. ASSUME HasTimeout, continue_execution'[e]
      PROVE  TimeoutEvents(e) \subseteq event_queue'[e]
  <2>1. CASE Triggers(e) = {}
    BY <2>1 DEF TimeoutEvents
  <2>2. CASE Triggers(e) # {}
    <3>1. tag # timeout_tag /\ TimeoutEvents(e) \subseteq event_queue[e]
      BY <1>1, <1>4, <1>7, <2>2
    <3>2. \A v \in TimeoutEvents(e) : v.tag = timeout_tag
      BY DEF TimeoutEvents, EventAt
    <3>. QED
      BY <1>1, <3>1, <3>2 DEF Without
  <2>. QED
    BY <2>1, <2>2
<1>8. RequestInv(e)'
  BY <1>1, <1>2, <1>3, <1>7 DEF RequestInv, At
<1>9. LastInv(e)'
  <2>1. ASSUME ~continue_execution'[e], Triggers(e) # {}
        PROVE  pc'[e] = "react" /\ Triggers(e) \subseteq triggered_actions'[e]
    <3>1. continue_execution[e]
      BY <1>1, <2>1 DEF StopInv, LastInv
    <3>2. HasTimeout /\ tag = timeout_tag
      BY <1>1, <2>1, <3>1
    <3>3. Triggers(e) \subseteq list
      BY <1>4, <2>1, <3>2
    <3>. QED
      BY <1>1, <2>1, <3>3
  <2>2. pc'[e] # "final"
    BY <1>1
  <2>3. HasTimeout /\ Triggers(e) # {} => logical_time'[e] \preceq timeout_tag
    BY <1>1, <1>4
  <2>4. \A v \in event_queue'[e] : v.action \in ShutdownTrigger =>
          /\ v.action \in Triggers(e)
          /\ stop'[e] \/ (HasTimeout /\ v.tag = timeout_tag)
    BY <1>1, <1>6 DEF StopInv, LastInv
  <2>5. triggered_actions'[e] \cap ShutdownTrigger # {} => ~continue_execution'[e]
    BY <1>1, <1>5
  <2>. HIDE DEF tag, list
  <2>. QED
    BY <1>2, <2>1, <2>2, <2>3, <2>4, <2>5 DEF LastInv, At
<1>. QED
  BY <1>8, <1>9 DEF StopInv

LEMMA StopStep ==
  ASSUME ClockIsPast, TypeInv, NEW e \in Env, ClockInv(e), FutureInv(e), TimersInv(e), StopInv(e),
         StepOf(e)
  PROVE  StopInv(e)'
<1>. USE DEF Goto, At, control, condition, clock
<1>0. /\ pc \in [Env -> Location]
      /\ event_queue \in [Env -> SUBSET NatEvent]
      /\ triggered_actions \in [Env -> SUBSET Action]
      /\ t_next \in [Env -> NatTag]
  BY DEF TypeInv
<1>1. CASE InsertsOne(e)
  <2>1. PICK tag \in NatTag, a \in Action \cup {NoAction} : Inserts(e, tag, a)
    BY <1>1 DEF InsertsOne
  <2>2. /\ event_queue'[e] = event_queue[e] \cup {EventAt(tag, a)}
        /\ EventAt(tag, a).action \notin ShutdownTrigger
        /\ UNCHANGED <<pc, logical_time, triggered_actions, t_next, control>>
    BY <1>0, <2>1 DEF Inserts, EventAt
  <2>3. \A v \in event_queue'[e] \ event_queue[e] : v.action \notin ShutdownTrigger
    BY <2>2
  <2>. QED
    BY <2>2, <2>3, StopFrame
<1>2. CASE WaitForEvent(e) \/ ReleaseEmpty(e)
  <2>1. /\ UNCHANGED <<logical_time, triggered_actions, t_next, control, event_queue>>
        /\ pc[e] \in {"loop", "release"} /\ pc'[e] \in {"await_event", "loop"}
    BY <1>0, <1>2 DEF WaitForEvent, Idle, ReleaseEmpty
  <2>2. Triggers(e) # {} => continue_execution[e]
    BY <2>1 DEF StopInv, LastInv
  <2>. QED
    BY <2>1, <2>2, StopFrame
<1>3. CASE WakeUp(e) \/ SpuriousWakeUp(e)
  <2>1. /\ UNCHANGED <<logical_time, triggered_actions, t_next, control, event_queue>>
        /\ pc[e] \in {"await_event", "await_time"} /\ (pc'[e] = pc[e] \/ pc'[e] = "loop")
    BY <1>0, <1>3 DEF WakeUp, SpuriousWakeUp, Waiting
  <2>2. Triggers(e) # {} => continue_execution[e]
    BY <2>1 DEF StopInv, LastInv
  <2>. QED
    BY <2>1, <2>2, StopFrame
<1>4. CASE EndReactions(e)
  <2>1. /\ UNCHANGED <<logical_time, triggered_actions, t_next, control, event_queue>>
        /\ pc[e] = "react"
        /\ pc'[e] = IF continue_execution[e] THEN "next" ELSE "final"
    BY <1>0, <1>4 DEF EndReactions
  <2>. QED
    BY <2>1, StopFrame
<1>5. CASE Notify(e)
  BY <1>5, StopFrame DEF Notify
<1>6. CASE Crashes(e)
  <2>1. Crash(e) /\ pc[e] # "startup"
    <3>1. IdleCrash(e) \/ StopCrash(e) \/ ReactionCrash(e) => Crash(e) /\ pc[e] # "startup"
      BY DEF IdleCrash, Idle, StopCrash, Stopping, ReactionCrash, ShutdownCrash
    <3>2. AsyncShutdownCrash(e) => Crash(e) /\ pc[e] # "startup"
      BY DEF AsyncShutdownCrash, ShutdownCrash, TimersInv
    <3>. QED
      BY <1>6, <3>1, <3>2 DEF Crashes
  <2>2. /\ UNCHANGED <<logical_time, triggered_actions, t_next, control, event_queue>>
        /\ pc[e] # "startup" /\ pc'[e] = "crashed"
    BY <1>0, <2>1 DEF Crash
  <2>. QED
    BY <2>2, StopFrame
<1>. QED
  BY <1>1, <1>2, <1>3, <1>4, <1>5, <1>6, StepShapes, StopStarted, StopBegun, StopCleaned,
     StopRequested, StopSelected, StopWaited, StopStop, StopTaken DEF OwnSteps

LEMMA StopInvariance ==
  ASSUME ClockIsPast
  PROVE  Spec => [](TypeInv /\ \A e \in Env : ClockInv(e) /\ FutureInv(e) /\ StopInv(e))
<1>. DEFINE Past == TypeInv /\ \A e \in Env : ClockInv(e) /\ FutureInv(e)
            Timers == \A e \in Env : TimersInv(e)
            Stopped == \A e \in Env : StopInv(e)
<1>1. Init => Stopped
  <2>. SUFFICES ASSUME Init, NEW e \in Env PROVE StopInv(e)
    OBVIOUS
  <2>1. RequestInv(e)
    BY DEF Init, RequestInv, At
  <2>2. LastInv(e)
    BY TimeoutTag DEF Init, LastInv, At
  <2>. QED
    BY <2>1, <2>2 DEF StopInv
<1>2. Past /\ Timers /\ Stopped /\ [Next]_vars => Stopped'
  <2>. SUFFICES ASSUME Past, Timers, Stopped, [Next]_vars, NEW f \in Env PROVE StopInv(f)'
    OBVIOUS
  <2>0. TypeInv /\ ClockInv(f) /\ FutureInv(f) /\ TimersInv(f) /\ StopInv(f)
    OBVIOUS
  <2>1. CASE UNCHANGED vars \/ Tick
    BY <2>0, <2>1, StopFrame DEF vars, Tick, condition, control
  <2>2. ASSUME NEW e \in Env, StepOf(e)
        PROVE  StopInv(f)'
    <3>1. CASE e = f
      BY ClockIsPast, <2>0, <2>2, <3>1, StopStep
    <3>2. CASE e # f
      BY <2>0, <2>2, <3>2, Local, LocalControl, StopFrame
    <3>. QED
      BY <3>1, <3>2
  <2>. QED
    BY <2>1, <2>2 DEF Next, StepOf
<1>3. Spec => []Past
  BY ClockIsPastForAll, FutureInvariance
<1>4. Spec => []Timers
  <2>1. (TypeInv /\ \A e \in Env : ClockInv(e) /\ TimersInv(e)) => Timers
    OBVIOUS
  <2>. HIDE DEF Timers
  <2>. QED
    BY <2>1, TimersInvariance, PTL
<1>5. Past /\ Stopped => TypeInv /\ \A e \in Env : ClockInv(e) /\ FutureInv(e) /\ StopInv(e)
  OBVIOUS
<1>. HIDE DEF Past, Timers, Stopped
<1>. QED
  BY <1>1, <1>2, <1>3, <1>4, <1>5, PTL DEF Spec

(* The round in which a shutdown trigger is triggered is the last one,     *)
(* however the shutdown was requested, and whatever the scheduler was      *)
(* waiting for.  The clock must be past the tag when the wait for it ends: *)
(* otherwise the next microstep can be waited for and taken like any tag.  *)
THEOREM ShutdownRoundIsLast ==
  ASSUME ClockIsPast
  PROVE  Spec => []LastRound
<1>1. (TypeInv /\ \A e \in Env : ClockInv(e) /\ FutureInv(e) /\ StopInv(e)) => LastRound
  BY DEF StopInv, LastInv, LastRound
<1>. QED
  BY <1>1, StopInvariance, PTL

(* A scheduler that terminates has triggered all shutdown triggers of its  *)
(* environment in its last round: their events are not overtaken by a      *)
(* later tag, not left in the queue, and not consumed in an earlier round. *)
THEOREM NoShutdownReactionIsMissed ==
  ASSUME ClockIsPast
  PROVE  Spec => []ShutdownReactionsRun
<1>1. (TypeInv /\ \A e \in Env : ClockInv(e) /\ FutureInv(e) /\ StopInv(e)) => ShutdownReactionsRun
  <2>. SUFFICES ASSUME NEW e \in Env, StopInv(e), At(e, "final")
                PROVE  Triggers(e) \subseteq triggered_actions[e]
    BY DEF ShutdownReactionsRun, Triggers
  <2>. QED
    BY DEF StopInv, LastInv, At
<1>. QED
  BY <1>1, StopInvariance, PTL

(* Every environment has a shutdown trigger.  Only its event stops the     *)
(* scheduler at the time-out.                                              *)
AllHaveTriggers == \A e \in Env : Triggers(e) # {}

(* The logical time does not pass the time-out.                            *)
THEOREM TimeoutIsNotPassed ==
  ASSUME ClockIsPast, AllHaveTriggers
  PROVE  Spec => []StopsAtTimeout
<1>1. (TypeInv /\ \A e \in Env : ClockInv(e) /\ FutureInv(e) /\ StopInv(e)) => StopsAtTimeout
  BY DEF AllHaveTriggers, StopInv, LastInv, StopsAtTimeout
<1>. QED
  BY <1>1, StopInvariance, PTL

(* Once a stop is requested, whoever requests it and wherever the          *)
(* scheduler is, it does not process any tag but the next microstep: a tag *)
(* that was selected before the request is given up.                       *)
THEOREM StopsPromptly ==
  ASSUME ClockIsPast, AllHaveTriggers
  PROVE  Spec => StopIsPrompt
<1>. DEFINE Stopped == TypeInv /\ \A e \in Env : ClockInv(e) /\ FutureInv(e) /\ StopInv(e)
            Prompt == \A e \in Env : stop[e] /\ Started(e) /\ logical_time'[e] # logical_time[e] =>
                                       logical_time'[e] = delay(logical_time[e], 0)
<1>1. Stopped /\ [Next]_vars => Prompt
  <2>. SUFFICES ASSUME Stopped, [Next]_vars, NEW f \in Env,
                       stop[f], Started(f), logical_time'[f] # logical_time[f]
                PROVE  logical_time'[f] = delay(logical_time[f], 0)
    OBVIOUS
  <2>0. TypeInv /\ ClockInv(f) /\ StopInv(f) /\ logical_time \in [Env -> NatTag]
    BY DEF TypeInv
  <2>1. PICK e \in Env : StepOf(e)
    BY DEF Next, StepOf, vars, Tick
  <2>2. e = f
    BY <2>0, <2>1, Local
  <2>3. CASE Stop(f)
    BY <2>0, <2>3 DEF Stop
  <2>4. CASE Take(f)
    BY <2>0, <2>4 DEF Take, StopInv, RequestInv, At, AllHaveTriggers
  <2>5. CASE start(f)
    BY <2>5 DEF start, Started
  <2>6. CASE InsertsOne(f)
    BY <2>6 DEF InsertsOne, Inserts
  <2>7. CASE Startup(f) \/ CleanupAfterTag(f) \/ WaitForEvent(f) \/ Select(f) \/ WakeUp(f)
             \/ SpuriousWakeUp(f) \/ TimeOut(f) \/ ReleaseEmpty(f) \/ EndReactions(f) \/ Notify(f)
    BY <2>7 DEF Startup, CleanupAfterTag, WaitForEvent, Select, WakeUp, SpuriousWakeUp, TimeOut,
                ReleaseEmpty, EndReactions, Notify
  <2>8. CASE Shutdown(f)
    BY <2>8 DEF Shutdown, IdleShutdown, ReactionShutdown, AsyncShutdown
  <2>9. CASE Crashes(f)
    BY <2>9 DEF Crashes, IdleCrash, StopCrash, ReactionCrash, AsyncShutdownCrash, ShutdownCrash, Crash
  <2>. QED
    BY <2>0, <2>1, <2>2, <2>3, <2>4, <2>5, <2>6, <2>7, <2>8, <2>9, StepShapes DEF OwnSteps
<1>2. Spec => []Stopped
  BY StopInvariance
<1>3. Spec => [][Prompt]_vars
  <2>. HIDE DEF Stopped, Prompt
  <2>. QED
    BY <1>1, <1>2, PTL DEF Spec
<1>. QED
  BY <1>3 DEF StopIsPrompt

-----------------------------------------------------------------------------
(* Assertions and validations *)

(* A tag that is still to be released is later than the released time.     *)
AdvanceInv(e) ==
  /\ pc[e] \in {"next", "release", "react", "final"} => released_time[e] \prec logical_time[e]
  /\ "advance_to" \notin failed[e]

LEMMA AdvanceFrame ==
  ASSUME NEW e \in Env, AdvanceInv(e),
         logical_time'[e] = logical_time[e], released_time'[e] = released_time[e],
         \/ pc'[e] = pc[e] \/ pc'[e] \notin {"next", "release", "react", "final"}
         \/ pc[e] = "react",
         "advance_to" \notin failed'[e]
  PROVE  AdvanceInv(e)'
BY DEF AdvanceInv, \prec, Less

LEMMA AdvanceStep ==
  ASSUME AllHaveTriggers, TypeInv, NEW e \in Env, ClockInv(e), FutureInv(e), StopInv(e),
         AdvanceInv(e), StepOf(e)
  PROVE  AdvanceInv(e)'
<1>. USE DEF Goto, At, Check, control, condition, clock
<1>0. /\ pc \in [Env -> Location] /\ failed \in [Env -> SUBSET Site]
      /\ logical_time \in [Env -> NatTag] /\ released_time \in [Env -> NatTag]
      /\ event_queue \in [Env -> SUBSET NatEvent]
      /\ continue_execution \in [Env -> BOOLEAN]
  BY DEF TypeInv
<1>a. logical_time[e] \in Tag /\ released_time[e] \in Tag /\ decrement(start_tag) \in Tag
  BY <1>0, NatTags
<1>b. "advance_to" \notin failed[e]
  BY DEF AdvanceInv
<1>1. CASE InsertsOne(e)
  <2>1. UNCHANGED <<pc, logical_time, released_time>> /\ failed'[e] \subseteq failed[e] \cup {"schedule_sync"}
    BY <1>1 DEF InsertsOne, Inserts
  <2>. QED
    BY <1>b, <2>1, AdvanceFrame
<1>2. CASE Startup(e) \/ WaitForEvent(e) \/ Select(e) \/ WakeUp(e) \/ SpuriousWakeUp(e)
           \/ TimeOut(e) \/ EndReactions(e) \/ Notify(e)
  <2>1. /\ UNCHANGED <<logical_time, released_time>>
        /\ \/ pc'[e] = pc[e] \/ pc'[e] \notin {"next", "release", "react", "final"}
           \/ pc[e] = "react"
        /\ "advance_to" \notin failed'[e]
    BY <1>0, <1>2, <1>b DEF Startup, WaitForEvent, Select, WakeUp, SpuriousWakeUp, TimeOut,
                            EndReactions, Notify
  <2>. QED
    BY <2>1, AdvanceFrame
<1>3. CASE Shutdown(e)
  <2>1. /\ UNCHANGED <<logical_time, released_time>>
        /\ pc'[e] = pc[e] \/ pc'[e] = "stopping"
        /\ "advance_to" \notin failed'[e]
    BY <1>0, <1>3, <1>b DEF Shutdown, IdleShutdown, ReactionShutdown, AsyncShutdown, sync_shutdown
  <2>. QED
    BY <2>1, AdvanceFrame
<1>4. CASE Crashes(e)
  <2>1. Crash(e)
    BY <1>4 DEF Crashes, IdleCrash, StopCrash, ReactionCrash, AsyncShutdownCrash, ShutdownCrash
  <2>2. /\ UNCHANGED <<logical_time, released_time>> /\ pc'[e] = "crashed"
        /\ "advance_to" \notin failed'[e]
    BY <1>0, <1>b, <2>1 DEF Crash
  <2>. QED
    BY <2>2, AdvanceFrame
<1>5. CASE start(e)
  <2>1. logical_time[e] = TagAt(0, 0) /\ released_time[e] \preceq logical_time[e]
    BY <1>5 DEF start, ClockInv, FutureInv
  <2>2. TagAt(0, 0) \prec decrement(start_tag)
    BY NatTags, TimeAssumption, MaxMicrostepAssumption DEF TagAt, \prec, Less
  <2>3. released_time[e] \prec decrement(start_tag)
    BY <1>a, <2>1, <2>2, TagOrder
  <2>. QED
    BY <1>0, <1>5, <1>b, <2>1, <2>2, <2>3 DEF start, AdvanceInv
<1>6. CASE CleanupAfterTag(e) \/ ReleaseEmpty(e)
  <2>1. pc[e] \in {"next", "final", "release"} /\ pc'[e] \in {"loop", "done"}
    BY <1>0, <1>6 DEF CleanupAfterTag, ReleaseEmpty
  <2>2. released_time[e] \prec logical_time[e]
    BY <2>1 DEF AdvanceInv
  <2>3. "advance_to" \notin failed'[e]
    BY <1>0, <1>6, <1>b, <2>2 DEF CleanupAfterTag, ReleaseEmpty, ReleaseCurrentTag
  <2>. QED
    BY <2>1, <2>3 DEF AdvanceInv
<1>7. CASE Stop(e)
  <2>. DEFINE next == delay(logical_time[e], 0)
              last == event_queue[e] # {} /\ next_tag(event_queue[e]) = next
  <2>1. stop[e] /\ ~Overflows(logical_time[e], 0) /\ continue_execution[e]
    BY <1>0, <1>7 DEF Stop, Stopping, StopInv, RequestInv, LastInv, AllHaveTriggers
  <2>2. last
    BY <2>1, ShutdownNext DEF AllHaveTriggers
  <2>3. released_time[e] \prec next
    BY <2>2, TakenLater
  <2>4. logical_time'[e] = next /\ released_time'[e] = released_time[e] /\ failed' = failed
    BY <1>0, <1>7, <2>2 DEF Stop
  <2>. QED
    BY <1>b, <2>3, <2>4 DEF AdvanceInv
<1>8. CASE Take(e)
  <2>. DEFINE tag == next_tag(event_queue[e])
  <2>1. event_queue[e] # {} /\ t_next[e] = tag
    BY <1>8 DEF Take, ClockInv
  <2>2. logical_time[e] \prec tag /\ released_time[e] \prec tag
    BY <2>1, TakenLater
  <2>3. logical_time'[e] = tag /\ released_time'[e] = released_time[e] /\ failed'[e] = failed[e]
    BY <1>0, <1>8, <2>1, <2>2 DEF Take
  <2>. QED
    BY <1>b, <2>2, <2>3 DEF AdvanceInv
<1>. QED
  BY <1>1, <1>2, <1>3, <1>4, <1>5, <1>6, <1>7, <1>8, StepShapes DEF OwnSteps

LEMMA AdvanceInvariance ==
  ASSUME ClockIsPast, AllHaveTriggers
  PROVE  Spec => []\A e \in Env : AdvanceInv(e)
<1>. DEFINE Stopped == TypeInv /\ \A e \in Env : ClockInv(e) /\ FutureInv(e) /\ StopInv(e)
            Advance == \A e \in Env : AdvanceInv(e)
<1>1. Init => Advance
  BY DEF Init, AdvanceInv
<1>2. Stopped /\ Advance /\ [Next]_vars => Advance'
  <2>. SUFFICES ASSUME Stopped, Advance, [Next]_vars, NEW f \in Env PROVE AdvanceInv(f)'
    OBVIOUS
  <2>0. TypeInv /\ ClockInv(f) /\ FutureInv(f) /\ StopInv(f) /\ AdvanceInv(f)
    OBVIOUS
  <2>1. CASE UNCHANGED vars \/ Tick
    BY <2>0, <2>1, AdvanceFrame DEF vars, Tick, condition, control, AdvanceInv
  <2>2. ASSUME NEW e \in Env, StepOf(e)
        PROVE  AdvanceInv(f)'
    <3>1. CASE e = f
      BY AllHaveTriggers, <2>0, <2>2, <3>1, AdvanceStep
    <3>2. CASE e # f
      BY <2>0, <2>2, <3>2, Local, AdvanceFrame DEF AdvanceInv
    <3>. QED
      BY <3>1, <3>2
  <2>. QED
    BY <2>1, <2>2 DEF Next, StepOf
<1>. HIDE DEF Stopped, Advance
<1>3. Spec => []Stopped
  BY StopInvariance DEF Stopped
<1>4. Spec => []Advance
  BY <1>1, <1>2, <1>3, PTL DEF Spec
<1>. QED
  BY <1>4 DEF Advance

(* The assertion in LogicalTime::advance_to never fails: neither a         *)
(* scheduler nor its observers are told the same tag twice, not even when  *)
(* the scheduler ends.                                                     *)
THEOREM AdvanceAssertionHolds ==
  ASSUME ClockIsPast, AllHaveTriggers
  PROVE  Spec => []ReleasedOnce
<1>1. (\A e \in Env : AdvanceInv(e)) => ReleasedOnce
  BY DEF AdvanceInv, ReleasedOnce
<1>. QED
  BY <1>1, AdvanceInvariance, PTL

(* Before its first tag an environment is not asked to stop, and has       *)
(* something to wait for: a physical action, the time-out, or a timer.     *)
AllBegin ==
  /\ ~EarlyShutdown
  /\ \A e \in Env : run_forever(e) \/ HasTimeout \/ In(e, Timer) # {}

(* The microsteps before the shutdown are bounded.  They start before the  *)
(* start tag, with the largest of all, but nothing is requested there.     *)
MicroInv(e) ==
  /\ pc[e] \in {"startup", "start"} => ~stop[e]
  /\ stop[e] => phase[e] = "Deconstruction"
  /\ Started(e) => decrement(start_tag) \preceq logical_time[e]
  /\ At(e, "react") => logical_time[e] # decrement(start_tag)
  /\ At(e, "start") /\ ~run_forever(e) => \E v \in event_queue[e] : decrement(start_tag) \prec v.tag
  /\ Started(e) /\ logical_time[e] = decrement(start_tag) /\ ~run_forever(e) => event_queue[e] # {}
  /\ ~stop[e] => \A v \in event_queue[e] : v.tag.micro_step <= MaxMicro
  /\ ~stop[e] /\ Started(e) /\ logical_time[e] # decrement(start_tag)
       => logical_time[e].micro_step <= MaxMicro
  /\ stop[e] /\ continue_execution[e] => ~Overflows(logical_time[e], 0)
  /\ "delay" \notin failed[e]

(* The hypotheses under which no validation fails *)
NoOverflowAssumptions == ClockIsPast /\ AllHaveTriggers /\ AllBegin /\ SmallTags

LEMMA MicroFrame ==
  ASSUME NEW e \in Env, MicroInv(e),
         pc'[e] \in {"startup", "start", "react"} => pc'[e] = pc[e],
         Started(e)' => Started(e),
         logical_time'[e] = logical_time[e], stop'[e] = stop[e], phase'[e] = phase[e],
         continue_execution'[e] = continue_execution[e],
         event_queue[e] \subseteq event_queue'[e],
         \A v \in event_queue'[e] \ event_queue[e] : v.tag.micro_step <= MaxMicro,
         "delay" \notin failed'[e]
  PROVE  MicroInv(e)'
<1>1. decrement(start_tag)' = decrement(start_tag) /\ run_forever(e)' = run_forever(e)
      /\ Overflows(logical_time[e], 0)' = Overflows(logical_time[e], 0)
  BY DEF run_forever, In, Overflows
<1>. HIDE DEF MicroInv
<1>2. At(e, "start")' => At(e, "start")
  BY DEF At
<1>3. At(e, "react")' => At(e, "react")
  BY DEF At
<1>. QED
  BY <1>1, <1>2, <1>3 DEF MicroInv, Overflows

LEMMA MicroStarted ==
  ASSUME NoOverflowAssumptions, TypeInv, NEW e \in Env, MicroInv(e), Startup(e)
  PROVE  MicroInv(e)'
<1>. DEFINE first(t) == IF offset[t] = 0 THEN start_tag ELSE delay(start_tag, offset[t])
            events == {EventAt(first(t), t) : t \in In(e, Timer)}
                      \cup {EventAt(timeout_tag, s) : s \in IF HasTimeout THEN In(e, ShutdownTrigger) ELSE {}}
<1>0. /\ pc \in [Env -> Location] /\ failed \in [Env -> SUBSET Site]
      /\ phase \in [Env -> {"Assembly", "Execution", "Shutdown", "Deconstruction"}]
      /\ event_queue \in [Env -> SUBSET NatEvent]
  BY DEF TypeInv
<1>1. /\ event_queue'[e] = event_queue[e] \cup events
      /\ stop'[e] = stop[e] /\ pc[e] = "startup" /\ pc'[e] = "start"
      /\ failed'[e] \subseteq failed[e] \cup {"schedule_sync"}
  BY <1>0 DEF Startup, Insert, Goto, At, Check
<1>2. decrement(start_tag) \prec start_tag /\ start_tag.micro_step = 0
  BY NatTags, TimeAssumption, MaxMicrostepAssumption DEF TagAt, \prec, Less
<1>3. ASSUME NEW t \in In(e, Timer)
      PROVE  decrement(start_tag) \prec first(t) /\ first(t).micro_step = 0
  <2>1. offset[t] \in Nat
    BY TimeAssumption DEF In
  <2>2. CASE offset[t] = 0
    BY <1>2, <2>2
  <2>3. CASE offset[t] # 0
    <3>1. delay(start_tag, offset[t]) = TagAt(StartTime + offset[t], 0)
      BY <2>3, NatTags DEF delay
    <3>. QED
      BY <2>1, <2>3, <3>1, NatTags, TimeAssumption DEF TagAt, \prec, Less
  <2>. QED
    BY <2>2, <2>3
<1>4. HasTimeout => decrement(start_tag) \prec timeout_tag /\ timeout_tag.micro_step = 0
  <2>1. timeout_tag.micro_step = 0
    BY <1>2 DEF timeout_tag, delay, TagAt
  <2>. QED
    BY <2>1, TimeoutTag
<1>5. \A v \in events : decrement(start_tag) \prec v.tag /\ v.tag.micro_step = 0
  BY <1>3, <1>4 DEF EventAt
<1>6. ~run_forever(e) => events # {}
  BY DEF NoOverflowAssumptions, AllBegin, AllHaveTriggers, Triggers
<1>7. ~stop[e] /\ \A v \in event_queue'[e] : v.tag.micro_step <= MaxMicro
  BY <1>1, <1>5, TimeAssumption DEF MicroInv
<1>. HIDE DEF events
<1>8. run_forever(e)' = run_forever(e)
  BY DEF run_forever, In
<1>9. ~run_forever(e) => \E v \in event_queue'[e] : decrement(start_tag) \prec v.tag
  BY <1>1, <1>5, <1>6
<1>. QED
  BY <1>1, <1>7, <1>8, <1>9 DEF MicroInv, Started, At

LEMMA MicroBegun ==
  ASSUME TypeInv, NEW e \in Env, MicroInv(e), start(e)
  PROVE  MicroInv(e)'
<1>0. /\ pc \in [Env -> Location] /\ failed \in [Env -> SUBSET Site]
      /\ logical_time \in [Env -> NatTag]
      /\ event_queue \in [Env -> SUBSET NatEvent]
  BY DEF TypeInv
<1>1. /\ event_queue'[e] = {v \in event_queue[e] : decrement(start_tag) \prec v.tag}
      /\ logical_time'[e] = decrement(start_tag)
      /\ stop'[e] = stop[e] /\ pc[e] = "start" /\ pc'[e] = "next"
      /\ failed'[e] \subseteq failed[e] \cup {"advance_to"}
  BY <1>0 DEF start, Goto, At, Check, control
<1>2. decrement(start_tag) \preceq decrement(start_tag)
  BY NatTags, TagOrder
<1>3. run_forever(e)' = run_forever(e)
  BY DEF run_forever, In
<1>4. ~run_forever(e) => event_queue'[e] # {}
  BY <1>1 DEF MicroInv, At
<1>. QED
  BY <1>1, <1>2, <1>3, <1>4 DEF MicroInv, At

LEMMA MicroCleaned ==
  ASSUME TypeInv, NEW e \in Env, MicroInv(e), CleanupAfterTag(e)
  PROVE  MicroInv(e)'
<1>0. /\ pc \in [Env -> Location] /\ failed \in [Env -> SUBSET Site]
      /\ event_queue \in [Env -> SUBSET NatEvent]
  BY DEF TypeInv
<1>1. /\ event_queue'[e] = event_queue[e] \cup Rearmed(e)
      /\ UNCHANGED <<logical_time, stop, phase, continue_execution>>
      /\ pc[e] \in {"next", "final"} /\ pc'[e] \in {"loop", "done"}
      /\ failed'[e] \subseteq failed[e] \cup {"advance_to"}
  BY <1>0 DEF CleanupAfterTag, ReleaseCurrentTag, Insert, Goto, At, Check, control
<1>2. \A v \in Rearmed(e) : v.tag.micro_step <= MaxMicro
  BY TimeAssumption DEF Rearmed, EventAt, delay, TagAt
<1>3. Started(e)
  BY <1>1 DEF Started, At
<1>4. "delay" \notin failed'[e]
  BY <1>1 DEF MicroInv
<1>. HIDE DEF MicroInv
<1>. QED
  BY <1>1, <1>2, <1>3, <1>4, MicroFrame

(* The logical time moves on.                                              *)
LEMMA MicroMoved ==
  ASSUME TypeInv, NEW e \in Env, FutureInv(e), MicroInv(e), Started(e), event_queue[e] # {},
         logical_time'[e] = next_tag(event_queue[e]),
         event_queue'[e] \subseteq event_queue[e],
         stop'[e] = stop[e], phase'[e] = phase[e],
         stop[e] => ~continue_execution'[e],
         pc'[e] \notin {"startup", "start"},
         failed'[e] = failed[e]
  PROVE  MicroInv(e)'
<1>. DEFINE tag == next_tag(event_queue[e])
<1>1. /\ event_queue[e] \in SUBSET NatEvent
      /\ logical_time[e] \in Tag /\ decrement(start_tag) \in Tag
  BY NatTags DEF TypeInv
<1>2. tag \in QueuedTags(event_queue[e]) /\ tag \in Tag
  BY <1>1, NextTag, NatTags
<1>3. logical_time[e] \prec tag
  BY TakenLater
<1>4. decrement(start_tag) \prec tag
  BY <1>1, <1>2, <1>3, TagOrder DEF MicroInv
<1>5. decrement(start_tag) \preceq tag /\ tag # decrement(start_tag)
  BY <1>1, <1>2, <1>4, TagOrder
<1>6. ~stop[e] => tag.micro_step <= MaxMicro
  BY <1>2 DEF QueuedTags, MicroInv
<1>. HIDE DEF tag
<1>. QED
  BY <1>5, <1>6 DEF MicroInv, At, tag

LEMMA MicroRequested ==
  ASSUME NoOverflowAssumptions, TypeInv, NEW e \in Env, ClockInv(e), TimersInv(e), MicroInv(e),
         Shutdown(e)
  PROVE  MicroInv(e)'
<1>. USE DEF Goto, At, control
<1>0. /\ pc \in [Env -> Location] /\ failed \in [Env -> SUBSET Site]
      /\ phase \in [Env -> {"Assembly", "Execution", "Shutdown", "Deconstruction"}]
      /\ stop \in [Env -> BOOLEAN]
      /\ event_queue \in [Env -> SUBSET NatEvent]
  BY DEF TypeInv
<1>1. /\ event_queue'[e] = event_queue[e] \cup ShutdownEvents(e)
      /\ UNCHANGED <<logical_time, continue_execution>>
      /\ stop'[e] = TRUE /\ phase'[e] = "Deconstruction"
      /\ ~ShutdownOverflows(e)
      /\ pc'[e] = pc[e] \/ (pc[e] = "loop" /\ pc'[e] = "stopping")
      /\ failed'[e] \subseteq failed[e] \cup {"schedule_sync"}
      /\ pc[e] \in {"loop", "react"} \/ AsyncAllowed(e)
  BY <1>0 DEF Shutdown, IdleShutdown, Idle, ReactionShutdown, AsyncShutdown, sync_shutdown, Insert, Check
<1>2. pc[e] \notin {"startup", "start"}
  <2>1. ASSUME AsyncAllowed(e) PROVE logical_time[e] # TagAt(0, 0)
    <3>1. start_tag \preceq logical_time[e]
      BY <2>1 DEF AsyncAllowed, NoOverflowAssumptions, AllBegin
    <3>. QED
      BY <3>1, NatTags, TimeAssumption DEF TagAt, \preceq, \prec, Less
  <2>. QED
    BY <1>1, <2>1 DEF ClockInv
<1>3. ~Overflows(logical_time[e], 0)
  BY <1>1 DEF ShutdownOverflows, NoOverflowAssumptions, AllHaveTriggers, Triggers
<1>4. run_forever(e)' = run_forever(e) /\ Overflows(logical_time[e], 0)' = Overflows(logical_time[e], 0)
  BY <1>1 DEF run_forever, In, Overflows
<1>. QED
  BY <1>1, <1>2, <1>3, <1>4 DEF MicroInv, Started

(* Where a shutdown is requested, the next microstep does not overflow.    *)
LEMMA NoCrash ==
  ASSUME NoOverflowAssumptions, TypeInv, NEW e \in Env, ClockInv(e), StopInv(e), MicroInv(e)
  PROVE  ~Crashes(e)
<1>. USE DEF At
<1>1. ASSUME ~stop[e], Started(e), logical_time[e] # decrement(start_tag)
      PROVE  ~Overflows(logical_time[e], 0)
  <2>1. logical_time[e].micro_step <= MaxMicro
    BY <1>1 DEF MicroInv
  <2>2. logical_time[e].micro_step \in Nat
    BY MaxMicrostepAssumption DEF TypeInv, NatTag, Microstep
  <2>. QED
    BY <2>1, <2>2, TimeAssumption, MaxMicrostepAssumption DEF Overflows
<1>2. phase[e] = "Execution" => ~stop[e]
  BY DEF MicroInv
<1>3. ~IdleCrash(e)
  <2>. SUFFICES ASSUME IdleCrash(e) PROVE FALSE
    OBVIOUS
  <2>1. ~stop[e] /\ Started(e) /\ ~run_forever(e) /\ event_queue[e] = {}
        /\ Overflows(logical_time[e], 0)
    BY DEF IdleCrash, Idle, Started, ShutdownCrash, ShutdownOverflows
  <2>. QED
    BY <1>1, <2>1 DEF MicroInv
<1>4. ~StopCrash(e)
  <2>. SUFFICES ASSUME StopCrash(e) PROVE FALSE
    OBVIOUS
  <2>1. stop[e] /\ pc[e] \in {"stopping", "loop"} /\ Overflows(logical_time[e], 0)
    BY DEF StopCrash, Stopping, StopInv, RequestInv
  <2>2. continue_execution[e]
    BY <2>1 DEF StopInv, LastInv, NoOverflowAssumptions, AllHaveTriggers
  <2>. QED
    BY <2>1, <2>2 DEF MicroInv
<1>5. ~ReactionCrash(e)
  BY <1>1, <1>2 DEF ReactionCrash, ShutdownCrash, ShutdownOverflows, MicroInv, Started
<1>6. ~AsyncShutdownCrash(e)
  <2>. SUFFICES ASSUME AsyncShutdownCrash(e) PROVE FALSE
    OBVIOUS
  <2>1. start_tag \preceq logical_time[e] /\ ~stop[e] /\ Overflows(logical_time[e], 0)
    BY <1>2 DEF AsyncShutdownCrash, AsyncAllowed, NoOverflowAssumptions, AllBegin,
                ShutdownCrash, ShutdownOverflows
  <2>2. logical_time[e] # TagAt(0, 0) /\ logical_time[e] # decrement(start_tag)
    BY <2>1, NatTags, TimeAssumption, MaxMicrostepAssumption DEF TagAt, \preceq, \prec, Less
  <2>3. Started(e)
    BY <2>2 DEF ClockInv, Started
  <2>. QED
    BY <1>1, <2>1, <2>2, <2>3
<1>. QED
  BY <1>3, <1>4, <1>5, <1>6 DEF Crashes

LEMMA MicroStep ==
  ASSUME NoOverflowAssumptions, TypeInv, NEW e \in Env, ClockInv(e), FutureInv(e), TimersInv(e),
         StopInv(e), MicroInv(e), StepOf(e)
  PROVE  MicroInv(e)'
<1>. USE DEF Goto, At, control, condition, clock
<1>0. /\ pc \in [Env -> Location] /\ failed \in [Env -> SUBSET Site]
      /\ logical_time \in [Env -> NatTag]
      /\ event_queue \in [Env -> SUBSET NatEvent]
      /\ continue_execution \in [Env -> BOOLEAN]
  BY DEF TypeInv
<1>b. "delay" \notin failed[e]
  BY DEF MicroInv
<1>1. CASE InsertsOne(e)
  <2>1. PICK tag \in NatTag, a \in Action \cup {NoAction} : Inserts(e, tag, a)
    BY <1>1 DEF InsertsOne
  <2>2. /\ event_queue'[e] = event_queue[e] \cup {EventAt(tag, a)}
        /\ EventAt(tag, a).tag.micro_step <= MaxMicro
        /\ UNCHANGED <<pc, logical_time, control>>
        /\ "delay" \notin failed'[e]
    BY <1>0, <1>b, <2>1 DEF Inserts, EventAt, NoOverflowAssumptions
  <2>. QED
    BY <2>2, MicroFrame DEF Started
<1>2. CASE WaitForEvent(e) \/ Select(e) \/ WakeUp(e) \/ SpuriousWakeUp(e) \/ TimeOut(e)
           \/ EndReactions(e) \/ Notify(e) \/ ReleaseEmpty(e)
  <2>1. /\ UNCHANGED <<event_queue, logical_time, control>>
        /\ "delay" \notin failed'[e]
    BY <1>0, <1>2, <1>b DEF WaitForEvent, Select, WakeUp, SpuriousWakeUp, TimeOut, EndReactions, Notify,
                            ReleaseEmpty, ReleaseCurrentTag, Check
  <2>2. pc'[e] = pc[e] \/ (Started(e) /\ pc'[e] \notin {"startup", "start", "react"})
    BY <1>0, <1>2 DEF WaitForEvent, Idle, Select, WakeUp, SpuriousWakeUp, Waiting, TimeOut,
                      EndReactions, Notify, ReleaseEmpty, Started
  <2>. QED
    BY <2>1, <2>2, MicroFrame DEF Started
<1>3. CASE Stop(e)
  <2>. DEFINE next == delay(logical_time[e], 0)
              last == event_queue[e] # {} /\ next_tag(event_queue[e]) = next
  <2>1. stop[e] /\ ~Overflows(logical_time[e], 0) /\ continue_execution[e] /\ Started(e)
    BY <1>0, <1>3 DEF Stop, Stopping, StopInv, RequestInv, LastInv, NoOverflowAssumptions,
                      AllHaveTriggers, Started
  <2>2. last
    BY <2>1, ShutdownNext DEF NoOverflowAssumptions, AllHaveTriggers
  <2>3. /\ logical_time'[e] = next /\ event_queue'[e] \subseteq event_queue[e]
        /\ UNCHANGED <<stop, phase, failed>> /\ ~continue_execution'[e]
        /\ pc'[e] \in {"loop", "react"}
    BY <1>0, <1>3, <2>2 DEF Stop, Without
  <2>. QED
    BY <2>1, <2>2, <2>3, MicroMoved
<1>4. CASE Take(e)
  <2>. DEFINE tag == next_tag(event_queue[e])
  <2>1. event_queue[e] # {} /\ t_next[e] = tag /\ Started(e) /\ ~stop[e]
    BY <1>4 DEF Take, ClockInv, Started, StopInv, RequestInv, NoOverflowAssumptions, AllHaveTriggers
  <2>2. logical_time[e] \prec tag
    BY <2>1, TakenLater
  <2>3. /\ logical_time'[e] = tag /\ event_queue'[e] \subseteq event_queue[e]
        /\ UNCHANGED <<stop, phase>> /\ failed'[e] = failed[e]
        /\ pc'[e] \in {"release", "react"}
    BY <1>0, <1>4, <2>1, <2>2 DEF Take, Check, Without
  <2>. QED
    BY <2>1, <2>3, MicroMoved
<1>. QED
  BY <1>1, <1>2, <1>3, <1>4, StepShapes, MicroStarted, MicroBegun, MicroCleaned, MicroRequested,
     NoCrash DEF OwnSteps

LEMMA MicroInvariance ==
  ASSUME NoOverflowAssumptions
  PROVE  Spec => []\A e \in Env : MicroInv(e)
<1>. DEFINE Stopped == TypeInv /\ \A e \in Env : ClockInv(e) /\ FutureInv(e) /\ StopInv(e)
            Timers == TypeInv /\ \A e \in Env : ClockInv(e) /\ TimersInv(e)
            Micro == \A e \in Env : MicroInv(e)
<1>1. Init => Micro
  BY DEF Init, MicroInv, Started, At
<1>2. Stopped /\ Timers /\ Micro /\ [Next]_vars => Micro'
  <2>. SUFFICES ASSUME Stopped, Timers, Micro, [Next]_vars, NEW f \in Env PROVE MicroInv(f)'
    OBVIOUS
  <2>0. TypeInv /\ ClockInv(f) /\ FutureInv(f) /\ TimersInv(f) /\ StopInv(f) /\ MicroInv(f)
    OBVIOUS
  <2>a. "delay" \notin failed[f]
    BY <2>0 DEF MicroInv
  <2>1. CASE UNCHANGED vars \/ Tick
    BY <2>0, <2>1, <2>a, MicroFrame DEF vars, Tick, condition, control, Started, At
  <2>2. ASSUME NEW e \in Env, StepOf(e)
        PROVE  MicroInv(f)'
    <3>1. CASE e = f
      BY NoOverflowAssumptions, <2>0, <2>2, <3>1, MicroStep
    <3>2. CASE e # f
      BY <2>0, <2>2, <2>a, <3>2, Local, LocalControl, MicroFrame DEF Started, At
    <3>. QED
      BY <3>1, <3>2
  <2>. QED
    BY <2>1, <2>2 DEF Next, StepOf
<1>. HIDE DEF Stopped, Timers, Micro
<1>3. Spec => []Stopped
  BY StopInvariance DEF Stopped, NoOverflowAssumptions
<1>4. Spec => []Timers
  BY TimersInvariance DEF Timers
<1>5. Spec => []Micro
  BY <1>1, <1>2, <1>3, <1>4, PTL DEF Spec
<1>. QED
  BY <1>5 DEF Micro

(* No assertion and no validation of the scheduler fails, in any execution *)
(* in which the clock is past the tags that have been waited for, every    *)
(* environment has a shutdown trigger and something to begin with, and     *)
(* tags given from outside have small microsteps.  In particular the       *)
(* validation in Tag::delay, which would terminate the program, holds      *)
(* wherever a shutdown is requested.                                       *)
THEOREM NoAssertionFails ==
  ASSUME NoOverflowAssumptions
  PROVE  Spec => []NothingFails
<1>. DEFINE Future == TypeInv /\ \A e \in Env : ClockInv(e) /\ FutureInv(e)
            Advance == \A e \in Env : AdvanceInv(e)
            Micro == \A e \in Env : MicroInv(e)
<1>1. Future /\ Advance /\ Micro => NothingFails
  <2>. SUFFICES ASSUME Future, Advance, Micro, NEW e \in Env PROVE failed[e] = {}
    BY DEF NothingFails
  <2>. QED
    BY DEF TypeInv, Site, FutureInv, AdvanceInv, MicroInv
<1>. HIDE DEF Future, Advance, Micro
<1>2. Spec => []Future
  BY ClockIsPastForAll, FutureInvariance DEF Future, NoOverflowAssumptions
<1>3. Spec => []Advance
  BY AdvanceInvariance DEF Advance, NoOverflowAssumptions
<1>4. Spec => []Micro
  BY MicroInvariance DEF Micro
<1>. QED
  BY <1>1, <1>2, <1>3, <1>4, PTL

=============================================================================
