-------------------------- MODULE SchedulerProofs --------------------------
(***************************************************************************)
(* Proofs about Scheduler, for all sets of environments, actions, timers,  *)
(* tags and delays.                                                        *)
(***************************************************************************)
EXTENDS Scheduler, TagProofs, WellFoundedInduction

(* All times are counted from the epoch. *)
NatTag == [time : Nat, micro_step : Microstep]
NatEvent == [tag : NatTag, action : Action \cup {NoAction}]

LEMMA NatTags ==
  /\ NatTag \subseteq Tag
  /\ \A tag \in NatTag, d \in Nat : delay(tag, d) \in NatTag
  /\ start_tag \in NatTag
  /\ decrement(start_tag) \in NatTag
  /\ start_tag.time = StartTime /\ start_tag.micro_step = 0
  /\ decrement(start_tag) = TagAt(StartTime - 1, MaxMicrostep)
  /\ TagAt(0, 0) \in NatTag
<1>0. /\ 0 \in Microstep /\ MaxMicrostep \in Microstep
      /\ StartTime \in Nat /\ StartTime - 1 \in Nat
  BY MaxMicrostepAssumption, TimeAssumption DEF Microstep
<1>1. NatTag \subseteq Tag
  BY DEF NatTag, Tag
<1>2. ASSUME NEW tag \in NatTag, NEW d \in Nat
      PROVE  delay(tag, d) \in NatTag
  <2>1. delay(tag, d) \in Tag
    BY <1>1, TagTypes
  <2>2. delay(tag, d).time \in Nat
    BY DEF delay, TagAt, NatTag
  <2>. QED
    BY <2>1, <2>2 DEF NatTag, Tag, delay, TagAt
<1>3. start_tag = TagAt(StartTime, 0)
  BY DEF start_tag, from_physical_time
<1>4. start_tag \in NatTag /\ start_tag.time = StartTime /\ start_tag.micro_step = 0
  BY <1>0, <1>3 DEF TagAt, NatTag
<1>5. decrement(start_tag) = TagAt(StartTime - 1, MaxMicrostep)
  BY <1>4 DEF decrement
<1>6. decrement(start_tag) \in NatTag
  BY <1>0, <1>5 DEF TagAt, NatTag
<1>7. TagAt(0, 0) \in NatTag
  BY <1>0 DEF TagAt, NatTag
<1>. QED
  BY <1>1, <1>2, <1>4, <1>5, <1>6, <1>7

(* EventQueue::next_tag returns the earliest of the queued tags: there is  *)
(* one in any queue that is not empty.                                     *)
LEMMA NextTag ==
  ASSUME NEW queue \in SUBSET NatEvent, queue # {}
  PROVE  /\ next_tag(queue) \in QueuedTags(queue)
         /\ next_tag(queue) \in NatTag
         /\ \A event \in queue : next_tag(queue) \preceq event.tag
<1>1. QueuedTags(queue) # {} /\ QueuedTags(queue) \subseteq NatTag
  BY DEF QueuedTags, NatEvent
<1>2. ASSUME NEW S \in SUBSET Nat, S # {}
      PROVE  \E n \in S : \A k \in S : n <= k
  <2>. DEFINE Smaller == {pair \in Nat \X Nat : pair[1] < pair[2]}
  <2>0. IsWellFoundedOn(Smaller, Nat)
    BY NatLessThanWellFounded DEF OpToRel
  <2>. HIDE DEF Smaller
  <2>1. PICK n \in S : \A k \in S : ~(<<k, n>> \in Smaller)
    BY <1>2, <2>0, WFMin
  <2>2. ASSUME NEW k \in S PROVE n <= k
    <3>1. k \in Nat /\ n \in Nat /\ <<k, n>> \in Nat \X Nat
      BY <1>2
    <3>2. ~(k < n)
      BY <2>1, <3>1 DEF Smaller
    <3>. QED
      BY <3>1, <3>2
  <2>. QED
    BY <2>2
<1>3. PICK t \in {tag.time : tag \in QueuedTags(queue)} :
        \A u \in {tag.time : tag \in QueuedTags(queue)} : t <= u
  <2>1. {tag.time : tag \in QueuedTags(queue)} \subseteq Nat
    BY <1>1 DEF NatTag
  <2>2. {tag.time : tag \in QueuedTags(queue)} # {}
    BY <1>1
  <2>. QED
    BY <2>1, <2>2, <1>2
<1>. DEFINE First == {tag \in QueuedTags(queue) : tag.time = t}
<1>4. PICK m \in {tag.micro_step : tag \in First} :
        \A n \in {tag.micro_step : tag \in First} : m <= n
  <2>1. {tag.micro_step : tag \in First} \subseteq Nat
    BY <1>1, MaxMicrostepAssumption DEF NatTag, Microstep
  <2>2. {tag.micro_step : tag \in First} # {}
    BY <1>3
  <2>. QED
    BY <2>1, <2>2, <1>2
<1>5. PICK first \in First : first.micro_step = m
  BY <1>4
<1>6. \A other \in QueuedTags(queue) : first \preceq other
  <2>. SUFFICES ASSUME NEW other \in QueuedTags(queue) PROVE first \preceq other
    OBVIOUS
  <2>1. first \in NatTag /\ other \in NatTag
    BY <1>1
  <2>2. first.time <= other.time
    BY <1>3
  <2>3. other.time = first.time => first.micro_step <= other.micro_step
    BY <1>4, <1>5
  <2>. QED
    BY <2>1, <2>2, <2>3, MaxMicrostepAssumption DEF \preceq, \prec, Less, NatTag, Microstep
<1>7. /\ next_tag(queue) \in QueuedTags(queue)
      /\ \A other \in QueuedTags(queue) : next_tag(queue) \preceq other
  BY <1>6 DEF next_tag
<1>. QED
  BY <1>1, <1>7 DEF QueuedTags

-----------------------------------------------------------------------------

TypeInv ==
  /\ pc \in [Env -> Location]
  /\ logical_time \in [Env -> NatTag]
  /\ event_queue \in [Env -> SUBSET NatEvent]
  /\ triggered_actions \in [Env -> SUBSET Action]
  /\ t_next \in [Env -> NatTag]
  /\ continue_execution \in [Env -> BOOLEAN]
  /\ stop \in [Env -> BOOLEAN]
  /\ phase \in [Env -> {"Assembly", "Execution", "Shutdown", "Deconstruction"}]
  /\ notified \in [Env -> BOOLEAN]
  /\ notifications \in [Env -> Nat]
  /\ released_time \in [Env -> NatTag]
  /\ failed \in [Env -> SUBSET Site]
  /\ physical_time \in Nat /\ StartTime <= physical_time
  /\ calls \in Nat

LEMMA EventTypes ==
  \A tag \in NatTag, a \in Action \cup {NoAction} :
    EventAt(tag, a) \in NatEvent /\ EventAt(tag, a).tag = tag /\ EventAt(tag, a).action = a
BY DEF EventAt, NatEvent

LEMMA InTypes == \A e \in Env, S \in SUBSET Action : In(e, S) \subseteq S
BY DEF In

(* The actions of a tag, and what is left in the queue without them *)
LEMMA ListTypes ==
  ASSUME NEW queue \in SUBSET NatEvent, NEW tag
  PROVE  List(queue, tag) \subseteq Action /\ Without(queue, tag) \subseteq queue
BY DEF List, Without, NatEvent

(* All events that the actions insert are well-formed. *)
LEMMA InsertedTypes ==
  ASSUME TypeInv, NEW e \in Env
  PROVE  /\ \A t \in In(e, Timer) : EventAt(IF offset[t] = 0 THEN start_tag ELSE delay(start_tag, offset[t]), t) \in NatEvent
         /\ HasTimeout => \A s \in In(e, ShutdownTrigger) : EventAt(timeout_tag, s) \in NatEvent
         /\ Rearmed(e) \subseteq NatEvent
         /\ ShutdownEvents(e) \subseteq NatEvent
<1>1. In(e, Timer) \subseteq Timer /\ In(e, ShutdownTrigger) \subseteq ShutdownTrigger
  BY DEF In
<1>2. Timer \subseteq Action /\ ShutdownTrigger \subseteq Action
  BY DEF Action
<1>3. logical_time[e] \in NatTag
  BY DEF TypeInv
<1>4. ASSUME NEW t \in In(e, Timer)
      PROVE  EventAt(IF offset[t] = 0 THEN start_tag ELSE delay(start_tag, offset[t]), t) \in NatEvent
  <2>1. offset[t] \in Nat
    BY <1>1, TimeAssumption
  <2>. QED
    BY <1>1, <1>2, <2>1, NatTags, EventTypes
<1>5. HasTimeout => timeout_tag \in NatTag
  BY TimeAssumption, NatTags DEF HasTimeout, timeout_tag
<1>6. Rearmed(e) \subseteq NatEvent
  <2>1. \A t \in Timer : delay(logical_time[e], period[t]) \in NatTag
    BY <1>3, TimeAssumption, NatTags
  <2>. QED
    BY <1>1, <1>2, <2>1, EventTypes DEF Rearmed
<1>7. ShutdownEvents(e) \subseteq NatEvent
  <2>1. delay(logical_time[e], 0) \in NatTag
    BY <1>3, NatTags
  <2>. QED
    BY <1>1, <1>2, <2>1, EventTypes DEF ShutdownEvents
<1>. QED
  BY <1>1, <1>2, <1>4, <1>5, <1>6, <1>7, EventTypes

LEMMA TypeStep ==
  ASSUME TypeInv, [Next]_vars
  PROVE  TypeInv'
<1>0. CASE UNCHANGED vars
  BY <1>0 DEF TypeInv, vars, control, condition, clock
<1>1. CASE Tick
  BY <1>1, TimeAssumption DEF TypeInv, Tick, control, condition
<1>2. ASSUME NEW e \in Env, Proceed(e) \/ Notify(e) \/ React(e) \/ Disturb(e)
      PROVE  TypeInv'
  <2>. USE DEF Goto, Check, Site, Location, control, condition, clock
  <2>1. CASE Startup(e)
    <3>. DEFINE first(t) == IF offset[t] = 0 THEN start_tag ELSE delay(start_tag, offset[t])
                events == {EventAt(first(t), t) : t \in In(e, Timer)}
                          \cup {EventAt(timeout_tag, s) : s \in IF HasTimeout THEN In(e, ShutdownTrigger) ELSE {}}
    <3>1. events \subseteq NatEvent
      BY InsertedTypes
    <3>2. Insert(e, events) /\ Check(e, "schedule_sync", AllLater(e, events))
      BY <2>1 DEF Startup
    <3>. HIDE DEF events
    <3>. QED
      BY <2>1, <3>1, <3>2 DEF Startup, TypeInv, Insert
  <2>2. CASE start(e)
    <3>. {v \in event_queue[e] : decrement(start_tag) \prec v.tag} \subseteq NatEvent
      BY DEF TypeInv
    <3>. QED
      BY <2>2, NatTags DEF start, TypeInv
  <2>3. CASE CleanupAfterTag(e)
    BY <2>3, InsertedTypes DEF CleanupAfterTag, ReleaseCurrentTag, Insert, TypeInv
  <2>4. CASE WaitForEvent(e)
    BY <2>4 DEF WaitForEvent, TypeInv
  <2>5. CASE IdleShutdown(e)
    BY <2>5, InsertedTypes DEF IdleShutdown, sync_shutdown, Insert, TypeInv
  <2>6. CASE IdleCrash(e) \/ StopCrash(e) \/ ReactionCrash(e) \/ AsyncShutdownCrash(e)
    BY <2>6 DEF IdleCrash, StopCrash, ReactionCrash, AsyncShutdownCrash, ShutdownCrash, Crash, TypeInv
  <2>7. CASE Stop(e)
    <3>1. /\ delay(logical_time[e], 0) \in NatTag
          /\ event_queue[e] \in SUBSET NatEvent
      BY NatTags DEF TypeInv
    <3>. DEFINE next == delay(logical_time[e], 0)
    <3>2. /\ List(event_queue[e], next) \subseteq Action
          /\ Without(event_queue[e], next) \subseteq NatEvent
      BY <3>1, ListTypes
    <3>. QED
      BY <2>7, <3>1, <3>2 DEF Stop, TypeInv
  <2>8. CASE Select(e)
    BY <2>8, NextTag DEF Select, TypeInv
  <2>9. CASE WakeUp(e) \/ SpuriousWakeUp(e) \/ TimeOut(e)
    BY <2>9 DEF WakeUp, SpuriousWakeUp, TimeOut, TypeInv
  <2>10. CASE Take(e)
    <3>. DEFINE tag == next_tag(event_queue[e])
    <3>1. /\ List(event_queue[e], tag) \subseteq Action
          /\ Without(event_queue[e], tag) \subseteq NatEvent
      <4>. event_queue[e] \in SUBSET NatEvent
        BY DEF TypeInv
      <4>. QED
        BY ListTypes
    <3>. QED
      BY <2>10, <3>1 DEF Take, TypeInv
  <2>11. CASE ReleaseEmpty(e) \/ EndReactions(e)
    BY <2>11 DEF ReleaseEmpty, ReleaseCurrentTag, EndReactions, TypeInv
  <2>12. CASE React(e)
    <3>1. ASSUME NEW a \in In(e, LogicalAction), NEW d \in Delay, ScheduleSync(a, d)
          PROVE  TypeInv'
      <4>1. environment[a] = e /\ a \in Action
        BY DEF In, Action
      <4>2. delay(logical_time[e], d) \in NatTag
        BY NatTags, TimeAssumption DEF TypeInv
      <4>3. EventAt(delay(logical_time[e], d), a) \in NatEvent
        BY <4>1, <4>2, EventTypes
      <4>. QED
        BY <3>1, <4>1, <4>3 DEF ScheduleSync, Insert, TypeInv
    <3>2. ASSUME NEW a \in In(e, LogicalAction), NEW tag \in GivenTag, ScheduleSyncAt(a, tag)
          PROVE  TypeInv'
      <4>1. environment[a] = e /\ a \in Action
        BY DEF In, Action
      <4>2. EventAt(tag, a) \in NatEvent
        BY <4>1, EventTypes, TimeAssumption DEF NatTag
      <4>. QED
        BY <3>2, <4>1, <4>2 DEF ScheduleSyncAt, Insert, TypeInv
    <3>3. CASE ReactionShutdown(e)
      BY <3>3, InsertedTypes DEF ReactionShutdown, sync_shutdown, Insert, TypeInv
    <3>. QED
      BY <2>6, <2>12, <3>1, <3>2, <3>3 DEF React
  <2>13. CASE Notify(e)
    BY <2>13 DEF Notify, Waiting, TypeInv
  <2>14. CASE Disturb(e)
    <3>1. ASSUME NEW a \in In(e, PhysicalAction), NEW d \in AsyncDelay, ScheduleAsync(a, d)
          PROVE  TypeInv'
      <4>1. environment[a] = e /\ a \in Action
        BY DEF In, Action
      <4>2. from_physical_time(physical_time + d) \in NatTag
        BY TimeAssumption, MaxMicrostepAssumption
           DEF TypeInv, from_physical_time, TagAt, NatTag, Microstep
      <4>3. EventAt(from_physical_time(physical_time + d), a) \in NatEvent
        BY <4>1, <4>2, EventTypes
      <4>. QED
        BY <3>1, <4>1, <4>3 DEF ScheduleAsync, Call, Insert, WillNotify, TypeInv
    <3>2. ASSUME NEW a \in Action \cup {NoAction}, NEW tag \in GivenTag, InsertAsyncAt(e, tag, a)
          PROVE  TypeInv'
      <4>1. EventAt(tag, a) \in NatEvent
        BY EventTypes, TimeAssumption DEF NatTag
      <4>. QED
        BY <3>2, <4>1 DEF InsertAsyncAt, Call, Insert, WillNotify, TypeInv
    <3>3. ASSUME NEW tag \in GivenTag, ScheduleEmpty(e, tag)
          PROVE  TypeInv'
      BY <3>2, <3>3 DEF ScheduleEmpty
    <3>4. ASSUME NEW a \in In(e, PhysicalAction), NEW tag \in GivenTag, ScheduleAsyncAt(a, tag)
          PROVE  TypeInv'
      <4>1. environment[a] = e /\ a \in Action
        BY DEF In, Action
      <4>. QED
        BY <3>2, <3>4, <4>1 DEF ScheduleAsyncAt
    <3>5. CASE AsyncShutdown(e)
      BY <3>5, InsertedTypes DEF AsyncShutdown, sync_shutdown, Call, Insert, Waiting, TypeInv
    <3>. QED
      BY <2>6, <2>9, <2>14, <3>1, <3>3, <3>4, <3>5 DEF Disturb
  <2>. QED
    BY <1>2, <2>1, <2>2, <2>3, <2>4, <2>5, <2>6, <2>7, <2>8, <2>9, <2>10, <2>11, <2>12, <2>13,
       <2>14 DEF Proceed
<1>. QED
  BY <1>0, <1>1, <1>2 DEF Next

(* Every variable keeps its type; in particular, microsteps keep within    *)
(* their width, whoever computes them.                                     *)
THEOREM TypeCorrect == Spec => []TypeOK
<1>1. Init => TypeInv
  BY NatTags, TimeAssumption DEF Init, TypeInv, Location, Site
<1>2. TypeInv => TypeOK
  <2>. SUFFICES ASSUME TypeInv PROVE TypeOK
    OBVIOUS
  <2>1. NatTag \subseteq Tag /\ NatEvent \subseteq Event
    BY NatTags DEF NatEvent, Event
  <2>. QED
    BY <2>1 DEF TypeInv, TypeOK
<1>3. TypeInv /\ [Next]_vars => TypeInv'
  BY TypeStep
<1>. QED
  BY <1>1, <1>2, <1>3, PTL DEF Spec

-----------------------------------------------------------------------------
(* The physical clock *)

(* A tag that is about to be processed, and the one that is processed, are *)
(* in the past.  While a scheduler waits for a tag, its queue cannot       *)
(* become empty; when it takes the tag, it is still the first one.         *)
ClockInv(e) ==
  /\ WaitsForClock(e) => Reached(logical_time[e].time)
  /\ pc[e] \in {"startup", "start"} => logical_time[e] = TagAt(0, 0)
  /\ At(e, "await_time") => event_queue[e] # {}
  /\ At(e, "take") => /\ event_queue[e] # {}
                      /\ t_next[e] = next_tag(event_queue[e])
                      /\ WaitsForClock(e) => Reached(t_next[e].time)

StepOf(e) == Proceed(e) \/ Notify(e) \/ React(e) \/ Disturb(e)

(* The steps of one environment do not touch the others. *)
LEMMA Local ==
  ASSUME TypeInv, NEW e \in Env, StepOf(e), NEW f \in Env, f # e
  PROVE  /\ pc'[f] = pc[f] /\ logical_time'[f] = logical_time[f]
         /\ event_queue'[f] = event_queue[f] /\ t_next'[f] = t_next[f]
         /\ triggered_actions'[f] = triggered_actions[f]
         /\ released_time'[f] = released_time[f] /\ failed'[f] = failed[f]
         /\ physical_time' = physical_time
<1>. USE DEF Goto, Check, Insert, control, condition, clock, Crash, ShutdownCrash, sync_shutdown,
             TypeInv
<1>1. CASE Proceed(e)
  <2>1. CASE Startup(e) \/ start(e) \/ CleanupAfterTag(e)
    BY <2>1 DEF Startup, start, CleanupAfterTag, ReleaseCurrentTag
  <2>2. CASE WaitForEvent(e) \/ IdleShutdown(e) \/ IdleCrash(e)
    BY <2>2 DEF WaitForEvent, IdleShutdown, IdleCrash
  <2>3. CASE Stop(e)
    BY <2>3 DEF Stop
  <2>4. CASE StopCrash(e) \/ Select(e) \/ WakeUp(e) \/ TimeOut(e)
    BY <2>4 DEF StopCrash, Select, WakeUp, TimeOut
  <2>5. CASE Take(e) \/ ReleaseEmpty(e) \/ EndReactions(e)
    BY <2>5 DEF Take, ReleaseEmpty, ReleaseCurrentTag, EndReactions
  <2>. QED
    BY <1>1, <2>1, <2>2, <2>3, <2>4, <2>5 DEF Proceed
<1>2. CASE Notify(e)
  BY <1>2 DEF Notify
<1>3. ASSUME NEW a, environment[a] = e,
             \/ \E d : ScheduleSync(a, d) \/ ScheduleAsync(a, d)
             \/ \E tag : ScheduleSyncAt(a, tag)
      PROVE  /\ event_queue'[f] = event_queue[f] /\ failed'[f] = failed[f]
             /\ UNCHANGED <<pc, logical_time, t_next, triggered_actions, released_time, physical_time>>
  BY <1>3 DEF ScheduleSync, ScheduleAsync, ScheduleSyncAt, Call
<1>4. ASSUME NEW a, NEW tag, InsertAsyncAt(e, tag, a)
      PROVE  /\ event_queue'[f] = event_queue[f] /\ failed'[f] = failed[f]
             /\ UNCHANGED <<pc, logical_time, t_next, triggered_actions, released_time, physical_time>>
  BY <1>4 DEF InsertAsyncAt
<1>5. CASE React(e)
  <2>1. \A a \in In(e, LogicalAction) : environment[a] = e
    BY DEF In
  <2>2. CASE ReactionShutdown(e) \/ ReactionCrash(e)
    BY <2>2 DEF ReactionShutdown, ReactionCrash
  <2>. QED
    BY <1>3, <1>5, <2>1, <2>2 DEF React
<1>6. CASE Disturb(e)
  <2>1. \A a \in In(e, PhysicalAction) : environment[a] = e
    BY DEF In
  <2>2. CASE AsyncShutdown(e) \/ AsyncShutdownCrash(e) \/ SpuriousWakeUp(e)
    BY <2>2 DEF AsyncShutdown, AsyncShutdownCrash, SpuriousWakeUp
  <2>. QED
    BY <1>3, <1>4, <1>6, <2>1, <2>2 DEF Disturb, ScheduleAsyncAt, ScheduleEmpty
<1>. QED
  BY <1>1, <1>2, <1>5, <1>6 DEF StepOf

(* What does not move the scheduler, and inserts events at most while it   *)
(* is not about to take one, keeps the invariant.                          *)
LEMMA ClockFrame ==
  ASSUME TypeInv, NEW e \in Env, ClockInv(e),
         pc'[e] = pc[e], logical_time'[e] = logical_time[e], t_next'[e] = t_next[e],
         physical_time' \in Nat, physical_time <= physical_time',
         event_queue[e] \subseteq event_queue'[e],
         At(e, "take") => event_queue'[e] = event_queue[e]
  PROVE  ClockInv(e)'
<1>1. logical_time[e].time \in Nat /\ t_next[e].time \in Nat /\ physical_time \in Nat
  BY DEF TypeInv, NatTag
<1>2. \A time \in Nat : Reached(time) => Reached(time)'
  BY <1>1 DEF Reached
<1>3. WaitsForClock(e)' <=> WaitsForClock(e)
  BY DEF WaitsForClock
<1>. QED
  BY <1>1, <1>2, <1>3 DEF ClockInv, At

LEMMA ClockStep ==
  ASSUME TypeInv, NEW e \in Env, ClockInv(e), StepOf(e)
  PROVE  ClockInv(e)'
<1>. USE DEF Goto, At, control, condition, clock
<1>0. /\ pc \in [Env -> Location] /\ logical_time[e] \in NatTag /\ t_next[e] \in NatTag
      /\ event_queue[e] \in SUBSET NatEvent
      /\ event_queue \in [Env -> SUBSET NatEvent]
      /\ logical_time \in [Env -> NatTag] /\ t_next \in [Env -> NatTag]
      /\ physical_time \in Nat /\ StartTime <= physical_time
  BY DEF TypeInv
<1>a. WaitsForClock(e)' <=> WaitsForClock(e)
  BY DEF WaitsForClock
<1>b. (physical_time' = physical_time) => \A time : Reached(time)' <=> Reached(time)
  BY DEF Reached
<1>1. ASSUME Startup(e) \/ CleanupAfterTag(e) \/ ReleaseEmpty(e) \/ EndReactions(e)
             \/ WaitForEvent(e) \/ IdleShutdown(e)
             \/ IdleCrash(e) \/ StopCrash(e) \/ ReactionCrash(e) \/ AsyncShutdownCrash(e)
      PROVE  ClockInv(e)'
  BY <1>0, <1>1, <1>a, <1>b
     DEF Startup, CleanupAfterTag, ReleaseEmpty, EndReactions, WaitForEvent, IdleShutdown, Idle,
         IdleCrash, StopCrash, ReactionCrash, AsyncShutdownCrash, ShutdownCrash, Crash, ClockInv
<1>2. CASE start(e)
  <2>1. logical_time'[e].time = StartTime - 1
    BY <1>0, <1>2, NatTags DEF start, TagAt
  <2>2. Reached(StartTime - 1)
    BY <1>0, TimeAssumption DEF Reached
  <2>. QED
    BY <1>0, <1>2, <1>a, <1>b, <2>1, <2>2 DEF start, ClockInv
<1>3. CASE Stop(e)
  <2>1. delay(logical_time[e], 0).time = logical_time[e].time
    BY DEF delay, TagAt
  <2>. QED
    BY <1>0, <1>3, <1>a, <1>b, <2>1 DEF Stop, Stopping, ClockInv
<1>4. CASE Select(e)
  <2>1. next_tag(event_queue[e]) \in NatTag
    BY <1>0, <1>4, NextTag DEF Select
  <2>2. \A time \in Nat : time < physical_time => Reached(time)
    BY <1>0 DEF Reached
  <2>. QED
    BY <1>0, <1>4, <1>a, <1>b, <2>1, <2>2 DEF Select, ClockInv, NatTag
<1>5. CASE WakeUp(e) \/ SpuriousWakeUp(e)
  BY <1>0, <1>5, <1>a, <1>b DEF WakeUp, SpuriousWakeUp, Waiting, ClockInv
<1>6. CASE TimeOut(e)
  BY <1>0, <1>6, <1>a, <1>b DEF TimeOut, Interrupted, ClockInv
<1>7. CASE Take(e)
  BY <1>0, <1>7, <1>a, <1>b DEF Take, ClockInv
<1>8. CASE Notify(e) \/ ReactionShutdown(e) \/ AsyncShutdown(e)
  BY <1>0, <1>8, ClockFrame
     DEF Notify, ReactionShutdown, AsyncShutdown, AsyncAllowed, Locked, sync_shutdown, Insert
<1>9. ASSUME NEW a \in Action, environment[a] = e,
             \/ \E d : ScheduleSync(a, d) \/ ScheduleAsync(a, d)
             \/ \E tag : ScheduleSyncAt(a, tag)
      PROVE  ClockInv(e)'
  BY <1>0, <1>9, ClockFrame
     DEF ScheduleSync, ScheduleAsync, ScheduleSyncAt, Locked, Insert
<1>10. ASSUME NEW a, NEW tag, InsertAsyncAt(e, tag, a)
       PROVE  ClockInv(e)'
  BY <1>0, <1>10, ClockFrame DEF InsertAsyncAt, Locked, Insert
<1>11. \A S \in SUBSET Action : \A a \in In(e, S) : a \in Action /\ environment[a] = e
  BY DEF In
<1>12. LogicalAction \in SUBSET Action /\ PhysicalAction \in SUBSET Action
  BY DEF Action
<1>13. CASE React(e)
  BY <1>1, <1>8, <1>9, <1>11, <1>12, <1>13 DEF React
<1>14. CASE Disturb(e)
  BY <1>1, <1>5, <1>8, <1>9, <1>10, <1>11, <1>12, <1>14 DEF Disturb, ScheduleAsyncAt, ScheduleEmpty
<1>. QED
  BY <1>1, <1>2, <1>3, <1>4, <1>5, <1>6, <1>7, <1>8, <1>13, <1>14 DEF StepOf, Proceed

LEMMA ClockInvariance == Spec => [](TypeInv /\ \A e \in Env : ClockInv(e))
<1>. DEFINE Inv == TypeInv /\ \A e \in Env : ClockInv(e)
<1>1. Init => Inv
  <2>. SUFFICES ASSUME Init PROVE Inv
    OBVIOUS
  <2>1. TypeInv
    BY NatTags, TimeAssumption DEF Init, TypeInv, Location, Site
  <2>2. ASSUME NEW e \in Env PROVE ClockInv(e)
    BY TimeAssumption DEF Init, ClockInv, At, Reached, TagAt
  <2>. QED
    BY <2>1, <2>2
<1>2. Inv /\ [Next]_vars => Inv'
  <2>. SUFFICES ASSUME Inv, [Next]_vars PROVE Inv'
    OBVIOUS
  <2>0. TypeInv'
    BY TypeStep
  <2>. SUFFICES ASSUME NEW f \in Env PROVE ClockInv(f)'
    BY <2>0
  <2>1. CASE UNCHANGED vars
    BY <2>1, ClockFrame DEF vars, clock, TypeInv
  <2>2. CASE Tick
    BY <2>2, ClockFrame DEF Tick, TypeInv
  <2>3. ASSUME NEW e \in Env, StepOf(e) PROVE ClockInv(f)'
    <3>1. CASE f = e
      BY <2>3, <3>1, ClockStep
    <3>2. CASE f # e
      BY <2>3, <3>2, Local, ClockFrame DEF TypeInv
    <3>. QED
      BY <3>1, <3>2
  <2>. QED
    BY <2>1, <2>2, <2>3 DEF Next, StepOf
<1>. QED
  BY <1>1, <1>2, PTL DEF Spec

(* No tag is processed before the physical time has passed it, whatever    *)
(* interrupts the wait and whoever schedules -- except in fast forward     *)
(* mode without physical actions.                                          *)
THEOREM TagsAreNeverEarly == Spec => []NeverEarly
<1>1. (TypeInv /\ \A e \in Env : ClockInv(e)) => NeverEarly
  BY DEF ClockInv, NeverEarly
<1>. QED
  BY <1>1, ClockInvariance, PTL

-----------------------------------------------------------------------------
(* Events and the logical time *)

(* What the scheduling of physical actions relies on: a clock that is read *)
(* after a wake-up shows a time after the deadline.                        *)
AsyncIsLater == Latency \/ PhysicalAction = {}

FutureInv(e) ==
  /\ AllLater(e, event_queue[e])
  /\ released_time[e] \preceq logical_time[e]
  /\ At(e, "react") => released_time[e] \prec logical_time[e]
  /\ "schedule_sync" \notin failed[e]

LEMMA FutureFrame ==
  ASSUME NEW e \in Env, FutureInv(e),
         logical_time'[e] = logical_time[e], released_time'[e] = released_time[e],
         pc'[e] = "react" => pc[e] = "react",
         \A v \in event_queue'[e] : v \in event_queue[e] \/ logical_time[e] \prec v.tag,
         "schedule_sync" \notin failed'[e]
  PROVE  FutureInv(e)'
BY DEF FutureInv, AllLater, At, \preceq, \prec, Less

(* Whatever an action inserts lies in the future.                          *)
LEMMA InsertedLater ==
  ASSUME TypeInv, NEW e \in Env, ClockInv(e)
  PROVE  /\ AllLater(e, Rearmed(e))
         /\ ~ShutdownOverflows(e) => AllLater(e, ShutdownEvents(e))
         /\ \A d \in Delay : (d = 0 => logical_time[e].micro_step < MaxMicro) =>
              logical_time[e] \prec delay(logical_time[e], d)
<1>1. logical_time[e] \in Tag
  BY NatTags DEF TypeInv
<1>2. AllLater(e, Rearmed(e))
  <2>1. \A t \in Timer : period[t] # 0 => logical_time[e] \prec delay(logical_time[e], period[t])
    BY <1>1, DelayIsLater, TimeAssumption DEF Overflows
  <2>. QED
    BY <2>1 DEF AllLater, Rearmed, In, EventAt
<1>3. ~ShutdownOverflows(e) => AllLater(e, ShutdownEvents(e))
  <2>1. ~Overflows(logical_time[e], 0) => logical_time[e] \prec delay(logical_time[e], 0)
    BY <1>1, DelayIsLater
  <2>. QED
    BY <2>1 DEF AllLater, ShutdownEvents, ShutdownOverflows, EventAt
<1>4. ASSUME NEW d \in Delay, d = 0 => logical_time[e].micro_step < MaxMicro
      PROVE  logical_time[e] \prec delay(logical_time[e], d)
  <2>1. ~Overflows(logical_time[e], d)
    BY <1>1, <1>4, TimeAssumption, MaxMicrostepAssumption DEF Overflows, Tag, Microstep
  <2>. QED
    BY <1>1, <2>1, DelayIsLater, TimeAssumption
<1>. QED
  BY <1>2, <1>3, <1>4

LEMMA StartedLater ==
  ASSUME TypeInv, NEW e \in Env, ClockInv(e), At(e, "startup"), NEW d \in Nat
  PROVE  logical_time[e] \prec start_tag /\ logical_time[e] \prec delay(start_tag, d)
<1>1. logical_time[e] = TagAt(0, 0)
  BY DEF ClockInv, At
<1>2. logical_time[e].time = 0
  BY <1>1 DEF TagAt
<1>3. start_tag.time = StartTime /\ StartTime \in Nat /\ StartTime > 0
  BY NatTags, TimeAssumption
<1>4. delay(start_tag, d).time = start_tag.time + d
  BY <1>3 DEF delay, TagAt
<1>. QED
  BY <1>2, <1>3, <1>4 DEF \prec, Less

LEMMA AsyncLater ==
  ASSUME AsyncIsLater, TypeInv, NEW e \in Env, ClockInv(e),
         NEW a \in In(e, PhysicalAction), NEW d \in Nat
  PROVE  logical_time[e] \prec from_physical_time(physical_time + d)
<1>1. Latency /\ Reached(logical_time[e].time)
  BY DEF AsyncIsLater, ClockInv, WaitsForClock, In
<1>2. logical_time[e].time < physical_time
  BY <1>1 DEF Reached
<1>3. logical_time[e].time \in Nat /\ physical_time \in Nat
  BY DEF TypeInv, NatTag
<1>. QED
  BY <1>2, <1>3 DEF from_physical_time, TagAt, \prec, Less

(* The tag that is taken is later than the one before, and the events that *)
(* remain are later still.                                                 *)
LEMMA TakenLater ==
  ASSUME TypeInv, NEW e \in Env, FutureInv(e), event_queue[e] # {}
  PROVE  LET tag == next_tag(event_queue[e])
         IN  /\ logical_time[e] \prec tag
             /\ \A v \in Without(event_queue[e], tag) : tag \prec v.tag
             /\ released_time[e] \prec tag
<1>. DEFINE tag == next_tag(event_queue[e])
<1>1. /\ event_queue[e] \in SUBSET NatEvent
      /\ logical_time[e] \in Tag /\ released_time[e] \in Tag
  BY NatTags DEF TypeInv
<1>2. /\ tag \in QueuedTags(event_queue[e])
      /\ tag \in Tag
      /\ \A v \in event_queue[e] : tag \preceq v.tag
  BY <1>1, NextTag, NatTags
<1>3. logical_time[e] \prec tag
  BY <1>2 DEF QueuedTags, FutureInv, AllLater
<1>4. ASSUME NEW v \in Without(event_queue[e], tag) PROVE tag \prec v.tag
  <2>1. v \in event_queue[e] /\ v.tag # tag /\ v.tag \in Tag
    BY <1>1, NatTags DEF Without, NatEvent
  <2>. QED
    BY <1>2, <2>1, TagOrder
<1>5. released_time[e] \prec tag
  BY <1>1, <1>2, <1>3, TagOrder DEF FutureInv
<1>. QED
  BY <1>3, <1>4, <1>5

LEMMA FutureStep ==
  ASSUME AsyncIsLater, TypeInv, NEW e \in Env, ClockInv(e), FutureInv(e), StepOf(e)
  PROVE  FutureInv(e)'
<1>. USE DEF Goto, At, control, condition, clock
<1>0. /\ pc \in [Env -> Location] /\ logical_time[e] \in NatTag /\ released_time[e] \in NatTag
      /\ event_queue \in [Env -> SUBSET NatEvent]
      /\ logical_time \in [Env -> NatTag]
      /\ released_time \in [Env -> NatTag]
      /\ failed \in [Env -> SUBSET Site]
      /\ "schedule_sync" \notin failed[e]
  BY DEF TypeInv, FutureInv
<1>1. ASSUME NEW events, Insert(e, events), AllLater(e, events),
             logical_time'[e] = logical_time[e], released_time'[e] = released_time[e],
             pc'[e] = "react" => pc[e] = "react",
             failed'[e] = failed[e] \/ Check(e, "schedule_sync", AllLater(e, events))
      PROVE  FutureInv(e)'
  <2>1. \A v \in event_queue'[e] : v \in event_queue[e] \/ logical_time[e] \prec v.tag
    BY <1>0, <1>1 DEF Insert, AllLater
  <2>2. "schedule_sync" \notin failed'[e]
    BY <1>0, <1>1 DEF Check
  <2>. QED
    BY <1>1, <2>1, <2>2, FutureFrame
<1>2. CASE Startup(e)
  <2>. DEFINE first(t) == IF offset[t] = 0 THEN start_tag ELSE delay(start_tag, offset[t])
              events == {EventAt(first(t), t) : t \in In(e, Timer)}
                        \cup {EventAt(timeout_tag, s) : s \in IF HasTimeout THEN In(e, ShutdownTrigger) ELSE {}}
  <2>1. /\ Insert(e, events) /\ Check(e, "schedule_sync", AllLater(e, events))
        /\ logical_time' = logical_time /\ released_time' = released_time /\ pc'[e] = "start"
    BY <1>0, <1>2 DEF Startup
  <2>2. At(e, "startup")
    BY <1>2 DEF Startup
  <2>3. \A t \in In(e, Timer) : logical_time[e] \prec first(t)
    BY <2>2, StartedLater, TimeAssumption DEF In
  <2>4. HasTimeout => logical_time[e] \prec timeout_tag
    BY <2>2, StartedLater, TimeAssumption DEF HasTimeout, timeout_tag
  <2>5. AllLater(e, events)
    BY <2>3, <2>4 DEF AllLater, EventAt
  <2>. HIDE DEF events
  <2>. QED
    BY <1>1, <2>1, <2>5
<1>3. CASE start(e)
  <2>1. logical_time[e] = TagAt(0, 0)
    BY <1>3 DEF start, ClockInv
  <2>2. logical_time[e] \prec decrement(start_tag)
    BY <2>1, NatTags, TimeAssumption, MaxMicrostepAssumption DEF TagAt, \prec, Less
  <2>3. released_time[e] \preceq decrement(start_tag)
    BY <1>0, <2>2, NatTags, TagOrder DEF FutureInv
  <2>4. /\ logical_time'[e] = decrement(start_tag)
        /\ released_time'[e] = released_time[e]
        /\ event_queue'[e] = {v \in event_queue[e] : decrement(start_tag) \prec v.tag}
        /\ pc'[e] = "next"
        /\ failed'[e] \subseteq failed[e] \cup {"advance_to"}
    BY <1>0, <1>3 DEF start, Check
  <2>. QED
    BY <1>0, <2>3, <2>4 DEF FutureInv, AllLater, \preceq, \prec, Less
<1>4. CASE CleanupAfterTag(e)
  <2>1. /\ released_time'[e] = logical_time[e] /\ logical_time'[e] = logical_time[e]
        /\ event_queue'[e] = event_queue[e] \cup Rearmed(e)
        /\ pc'[e] # "react"
        /\ failed'[e] \subseteq failed[e] \cup {"advance_to"}
    BY <1>0, <1>4 DEF CleanupAfterTag, ReleaseCurrentTag, Insert, Check
  <2>2. logical_time[e] \preceq logical_time[e]
    BY <1>0, NatTags, TagOrder
  <2>3. \A v \in event_queue'[e] : logical_time[e] \prec v.tag
    BY <2>1, InsertedLater DEF FutureInv, AllLater
  <2>. QED
    BY <1>0, <2>1, <2>2, <2>3 DEF FutureInv, AllLater, \preceq, \prec, Less
<1>5. CASE ReleaseEmpty(e)
  <2>1. /\ released_time'[e] = logical_time[e] /\ logical_time'[e] = logical_time[e]
        /\ event_queue'[e] = event_queue[e]
        /\ pc'[e] # "react"
        /\ failed'[e] \subseteq failed[e] \cup {"advance_to"}
    BY <1>0, <1>5 DEF ReleaseEmpty, ReleaseCurrentTag, Check
  <2>2. logical_time[e] \preceq logical_time[e]
    BY <1>0, NatTags, TagOrder
  <2>. QED
    BY <1>0, <2>1, <2>2 DEF FutureInv, AllLater, \preceq, \prec, Less
<1>6. CASE WaitForEvent(e) \/ Select(e) \/ WakeUp(e) \/ SpuriousWakeUp(e) \/ TimeOut(e)
           \/ EndReactions(e) \/ Notify(e)
  <2>1. /\ logical_time'[e] = logical_time[e] /\ released_time'[e] = released_time[e]
        /\ event_queue'[e] = event_queue[e] /\ failed'[e] = failed[e]
        /\ pc'[e] = "react" => pc[e] = "react"
    BY <1>0, <1>6 DEF WaitForEvent, Select, WakeUp, SpuriousWakeUp, TimeOut, EndReactions, Notify
  <2>. QED
    BY <1>0, <2>1, FutureFrame
<1>7. CASE IdleCrash(e) \/ StopCrash(e) \/ ReactionCrash(e) \/ AsyncShutdownCrash(e)
  <2>1. Crash(e)
    BY <1>7 DEF IdleCrash, StopCrash, ReactionCrash, AsyncShutdownCrash, ShutdownCrash
  <2>2. /\ logical_time'[e] = logical_time[e] /\ released_time'[e] = released_time[e]
        /\ event_queue'[e] = event_queue[e] /\ failed'[e] \subseteq failed[e] \cup {"delay"}
        /\ pc'[e] = "crashed"
    BY <1>0, <2>1 DEF Crash, Check
  <2>. QED
    BY <1>0, <2>2, FutureFrame
<1>8. CASE IdleShutdown(e) \/ ReactionShutdown(e) \/ AsyncShutdown(e)
  <2>1. sync_shutdown(e)
    BY <1>8 DEF IdleShutdown, ReactionShutdown, AsyncShutdown
  <2>2. AllLater(e, ShutdownEvents(e))
    BY <2>1, InsertedLater DEF sync_shutdown
  <2>3. /\ logical_time'[e] = logical_time[e] /\ released_time'[e] = released_time[e]
        /\ pc'[e] = "react" => pc[e] = "react"
    BY <1>0, <1>8 DEF IdleShutdown, ReactionShutdown, AsyncShutdown
  <2>. QED
    BY <1>1, <2>1, <2>2, <2>3 DEF sync_shutdown
<1>9. CASE Stop(e)
  <2>. DEFINE next == delay(logical_time[e], 0)
  <2>1. /\ failed' = failed /\ released_time' = released_time
        /\ \/ /\ event_queue[e] # {} /\ next_tag(event_queue[e]) = next
              /\ event_queue' = [event_queue EXCEPT ![e] = Without(@, next)]
              /\ logical_time' = [logical_time EXCEPT ![e] = next]
           \/ pc' = [pc EXCEPT ![e] = "final"] /\ UNCHANGED <<event_queue, logical_time>>
    BY <1>9 DEF Stop
  <2>2. CASE event_queue[e] # {} /\ next_tag(event_queue[e]) = next
             /\ event_queue' = [event_queue EXCEPT ![e] = Without(@, next)]
             /\ logical_time' = [logical_time EXCEPT ![e] = next]
    <3>1. /\ \A v \in Without(event_queue[e], next) : next \prec v.tag
          /\ released_time[e] \prec next
      BY <2>2, TakenLater
    <3>2. /\ logical_time'[e] = next /\ event_queue'[e] = Without(event_queue[e], next)
          /\ released_time'[e] = released_time[e] /\ failed'[e] = failed[e]
      BY <1>0, <2>1, <2>2
    <3>3. next \in NatTag
      BY <1>0, NatTags
    <3>4. released_time[e] \preceq next
      BY <1>0, <3>1, <3>3, NatTags, TagOrder
    <3>. QED
      BY <1>0, <3>1, <3>2, <3>4 DEF FutureInv, AllLater, \preceq, \prec, Less
  <2>3. CASE pc' = [pc EXCEPT ![e] = "final"] /\ UNCHANGED <<event_queue, logical_time>>
    BY <1>0, <2>1, <2>3, FutureFrame
  <2>. QED
    BY <2>1, <2>2, <2>3
<1>10. CASE Take(e)
  <2>. DEFINE tag == next_tag(event_queue[e])
  <2>1. event_queue[e] # {} /\ t_next[e] = tag
    BY <1>10 DEF Take, ClockInv
  <2>2. /\ \A v \in Without(event_queue[e], tag) : tag \prec v.tag
        /\ released_time[e] \prec tag
    BY <2>1, TakenLater
  <2>3. /\ logical_time'[e] = tag /\ event_queue'[e] = Without(event_queue[e], tag)
        /\ released_time'[e] = released_time[e]
        /\ failed'[e] \subseteq failed[e] \cup {"advance_to"}
    BY <1>0, <1>10, <2>1 DEF Take, Check
  <2>4. released_time[e] \preceq tag
    BY <1>0, <2>1, <2>2, NextTag, NatTags, TagOrder
  <2>. QED
    BY <1>0, <2>2, <2>3, <2>4 DEF FutureInv, AllLater, \preceq, \prec, Less
<1>11. CASE React(e)
  <2>1. ASSUME NEW a \in In(e, LogicalAction), NEW d \in Delay, ScheduleSync(a, d)
        PROVE  FutureInv(e)'
    <3>1. environment[a] = e
      BY DEF In
    <3>2. logical_time[e] \prec delay(logical_time[e], d)
      BY <2>1, <3>1, InsertedLater DEF ScheduleSync
    <3>3. AllLater(e, {EventAt(delay(logical_time[e], d), a)})
      BY <3>2 DEF AllLater, EventAt
    <3>4. /\ Insert(e, {EventAt(delay(logical_time[e], d), a)})
          /\ Check(e, "schedule_sync", logical_time[e] \prec delay(logical_time[e], d))
          /\ UNCHANGED <<pc, logical_time, released_time>>
      BY <2>1, <3>1 DEF ScheduleSync
    <3>5. failed'[e] = failed[e]
      BY <1>0, <3>2, <3>4 DEF Check
    <3>. QED
      BY <1>1, <3>3, <3>4, <3>5
  <2>2. ASSUME NEW a \in In(e, LogicalAction), NEW tag \in GivenTag, ScheduleSyncAt(a, tag)
        PROVE  FutureInv(e)'
    <3>1. environment[a] = e
      BY DEF In
    <3>2. /\ AllLater(e, {EventAt(tag, a)})
          /\ Insert(e, {EventAt(tag, a)})
          /\ UNCHANGED <<pc, logical_time, released_time, failed>>
      BY <2>2, <3>1 DEF ScheduleSyncAt, AllLater, EventAt
    <3>. QED
      BY <1>1, <3>2
  <2>. QED
    BY <1>7, <1>8, <1>11, <2>1, <2>2 DEF React
<1>12. CASE Disturb(e)
  <2>1. ASSUME NEW a \in In(e, PhysicalAction), NEW d \in AsyncDelay, ScheduleAsync(a, d)
        PROVE  FutureInv(e)'
    <3>. DEFINE tag == from_physical_time(physical_time + d)
    <3>1. environment[a] = e
      BY DEF In
    <3>2. logical_time[e] \prec tag
      BY AsyncLater, TimeAssumption
    <3>3. AllLater(e, {EventAt(tag, a)})
      BY <3>2 DEF AllLater, EventAt
    <3>4. /\ Insert(e, {EventAt(tag, a)})
          /\ Check(e, "schedule_sync", logical_time[e] \prec tag)
          /\ UNCHANGED <<pc, logical_time, released_time>>
      BY <2>1, <3>1 DEF ScheduleAsync
    <3>5. failed'[e] = failed[e]
      BY <1>0, <3>2, <3>4 DEF Check
    <3>. QED
      BY <1>1, <3>3, <3>4, <3>5
  <2>2. ASSUME NEW a, NEW tag, InsertAsyncAt(e, tag, a)
        PROVE  FutureInv(e)'
    <3>1. /\ AllLater(e, {EventAt(tag, a)})
          /\ Insert(e, {EventAt(tag, a)})
          /\ UNCHANGED <<pc, logical_time, released_time, failed>>
      BY <2>2 DEF InsertAsyncAt, AllLater, EventAt
    <3>. QED
      BY <1>1, <3>1
  <2>3. \A a \in In(e, PhysicalAction) : environment[a] = e
    BY DEF In
  <2>. QED
    BY <1>6, <1>7, <1>8, <1>12, <2>1, <2>2, <2>3 DEF Disturb, ScheduleAsyncAt, ScheduleEmpty
<1>. QED
  BY <1>2, <1>3, <1>4, <1>5, <1>6, <1>7, <1>8, <1>9, <1>10, <1>11, <1>12 DEF StepOf, Proceed

LEMMA FutureInvariance ==
  ASSUME AsyncIsLater
  PROVE  Spec => [](TypeInv /\ \A e \in Env : ClockInv(e) /\ FutureInv(e))
<1>. DEFINE Clock == TypeInv /\ \A e \in Env : ClockInv(e)
            Future == \A e \in Env : FutureInv(e)
<1>1. Init => Future
  <2>. SUFFICES ASSUME Init, NEW e \in Env PROVE FutureInv(e)
    OBVIOUS
  <2>. QED
    BY NatTags, TagOrder DEF Init, FutureInv, AllLater, At
<1>2. Clock /\ Future /\ [Next]_vars => Future'
  <2>. SUFFICES ASSUME Clock, Future, [Next]_vars, NEW f \in Env PROVE FutureInv(f)'
    OBVIOUS
  <2>0. TypeInv /\ ClockInv(f) /\ FutureInv(f)
    OBVIOUS
  <2>1. CASE UNCHANGED vars \/ Tick
    BY <2>0, <2>1, FutureFrame DEF vars, Tick, FutureInv, condition, control
  <2>2. ASSUME NEW e \in Env, StepOf(e)
        PROVE  FutureInv(f)'
    <3>1. CASE e = f
      BY AsyncIsLater, <2>0, <2>2, <3>1, FutureStep
    <3>2. CASE e # f
      BY <2>0, <2>2, <3>2, Local, FutureFrame DEF FutureInv
    <3>. QED
      BY <3>1, <3>2
  <2>. QED
    BY <2>1, <2>2 DEF Next, StepOf
<1>. HIDE DEF Clock, Future
<1>3. Spec => []Clock
  BY ClockInvariance DEF Clock
<1>4. Spec => [](Clock /\ Future)
  BY <1>1, <1>2, <1>3, PTL DEF Spec
<1>5. Clock /\ Future => TypeInv /\ \A e \in Env : ClockInv(e) /\ FutureInv(e)
  BY DEF Clock, Future
<1>. QED
  BY <1>4, <1>5, PTL

(* All events in a queue lie after the logical time of their environment,  *)
(* whichever thread schedules them and whatever the scheduler is doing:    *)
(* next() never finds a tag in the past.                                   *)
THEOREM EventsStayInFuture ==
  ASSUME AsyncIsLater
  PROVE  Spec => []EventsInFuture
<1>1. (TypeInv /\ \A e \in Env : ClockInv(e) /\ FutureInv(e)) => EventsInFuture
  BY DEF FutureInv, EventsInFuture
<1>. QED
  BY <1>1, FutureInvariance, PTL

(* The assertion in schedule_sync never fails, if a clock that is read     *)
(* after a wake-up shows a time after the deadline, or if no other thread  *)
(* schedules actions.                                                      *)
THEOREM SchedulingAssertionHolds ==
  ASSUME AsyncIsLater
  PROVE  Spec => []ScheduledLater
<1>1. (TypeInv /\ \A e \in Env : ClockInv(e) /\ FutureInv(e)) => ScheduledLater
  BY DEF FutureInv, ScheduledLater
<1>. QED
  BY <1>1, FutureInvariance, PTL

(* The released time is behind the tag whose reactions execute, and no     *)
(* event comes up at or before it: what is announced to the schedulers of  *)
(* other environments remains true.                                        *)
THEOREM ReleasedStaysOver ==
  ASSUME AsyncIsLater
  PROVE  Spec => []ReleasedIsOver
<1>1. (TypeInv /\ \A e \in Env : ClockInv(e) /\ FutureInv(e)) => ReleasedIsOver
  <2>. SUFFICES ASSUME TypeInv, NEW e \in Env, FutureInv(e)
                PROVE  /\ At(e, "react") => released_time[e] \prec logical_time[e]
                       /\ released_time[e] \preceq logical_time[e]
                       /\ \A v \in event_queue[e] : released_time[e] \prec v.tag
    BY DEF ReleasedIsOver
  <2>1. ASSUME NEW v \in event_queue[e] PROVE released_time[e] \prec v.tag
    <3>1. v.tag \in Tag /\ logical_time[e] \in Tag /\ released_time[e] \in Tag
      BY NatTags DEF TypeInv, NatEvent
    <3>. QED
      BY <3>1, TagOrder DEF FutureInv, AllLater
  <2>. QED
    BY <2>1 DEF FutureInv
<1>. QED
  BY <1>1, FutureInvariance, PTL

-----------------------------------------------------------------------------
(* The schedulers implement the abstract execution of events *)

(* The order of tags in the abstract specification is the one of Tags. *)
LEMMA SameTags ==
  ASSUME NEW e \in Env
  PROVE  /\ \A a, b : Events(e)!\prec(a, b) <=> a \prec b
         /\ \A a, b : Events(e)!\preceq(a, b) <=> a \preceq b
         /\ Events(e)!Event = Event
         /\ Events(e)!TagAt(0, 0) = TagAt(0, 0)
         /\ Events(e)!Tag = Tag
BY DEF Events!\prec, Events!\preceq, Events!Less, Events!Event, Events!Tag, Events!TagAt,
       Events!Microstep, \prec, \preceq, Less, Event, Tag, TagAt, Microstep

LEMMA ScheduleRefines ==
  ASSUME NEW e \in Env, TypeInv', FutureInv(e)',
         logical_time'[e] = logical_time[e],
         event_queue[e] \subseteq event_queue'[e],
         triggered_actions'[e] \in {triggered_actions[e], {}}
  PROVE  Events(e)!Schedule
<1>1. \A v \in event_queue'[e] : v \in Event /\ logical_time[e] \prec v.tag
  BY NatTags DEF TypeInv, FutureInv, AllLater, NatEvent, Event, \prec, Less
<1>2. event_queue'[e] \subseteq Events(e)!Future
  BY <1>1, SameTags DEF Events!Future
<1>. QED
  BY <1>2 DEF Events!Schedule

LEMMA BeginRefines ==
  ASSUME TypeInv, NEW e \in Env, ClockInv(e), start(e)
  PROVE  Events(e)!Begin
<1>1. /\ logical_time[e] = TagAt(0, 0)
      /\ logical_time'[e] = decrement(start_tag)
      /\ event_queue'[e] = {v \in event_queue[e] : decrement(start_tag) \prec v.tag}
      /\ triggered_actions'[e] = triggered_actions[e]
  BY DEF start, ClockInv, At, TypeInv
<1>2. decrement(start_tag) \in Tag
  BY NatTags
<1>3. TagAt(0, 0) \prec decrement(start_tag)
  BY NatTags, TimeAssumption, MaxMicrostepAssumption DEF TagAt, \prec, Less
<1>. QED
  BY <1>1, <1>2, <1>3, SameTags DEF Events!Begin

(* Taking all the events of the next tag *)
LEMMA AdvanceRefines ==
  ASSUME TypeInv, NEW e \in Env, event_queue[e] # {},
         logical_time'[e] = next_tag(event_queue[e]),
         event_queue'[e] = Without(event_queue[e], next_tag(event_queue[e])),
         triggered_actions'[e] = List(event_queue[e], next_tag(event_queue[e]))
  PROVE  Events(e)!Advance
<1>. DEFINE tag == next_tag(event_queue[e])
<1>1. /\ tag \in QueuedTags(event_queue[e])
      /\ \A v \in event_queue[e] : tag \preceq v.tag
  BY NextTag DEF TypeInv
<1>2. PICK first \in event_queue[e] : first.tag = tag
  BY <1>1 DEF QueuedTags
<1>3. \A other \in event_queue[e] : Events(e)!\preceq(first.tag, other.tag)
  BY <1>1, <1>2, SameTags
<1>4. event_queue[e] \ event_queue'[e] = {v \in event_queue[e] : v.tag = tag}
  BY DEF Without
<1>5. triggered_actions'[e] = {v.action : v \in event_queue[e] \ event_queue'[e]} \ {NoAction}
  BY <1>4 DEF List
<1>6. event_queue'[e] = {v \in event_queue[e] : v.tag # logical_time'[e]}
  BY DEF Without
<1>. QED
  BY <1>2, <1>3, <1>5, <1>6 DEF Events!Advance

LEMMA StepRefines ==
  ASSUME AsyncIsLater, TypeInv, TypeInv', NEW e \in Env, ClockInv(e), FutureInv(e), StepOf(e)
  PROVE  [Events(e)!Next]_(Events(e)!vars)
<1>. USE DEF Goto, At, control, condition, clock
<1>0. /\ pc \in [Env -> Location]
      /\ event_queue \in [Env -> SUBSET NatEvent]
      /\ logical_time \in [Env -> NatTag]
      /\ triggered_actions \in [Env -> SUBSET Action]
      /\ event_queue[e] \in SUBSET NatEvent /\ logical_time[e] \in NatTag
  BY DEF TypeInv
<1>. DEFINE Same == /\ logical_time'[e] = logical_time[e]
                    /\ event_queue[e] \subseteq event_queue'[e]
                    /\ triggered_actions'[e] \in {triggered_actions[e], {}}
            Taken(tag) == /\ event_queue[e] # {} /\ next_tag(event_queue[e]) = tag
                          /\ logical_time'[e] = tag
                          /\ event_queue'[e] = Without(event_queue[e], tag)
                          /\ triggered_actions'[e] = List(event_queue[e], tag)
<1>1. ASSUME Same PROVE Events(e)!Next
  BY <1>1, FutureStep, ScheduleRefines DEF Events!Next
<1>2. ASSUME NEW tag, Taken(tag) PROVE Events(e)!Next
  BY <1>2, AdvanceRefines DEF Events!Next
<1>3. CASE start(e)
  BY <1>3, BeginRefines DEF Events!Next
<1>4. CASE Stop(e)
  <2>1. Taken(delay(logical_time[e], 0)) \/ Same
    BY <1>0, <1>4 DEF Stop
  <2>. QED
    BY <1>1, <1>2, <2>1
<1>5. CASE Take(e)
  <2>1. Taken(t_next[e])
    BY <1>0, <1>5 DEF Take, ClockInv
  <2>. QED
    BY <1>2, <2>1
<1>6. CASE Startup(e) \/ CleanupAfterTag(e) \/ ReleaseEmpty(e) \/ EndReactions(e)
           \/ WaitForEvent(e) \/ IdleShutdown(e) \/ Select(e) \/ WakeUp(e) \/ TimeOut(e)
           \/ IdleCrash(e) \/ StopCrash(e) \/ Notify(e)
  <2>1. CASE Startup(e) \/ CleanupAfterTag(e) \/ IdleShutdown(e)
    <3>. Same
      BY <1>0, <2>1 DEF Startup, CleanupAfterTag, IdleShutdown, sync_shutdown, Insert
    <3>. QED
      BY <1>1
  <2>2. CASE ReleaseEmpty(e) \/ EndReactions(e) \/ WaitForEvent(e) \/ Select(e)
    <3>. Same
      BY <2>2 DEF ReleaseEmpty, EndReactions, WaitForEvent, Select
    <3>. QED
      BY <1>1
  <2>3. CASE WakeUp(e) \/ TimeOut(e) \/ IdleCrash(e) \/ StopCrash(e) \/ Notify(e)
    <3>. Same
      BY <2>3 DEF WakeUp, TimeOut, IdleCrash, StopCrash, ShutdownCrash, Crash, Notify
    <3>. QED
      BY <1>1
  <2>. QED
    BY <1>6, <2>1, <2>2, <2>3
<1>7. CASE ReactionShutdown(e) \/ ReactionCrash(e) \/ AsyncShutdown(e) \/ AsyncShutdownCrash(e)
           \/ SpuriousWakeUp(e)
  <2>1. Same
    BY <1>0, <1>7
       DEF ReactionShutdown, ReactionCrash, AsyncShutdown, AsyncShutdownCrash, SpuriousWakeUp,
           sync_shutdown, ShutdownCrash, Crash, Insert
  <2>. QED
    BY <1>1, <2>1
<1>8. ASSUME NEW a, environment[a] = e,
             \/ \E d : ScheduleSync(a, d) \/ ScheduleAsync(a, d)
             \/ \E tag : ScheduleSyncAt(a, tag)
      PROVE  Same
  BY <1>0, <1>8 DEF ScheduleSync, ScheduleAsync, ScheduleSyncAt, Insert
<1>9. ASSUME NEW a, NEW tag, InsertAsyncAt(e, tag, a)
      PROVE  Same
  BY <1>0, <1>9 DEF InsertAsyncAt, Insert
<1>10. \A S : \A a \in In(e, S) : environment[a] = e
  BY DEF In
<1>11. CASE React(e)
  BY <1>1, <1>7, <1>8, <1>10, <1>11 DEF React
<1>12. CASE Disturb(e)
  BY <1>1, <1>7, <1>8, <1>9, <1>10, <1>12 DEF Disturb, ScheduleAsyncAt, ScheduleEmpty
<1>. QED
  BY <1>3, <1>4, <1>5, <1>6, <1>11, <1>12 DEF StepOf, Proceed

(* Each scheduler implements the abstract execution of its events: all the *)
(* actions with an event at the earliest tag are executed together, at     *)
(* that tag, and no event is dropped.                                      *)
THEOREM SchedulerImplementsEvents ==
  ASSUME AsyncIsLater
  PROVE  Spec => ImplementsEvents
<1>. DEFINE Inv == TypeInv /\ \A e \in Env : ClockInv(e) /\ FutureInv(e)
            Refines == \A e \in Env : [Events(e)!Next]_(Events(e)!vars)
<1>1. Init => \A e \in Env : Events(e)!Init
  BY SameTags DEF Init, Events!Init
<1>2. Inv /\ Inv' /\ [Next]_vars => Refines
  <2>. SUFFICES ASSUME Inv, TypeInv', [Next]_vars, NEW f \in Env
                PROVE  [Events(f)!Next]_(Events(f)!vars)
    OBVIOUS
  <2>1. CASE UNCHANGED vars \/ Tick
    BY <2>1 DEF vars, Tick, Events!vars, condition, control
  <2>2. ASSUME NEW e \in Env, StepOf(e)
        PROVE  [Events(f)!Next]_(Events(f)!vars)
    <3>1. CASE e = f
      BY AsyncIsLater, <2>2, <3>1, StepRefines
    <3>2. CASE e # f
      BY <2>2, <3>2, Local DEF Events!vars
    <3>. QED
      BY <3>1, <3>2
  <2>. QED
    BY <2>1, <2>2 DEF Next, StepOf
<1>3. Spec => []Inv
  BY FutureInvariance
<1>. HIDE DEF Inv
<1>4. Spec => [][Refines]_vars
  BY <1>2, <1>3, PTL DEF Spec
<1>. QED
  BY <1>1, <1>4, PTL DEF Spec, ImplementsEvents

=============================================================================
