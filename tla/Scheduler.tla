----------------------------- MODULE Scheduler -----------------------------
(***************************************************************************)
(* The main loop of the scheduler of each environment -- start(), next(),  *)
(* cleanup_after_tag() -- with its event queue, the physical clock, the    *)
(* calls that schedule events, timers, the time-out and the ways to shut   *)
(* down.                                                                   *)
(*                                                                         *)
(* An action is what happens between two points where scheduling_mutex_ is *)
(* released or other threads can get in between.  Reactions are abstract:  *)
(* while the reactions of a tag execute, they may schedule logical actions *)
(* and request the shutdown.  Empty events, which schedulers of other      *)
(* environments ask for, come from outside.                                *)
(***************************************************************************)
EXTENDS Tags, FiniteSets

CONSTANTS
  Env,                 \* the environments, each with its scheduler
  LogicalAction, PhysicalAction, Timer, ShutdownTrigger,
  environment,         \* the environment of each action
  offset, period,      \* of each timer
  timeout,             \* the time-out of the environments, or Forever
  Forever,             \* Duration::max()
  fast_fwd_execution,  \* do not synchronize with physical time?
  Delay,               \* the delays that reactions give to schedule()
  AsyncDelay,          \* the delays that other threads give to schedule()
  GivenTag,            \* the tags given to schedule_at() and schedule_empty_async_at()
  NoAction,            \* marks an event at which no action is triggered
  StartTime,           \* the physical time read by startup()
  Latency,             \* does a clock read after a wake-up exceed the deadline?
  EarlyShutdown,       \* may async_shutdown() come before the first tag?
  MaxTime,             \* bound: the physical time
  MaxMicro,            \* bound: the microsteps of scheduled events
  MaxCalls             \* bound: the calls from other threads

Action == LogicalAction \cup PhysicalAction \cup Timer \cup ShutdownTrigger

ASSUME ActionAssumption ==
  /\ environment \in [Action -> Env]
  /\ NoAction \notin Action
  /\ ShutdownTrigger \cap (LogicalAction \cup PhysicalAction \cup Timer) = {}
  /\ Timer \cap (LogicalAction \cup PhysicalAction) = {}
ASSUME TimeAssumption ==
  /\ offset \in [Timer -> Nat] /\ period \in [Timer -> Nat]
  /\ Forever \notin Nat /\ timeout \in Nat \cup {Forever}
  /\ Delay \subseteq Nat /\ AsyncDelay \subseteq Nat
  /\ StartTime \in Nat \ {0}
  /\ MaxTime \in Nat /\ MaxMicro \in Nat /\ MaxMicro < MaxMicrostep
  /\ GivenTag \subseteq [time : Nat, micro_step : Microstep]
ASSUME FlagAssumption ==
  /\ fast_fwd_execution \in BOOLEAN /\ Latency \in BOOLEAN /\ EarlyShutdown \in BOOLEAN

VARIABLES
  pc,                  \* where the thread that schedules is
  logical_time,
  event_queue,         \* a set of events: a tag and an action or NoAction
  triggered_actions,
  t_next,              \* local to next()
  continue_execution,
  stop,
  phase,               \* Environment::phase_
  notified,            \* has cv_schedule_ been notified since the wait began?
  notifications,       \* calls of notify() that are still to be made
  released_time,       \* the last tag that was announced to the callbacks
  failed,              \* history: assertions and validations that failed
  physical_time,
  calls                \* counts the calls from other threads

clock == <<physical_time, calls>>
condition == <<notified, notifications>>
control == <<continue_execution, stop, phase>>
vars == <<pc, logical_time, event_queue, triggered_actions, t_next, control,
          condition, released_time, failed, clock>>

-----------------------------------------------------------------------------

In(e, S) == {a \in S : environment[a] = e}
Event == [tag : Tag, action : Action \cup {NoAction}]
EventAt(tag, a) == [tag |-> tag, action |-> a]

(* Environment::startup *)
start_tag == from_physical_time(StartTime)
timeout_tag == IF timeout = 0 THEN start_tag ELSE delay(start_tag, timeout)
HasTimeout == timeout # Forever

run_forever(e) == In(e, PhysicalAction) # {}

(* Without fast forward next() waits for the clock itself, otherwise every *)
(* physical action, being an input action, does so in acquire_tag().       *)
WaitsForClock_fault(e) == ~fast_fwd_execution    \* input actions do not wait
WaitsForClock(e) == ~fast_fwd_execution \/ In(e, PhysicalAction) # {}

(* EventQueue: the tags that have a list, the smallest one, and the list   *)
(* itself, whose order and repetitions do not matter here.                 *)
QueuedTags(queue) == {event.tag : event \in queue}
next_tag(queue) ==
  CHOOSE tag \in QueuedTags(queue) : \A other \in QueuedTags(queue) : tag \preceq other
List_fault(queue, tag) ==    \* an empty event is taken for an action
  {event.action : event \in {v \in queue : v.tag = tag}}
List(queue, tag) == {event.action : event \in {v \in queue : v.tag = tag}} \ {NoAction}
Without(queue, tag) == {event \in queue : event.tag # tag}

At(e, l) == pc[e] = l
Goto(e, l) == pc' = [pc EXCEPT ![e] = l]
Locked(e) == pc[e] \in {"take", "stopping", "crashed"}    \* next() holds scheduling_mutex_
Waiting(e) == pc[e] \in {"await_event", "await_time"}
Location == {"startup", "start", "next", "loop", "await_event", "await_time", "take",
             "stopping", "release", "react", "final", "done", "crashed"}

Insert(e, events) == event_queue' = [event_queue EXCEPT ![e] = @ \cup events]

(* The assertion at a site of the code fails unless cond.  A release build *)
(* does not notice.                                                        *)
Check(e, site, cond) == failed' = [failed EXCEPT ![e] = IF cond THEN @ ELSE @ \cup {site}]
Site == {"schedule_sync", "advance_to", "delay"}

(* The validation in Tag::delay, which is noexcept, terminates the program *)
(* when the microstep overflows.                                           *)
Crash(e) ==
  /\ Check(e, "delay", FALSE)
  /\ Goto(e, "crashed")
  /\ UNCHANGED <<logical_time, event_queue, triggered_actions, t_next, control, condition,
                 released_time, clock>>

(* logical_time_ < tag, for all events that schedule_sync inserts          *)
AllLater(e, events) == \A event \in events : logical_time[e] \prec event.tag

Init ==
  /\ pc = [e \in Env |-> "startup"]
  /\ logical_time = [e \in Env |-> TagAt(0, 0)]
  /\ event_queue = [e \in Env |-> {}]
  /\ triggered_actions = [e \in Env |-> {}]
  /\ t_next = [e \in Env |-> TagAt(0, 0)]
  /\ continue_execution = [e \in Env |-> TRUE]
  /\ stop = [e \in Env |-> FALSE]
  /\ phase = [e \in Env |-> "Assembly"]
  /\ notified = [e \in Env |-> FALSE]
  /\ notifications = [e \in Env |-> 0]
  /\ released_time = [e \in Env |-> TagAt(0, 0)]
  /\ failed = [e \in Env |-> {}]
  /\ physical_time = StartTime
  /\ calls = 0

-----------------------------------------------------------------------------
(* Startup and the end of a tag *)

(* Environment::startup: the timers and, if there is a time-out, the       *)
(* shutdown triggers schedule their first events.                          *)
Startup(e) ==
  LET first(t) == IF offset[t] = 0 THEN start_tag ELSE delay(start_tag, offset[t])
      events == {EventAt(first(t), t) : t \in In(e, Timer)}
                \cup {EventAt(timeout_tag, s) : s \in IF HasTimeout THEN In(e, ShutdownTrigger) ELSE {}}
  IN  /\ At(e, "startup")
      /\ phase' = [phase EXCEPT ![e] = "Execution"]
      /\ Insert(e, events)
      /\ Check(e, "schedule_sync", AllLater(e, events))
      /\ Goto(e, "start")
      /\ UNCHANGED <<logical_time, triggered_actions, t_next, continue_execution, stop,
                     condition, released_time, clock>>

start_fault(e) ==    \* earlier events are not discarded
  /\ At(e, "start")
  /\ logical_time' = [logical_time EXCEPT ![e] = decrement(start_tag)]
  /\ Check(e, "advance_to", logical_time[e] \prec decrement(start_tag))
  /\ Goto(e, "next")
  /\ UNCHANGED <<event_queue, triggered_actions, t_next, control, condition, released_time, clock>>

(* Scheduler::start, up to the first call of next() *)
start(e) ==
  /\ At(e, "start")
  /\ logical_time' = [logical_time EXCEPT ![e] = decrement(start_tag)]
  /\ Check(e, "advance_to", logical_time[e] \prec decrement(start_tag))
  /\ event_queue' = [event_queue EXCEPT ![e] = {v \in @ : decrement(start_tag) \prec v.tag}]
  /\ Goto(e, "next")
  /\ UNCHANGED <<triggered_actions, t_next, control, condition, released_time, clock>>

(* Timer::cleanup: a periodic timer schedules itself again. *)
Rearmed_fault(e) ==    \* relative to the physical time
  {EventAt(TagAt(physical_time + period[t], 0), t) :
     t \in {u \in In(e, Timer) \cap triggered_actions[e] : period[u] # 0}}

Rearmed(e) ==
  {EventAt(delay(logical_time[e], period[t]), t) :
     t \in {u \in In(e, Timer) \cap triggered_actions[e] : period[u] # 0}}

(* release_current_tag: the callbacks advance the released time. *)
ReleaseCurrentTag(e) ==
  /\ released_time' = [released_time EXCEPT ![e] = logical_time[e]]
  /\ Check(e, "advance_to", released_time[e] \prec logical_time[e])

(* cleanup_after_tag, at the beginning of next() or before the workers are *)
(* terminated.                                                             *)
CleanupAfterTag(e) ==
  /\ pc[e] \in {"next", "final"}
  /\ ReleaseCurrentTag(e)
  /\ Insert(e, Rearmed(e))
  /\ triggered_actions' = [triggered_actions EXCEPT ![e] = {}]
  /\ Goto(e, IF At(e, "next") THEN "loop" ELSE "done")
  /\ UNCHANGED <<logical_time, t_next, control, condition, clock>>

-----------------------------------------------------------------------------
(* next() *)

(* Environment::sync_shutdown: the shutdown triggers schedule their events *)
(* one microstep later, and the scheduler stops.                           *)
ShutdownEvents(e) == {EventAt(delay(logical_time[e], 0), s) : s \in In(e, ShutdownTrigger)}
ShutdownOverflows(e) == In(e, ShutdownTrigger) # {} /\ Overflows(logical_time[e], 0)

sync_shutdown(e) ==
  /\ phase[e] = "Execution"
  /\ ~ShutdownOverflows(e)
  /\ phase' = [phase EXCEPT ![e] = "Deconstruction"]
  /\ Insert(e, ShutdownEvents(e))
  /\ Check(e, "schedule_sync", AllLater(e, ShutdownEvents(e)))
  /\ stop' = [stop EXCEPT ![e] = TRUE]

ShutdownCrash(e) == phase[e] = "Execution" /\ ShutdownOverflows(e) /\ Crash(e)

Idle(e) == At(e, "loop") /\ event_queue[e] = {} /\ ~stop[e]

(* Nothing to do: wait for an asynchronous event ... *)
WaitForEvent(e) ==
  /\ Idle(e) /\ run_forever(e)
  /\ notified' = [notified EXCEPT ![e] = FALSE]
  /\ Goto(e, "await_event")
  /\ UNCHANGED <<logical_time, event_queue, triggered_actions, t_next, control,
                 notifications, released_time, failed, clock>>

(* ... or shut down. *)
IdleShutdown(e) ==
  /\ Idle(e) /\ ~run_forever(e)
  /\ sync_shutdown(e)
  /\ Goto(e, "stopping")
  /\ UNCHANGED <<logical_time, triggered_actions, t_next, continue_execution, condition,
                 released_time, clock>>

IdleCrash(e) == Idle(e) /\ ~run_forever(e) /\ ShutdownCrash(e)

Stopping(e) == At(e, "stopping") \/ (At(e, "loop") /\ stop[e])

Stop_fault(e) ==    \* the last round is forgotten
  /\ Stopping(e)
  /\ ~Overflows(logical_time[e], 0)
  /\ continue_execution' = [continue_execution EXCEPT ![e] = FALSE]
  /\ Goto(e, "final")
  /\ UNCHANGED <<logical_time, event_queue, triggered_actions, t_next, stop, phase, condition,
                 released_time, failed, clock>>

Stop_fault2(e) ==    \* continue_execution_ is not reset
  LET next == delay(logical_time[e], 0)
      last == event_queue[e] # {} /\ next_tag(event_queue[e]) = next
  IN  /\ Stopping(e)
      /\ ~Overflows(logical_time[e], 0)
      /\ \/ /\ last
            /\ triggered_actions' = [triggered_actions EXCEPT ![e] = List(event_queue[e], next)]
            /\ event_queue' = [event_queue EXCEPT ![e] = Without(@, next)]
            /\ logical_time' = [logical_time EXCEPT ![e] = next]
            /\ Goto(e, IF List(event_queue[e], next) = {} THEN "loop" ELSE "react")
         \/ /\ ~last
            /\ Goto(e, "next")
            /\ UNCHANGED <<triggered_actions, event_queue, logical_time>>
      /\ UNCHANGED <<t_next, control, condition, released_time, failed, clock>>

(* stop_ is set: execute the next microstep if it has events, then end.    *)
Stop(e) ==
  LET next == delay(logical_time[e], 0)
      last == event_queue[e] # {} /\ next_tag(event_queue[e]) = next
  IN  /\ Stopping(e)
      /\ ~Overflows(logical_time[e], 0)
      /\ continue_execution' = [continue_execution EXCEPT ![e] = FALSE]
      /\ \/ /\ last
            /\ triggered_actions' = [triggered_actions EXCEPT ![e] = List(event_queue[e], next)]
            /\ event_queue' = [event_queue EXCEPT ![e] = Without(@, next)]
            /\ logical_time' = [logical_time EXCEPT ![e] = next]
            /\ Goto(e, IF List(event_queue[e], next) = {} THEN "loop" ELSE "react")
         \/ /\ ~last
            /\ Goto(e, "final")
            /\ UNCHANGED <<triggered_actions, event_queue, logical_time>>
      /\ UNCHANGED <<t_next, stop, phase, condition, released_time, failed, clock>>

StopCrash(e) == Stopping(e) /\ Overflows(logical_time[e], 0) /\ Crash(e)

Select_fault(e) ==    \* the barrier lets the current time pass
  LET tag == next_tag(event_queue[e])
  IN  /\ At(e, "loop")
      /\ event_queue[e] # {} /\ ~stop[e]
      /\ t_next' = [t_next EXCEPT ![e] = tag]
      /\ notified' = [notified EXCEPT ![e] = FALSE]
      /\ Goto(e, IF WaitsForClock(e) /\ ~(tag.time <= physical_time) THEN "await_time" ELSE "take")
      /\ UNCHANGED <<logical_time, event_queue, triggered_actions, control, notifications,
                     released_time, failed, clock>>

(* The next tag is chosen and acquired from the clock: at once, or after a *)
(* wait that an earlier event interrupts.                                  *)
Select(e) ==
  LET tag == next_tag(event_queue[e])
  IN  /\ At(e, "loop")
      /\ event_queue[e] # {} /\ ~stop[e]
      /\ t_next' = [t_next EXCEPT ![e] = tag]
      /\ notified' = [notified EXCEPT ![e] = FALSE]
      /\ Goto(e, IF WaitsForClock(e) /\ ~(tag.time < physical_time) THEN "await_time" ELSE "take")
      /\ UNCHANGED <<logical_time, event_queue, triggered_actions, control, notifications,
                     released_time, failed, clock>>

(* The predicates of the two waits on cv_schedule_ *)
Interrupted(e) ==
  IF At(e, "await_event")
  THEN event_queue[e] # {} \/ stop[e]
  ELSE t_next[e] # next_tag(event_queue[e])

WakeUp(e) ==
  /\ Waiting(e)
  /\ notified[e]
  /\ notified' = [notified EXCEPT ![e] = FALSE]
  /\ IF Interrupted(e) THEN Goto(e, "loop") ELSE UNCHANGED pc
  /\ UNCHANGED <<logical_time, event_queue, triggered_actions, t_next, control, notifications,
                 released_time, failed, clock>>

SpuriousWakeUp(e) ==
  /\ Waiting(e)
  /\ ~notified[e]
  /\ Interrupted(e)
  /\ Goto(e, "loop")
  /\ UNCHANGED <<logical_time, event_queue, triggered_actions, t_next, control, condition,
                 released_time, failed, clock>>

Reached(time) == IF Latency THEN time < physical_time ELSE time <= physical_time

TimeOut_fault(e) ==    \* the predicate is not evaluated again
  /\ At(e, "await_time")
  /\ Reached(t_next[e].time)
  /\ Goto(e, "take")
  /\ UNCHANGED <<logical_time, event_queue, triggered_actions, t_next, control, condition,
                 released_time, failed, clock>>

TimeOut(e) ==
  /\ At(e, "await_time")
  /\ Reached(t_next[e].time)
  /\ Goto(e, IF Interrupted(e) THEN "loop" ELSE "take")
  /\ UNCHANGED <<logical_time, event_queue, triggered_actions, t_next, control, condition,
                 released_time, failed, clock>>

Take_fault(e) ==    \* the time-out is ignored
  LET list == List(event_queue[e], t_next[e])
  IN  /\ At(e, "take")
      /\ triggered_actions' = [triggered_actions EXCEPT ![e] = list]
      /\ event_queue' = [event_queue EXCEPT ![e] = Without(@, t_next[e])]
      /\ logical_time' = [logical_time EXCEPT ![e] = t_next[e]]
      /\ Check(e, "advance_to", logical_time[e] \prec t_next[e])
      /\ Goto(e, IF list = {} THEN "release" ELSE "react")
      /\ UNCHANGED <<t_next, control, condition, released_time, clock>>

Take_fault2(e) ==    \* the tag is released before its reactions have executed
  LET tag == next_tag(event_queue[e])
      list == List(event_queue[e], tag)
  IN  /\ At(e, "take")
      /\ continue_execution' =
           [continue_execution EXCEPT ![e] = @ /\ ~(HasTimeout /\ t_next[e] = timeout_tag)]
      /\ triggered_actions' = [triggered_actions EXCEPT ![e] = list]
      /\ event_queue' = [event_queue EXCEPT ![e] = Without(@, tag)]
      /\ logical_time' = [logical_time EXCEPT ![e] = t_next[e]]
      /\ released_time' = [released_time EXCEPT ![e] = t_next[e]]
      /\ Check(e, "advance_to", logical_time[e] \prec t_next[e])
      /\ Goto(e, IF list = {} THEN "release" ELSE "react")
      /\ UNCHANGED <<t_next, stop, phase, condition, clock>>

(* The actions of the tag are extracted, the logical time is advanced, and *)
(* the reactions they trigger are about to execute.                        *)
Take(e) ==
  LET tag == next_tag(event_queue[e])
      list == List(event_queue[e], tag)
  IN  /\ At(e, "take")
      /\ continue_execution' =
           [continue_execution EXCEPT ![e] = @ /\ ~(HasTimeout /\ t_next[e] = timeout_tag)]
      /\ triggered_actions' = [triggered_actions EXCEPT ![e] = list]
      /\ event_queue' = [event_queue EXCEPT ![e] = Without(@, tag)]
      /\ logical_time' = [logical_time EXCEPT ![e] = t_next[e]]
      /\ Check(e, "advance_to", logical_time[e] \prec t_next[e])
      /\ Goto(e, IF list = {} THEN "release" ELSE "react")
      /\ UNCHANGED <<t_next, stop, phase, condition, released_time, clock>>

(* No action is triggered at the tag: it is released at once. *)
ReleaseEmpty(e) ==
  /\ At(e, "release")
  /\ ReleaseCurrentTag(e)
  /\ Goto(e, "loop")
  /\ UNCHANGED <<logical_time, event_queue, triggered_actions, t_next, control, condition, clock>>

-----------------------------------------------------------------------------
(* Reactions *)

(* Action::schedule and schedule_sync, for a logical action *)
ScheduleSync(a, d) ==
  LET e == environment[a]
      tag == delay(logical_time[e], d)
  IN  /\ At(e, "react")
      /\ tag.time <= MaxTime /\ (d = 0 => logical_time[e].micro_step < MaxMicro)
      /\ Insert(e, {EventAt(tag, a)})
      /\ Check(e, "schedule_sync", logical_time[e] \prec tag)
      /\ UNCHANGED <<pc, logical_time, triggered_actions, t_next, control, condition,
                     released_time, clock>>

(* Action::schedule_at, for a logical action and a tag in its future *)
ScheduleSyncAt(a, tag) ==
  LET e == environment[a]
  IN  /\ At(e, "react")
      /\ logical_time[e] \prec tag
      /\ Insert(e, {EventAt(tag, a)})
      /\ UNCHANGED <<pc, logical_time, triggered_actions, t_next, control, condition,
                     released_time, failed, clock>>

(* A reaction calls sync_shutdown().  Nobody waits for the notification.   *)
ReactionShutdown(e) ==
  /\ At(e, "react")
  /\ sync_shutdown(e)
  /\ UNCHANGED <<pc, logical_time, triggered_actions, t_next, continue_execution, condition,
                 released_time, clock>>

ReactionCrash(e) == At(e, "react") /\ ShutdownCrash(e)

(* The last reaction has ended: schedule() goes on or terminates. *)
EndReactions(e) ==
  /\ At(e, "react")
  /\ Goto(e, IF continue_execution[e] THEN "next" ELSE "final")
  /\ UNCHANGED <<logical_time, event_queue, triggered_actions, t_next, control, condition,
                 released_time, failed, clock>>

-----------------------------------------------------------------------------
(* Other threads *)

Call == calls < MaxCalls /\ calls' = calls + 1

(* notify() comes after the mutex is released. *)
WillNotify(e) == notifications' = [notifications EXCEPT ![e] = @ + 1] /\ UNCHANGED notified

ScheduleAsync_fault(a, d) ==    \* notify() forgotten
  LET e == environment[a]
      tag == from_physical_time(physical_time + d)
  IN  /\ Call
      /\ ~Locked(e)
      /\ Insert(e, {EventAt(tag, a)})
      /\ Check(e, "schedule_sync", logical_time[e] \prec tag)
      /\ UNCHANGED <<pc, logical_time, triggered_actions, t_next, control, condition,
                     released_time, physical_time>>

(* schedule_async, for a physical action *)
ScheduleAsync(a, d) ==
  LET e == environment[a]
      tag == from_physical_time(physical_time + d)
  IN  /\ Call
      /\ ~Locked(e)
      /\ Insert(e, {EventAt(tag, a)})
      /\ Check(e, "schedule_sync", logical_time[e] \prec tag)
      /\ WillNotify(e)
      /\ UNCHANGED <<pc, logical_time, triggered_actions, t_next, control,
                     released_time, physical_time>>

InsertAsyncAt_fault(e, tag, a) ==    \* whatever the logical time
  /\ Call
  /\ ~Locked(e)
  /\ Insert(e, {EventAt(tag, a)})
  /\ WillNotify(e)
  /\ UNCHANGED <<pc, logical_time, triggered_actions, t_next, control,
                 released_time, failed, physical_time>>

(* schedule_async_at and schedule_empty_async_at, for a tag in the future: *)
(* an event that triggers an action, or none                               *)
InsertAsyncAt(e, tag, a) ==
  /\ Call
  /\ ~Locked(e)
  /\ logical_time[e] \prec tag
  /\ Insert(e, {EventAt(tag, a)})
  /\ WillNotify(e)
  /\ UNCHANGED <<pc, logical_time, triggered_actions, t_next, control,
                 released_time, failed, physical_time>>

ScheduleAsyncAt(a, tag) == InsertAsyncAt(environment[a], tag, a)
ScheduleEmpty(e, tag) == InsertAsyncAt(e, tag, NoAction)

Notify(e) ==
  /\ notifications[e] > 0
  /\ notifications' = [notifications EXCEPT ![e] = @ - 1]
  /\ notified' = [notified EXCEPT ![e] = Waiting(e)]
  /\ UNCHANGED <<pc, logical_time, event_queue, triggered_actions, t_next, control,
                 released_time, failed, clock>>

AsyncAllowed(e) == ~Locked(e) /\ (start_tag \preceq logical_time[e] \/ EarlyShutdown)

AsyncShutdown_fault(e) ==    \* stop() does not notify
  /\ Call
  /\ AsyncAllowed(e)
  /\ sync_shutdown(e)
  /\ UNCHANGED <<pc, logical_time, triggered_actions, t_next, continue_execution, condition,
                 released_time, physical_time>>

(* async_shutdown, which notifies before it releases the mutex *)
AsyncShutdown(e) ==
  /\ Call
  /\ AsyncAllowed(e)
  /\ sync_shutdown(e)
  /\ notified' = [notified EXCEPT ![e] = Waiting(e)]
  /\ UNCHANGED <<pc, logical_time, triggered_actions, t_next, continue_execution,
                 notifications, released_time, physical_time>>

AsyncShutdownCrash(e) == calls < MaxCalls /\ AsyncAllowed(e) /\ ShutdownCrash(e)

Tick ==
  /\ physical_time < MaxTime
  /\ physical_time' = physical_time + 1
  /\ UNCHANGED <<pc, logical_time, event_queue, triggered_actions, t_next, control, condition,
                 released_time, failed, calls>>

-----------------------------------------------------------------------------

(* What the threads of an environment do without being asked *)
Proceed(e) ==
  \/ Startup(e)
  \/ start(e)
  \/ CleanupAfterTag(e)
  \/ WaitForEvent(e)
  \/ IdleShutdown(e)
  \/ IdleCrash(e)
  \/ Stop(e)
  \/ StopCrash(e)
  \/ Select(e)
  \/ WakeUp(e)
  \/ TimeOut(e)
  \/ Take(e)
  \/ ReleaseEmpty(e)
  \/ EndReactions(e)

React(e) ==
  \/ \E a \in In(e, LogicalAction), d \in Delay : ScheduleSync(a, d)
  \/ \E a \in In(e, LogicalAction), tag \in GivenTag : ScheduleSyncAt(a, tag)
  \/ ReactionShutdown(e)
  \/ ReactionCrash(e)

Disturb(e) ==
  \/ \E a \in In(e, PhysicalAction), d \in AsyncDelay : ScheduleAsync(a, d)
  \/ \E tag \in GivenTag : ScheduleEmpty(e, tag)
  \/ \E a \in In(e, PhysicalAction), tag \in GivenTag : ScheduleAsyncAt(a, tag)
  \/ AsyncShutdown(e)
  \/ AsyncShutdownCrash(e)
  \/ SpuriousWakeUp(e)

Next ==
  \/ \E e \in Env : Proceed(e) \/ Notify(e) \/ React(e) \/ Disturb(e)
  \/ Tick

Spec == Init /\ [][Next]_vars

(* Threads that can run are run, and the clock does not stand still.       *)
Fairness ==
  /\ \A e \in Env : WF_vars(Proceed(e)) /\ WF_vars(Notify(e))
  /\ WF_vars(Tick)

FairSpec == Spec /\ Fairness

-----------------------------------------------------------------------------

Started(e) == ~At(e, "startup") /\ ~At(e, "start")

(* Every variable keeps its type. *)
TypeOK ==
  /\ pc \in [Env -> Location]
  /\ logical_time \in [Env -> Tag]
  /\ event_queue \in [Env -> SUBSET Event]
  /\ triggered_actions \in [Env -> SUBSET Action]
  /\ t_next \in [Env -> Tag]
  /\ continue_execution \in [Env -> BOOLEAN]
  /\ stop \in [Env -> BOOLEAN]
  /\ phase \in [Env -> {"Assembly", "Execution", "Shutdown", "Deconstruction"}]
  /\ notified \in [Env -> BOOLEAN]
  /\ notifications \in [Env -> Nat]
  /\ released_time \in [Env -> Tag]
  /\ failed \in [Env -> SUBSET Site]
  /\ physical_time \in Nat
  /\ calls \in Nat

(* All events lie in the future of the logical time, whoever schedules     *)
(* them and whenever: no event is missed, and the assertions in            *)
(* schedule_sync and advance_to hold.                                      *)
EventsInFuture == \A e \in Env : AllLater(e, event_queue[e])

(* A tag is processed when the physical time has passed it, and no earlier *)
(* -- unless in fast forward mode and without physical actions.            *)
NeverEarly ==
  \A e \in Env : Started(e) /\ WaitsForClock(e) => Reached(logical_time[e].time)

(* Periodic timers neither drift nor get lost nor multiply: unless it is   *)
(* triggered right now, a timer has exactly one event, at a multiple of    *)
(* its period after its offset, and no period is left out.                 *)
TimerExact(e, t) ==
  LET first == StartTime + offset[t]
      pending == {v \in event_queue[e] : v.action = t}
  IN  IF t \in triggered_actions[e]
      THEN pending = {}
      ELSE \E v \in pending :
             /\ pending = {v}
             /\ v.tag.micro_step = 0
             /\ v.tag.time >= first
             /\ (v.tag.time - first) % period[t] = 0
             /\ v.tag.time = first \/ v.tag.time - period[t] <= logical_time[e].time
TimersExact ==
  \A t \in Timer : period[t] # 0 /\ Started(environment[t]) => TimerExact(environment[t], t)

(* The round that executes shutdown reactions is the last one: nothing     *)
(* executes after them.                                                    *)
LastRound ==
  \A e \in Env : triggered_actions[e] \cap ShutdownTrigger # {} => ~continue_execution[e]

(* No environment ends without having executed its shutdown reactions,     *)
(* whichever way the shutdown was requested.                               *)
ShutdownReactionsRun ==
  \A e \in Env : At(e, "final") => In(e, ShutdownTrigger) \subseteq triggered_actions[e]

(* Once a stop is requested, only the next microstep is still executed.    *)
StopIsPrompt ==
  [][\A e \in Env : stop[e] /\ Started(e) /\ logical_time'[e] # logical_time[e] =>
                      logical_time'[e] = delay(logical_time[e], 0)]_vars

(* No tag after the time-out is processed (the comment in next() says:     *)
(* stop execution in case we reach the timeout tag).                       *)
StopsAtTimeout ==
  \A e \in Env : HasTimeout /\ Started(e) => logical_time[e] \preceq timeout_tag

(* What is announced to other environments is true: the reactions of a     *)
(* released tag have ended, and no event at or before it can come up.      *)
ReleasedIsOver ==
  \A e \in Env :
    /\ At(e, "react") => released_time[e] \prec logical_time[e]
    /\ Started(e) => released_time[e] \preceq logical_time[e]
    /\ \A v \in event_queue[e] : released_time[e] \prec v.tag

(* A scheduler that waits although it should not is being notified. *)
NoLostWakeUp ==
  \A e \in Env : Waiting(e) /\ Interrupted(e) => notified[e] \/ notifications[e] > 0

(* No assertion or validation of the code fails; one by one below.         *)
NothingFails == \A e \in Env : failed[e] = {}

(* reactor_assert(logical_time_ < tag) in schedule_sync *)
ScheduledLater == \A e \in Env : "schedule_sync" \notin failed[e]

(* The assertion in LogicalTime::advance_to: a tag only moves forward.     *)
ReleasedOnce == \A e \in Env : "advance_to" \notin failed[e]

(* An environment that is asked to stop terminates. *)
Stops == \A e \in Env : stop[e] ~> At(e, "done")

(* Every event is processed, unless the environment terminates before.     *)
EventsProcessed ==
  \A e \in Env, time \in StartTime..(MaxTime - 1) :
    (\E v \in event_queue[e] : v.tag.time = time)
      ~> (logical_time[e].time >= time \/ At(e, "done"))

(* The schedulers implement the abstract execution of events.              *)
Events(e) == INSTANCE DiscreteEvents
               WITH now <- logical_time[e],
                    pending <- event_queue[e],
                    present <- triggered_actions[e]

ImplementsEvents ==
  /\ \A e \in Env : Events(e)!Init
  /\ [][\A e \in Env : [Events(e)!Next]_(Events(e)!vars)]_vars

=============================================================================
