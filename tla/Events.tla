------------------------------- MODULE Events -------------------------------
(***************************************************************************)
(* The storage of events: the map of the event queue from tags to lists of *)
(* actions, the pool that lists are taken from and returned to, the lists  *)
(* (SafeVector), and the maps of the actions from tags to values.          *)
(* Reactions on the worker threads and other threads insert at the same    *)
(* time; only the scheduler removes.                                       *)
(*                                                                         *)
(* An action of the model is what a thread does under one lock, or one     *)
(* atomic operation.  Tags are numbers here.  An action of the program has *)
(* a value for each of its tags; which one is left out.                    *)
(***************************************************************************)
EXTENDS Naturals, Sequences, FiniteSets, FiniteSetsExt, Functions

CONSTANTS
  Worker,              \* threads that execute reactions
  Other,               \* threads that schedule a physical action or empty events
  logical_action,      \* the action that the reactions of a worker schedule
  PhysicalAction,
  NoAction,            \* for an empty event
  NoOne,               \* the owner of a mutex that is not locked
  action_list_pool_increment, size_increment,
  start_tag, MaxTag,
  MaxCalls,            \* bound: the number of calls
  EarlyActions         \* may physical actions be scheduled for tags before the start tag?

Thread == Worker \cup Other
Action == {logical_action[w] : w \in Worker} \cup PhysicalAction
Tag == 1..MaxTag

(* Reactions that schedule the same action belong to one reactor, and      *)
(* exclude each other.                                                     *)
ASSUME ActionAssumption ==
  /\ Worker \cap Other = {} /\ DOMAIN logical_action = Worker
  /\ \A v, w \in Worker : logical_action[v] = logical_action[w] => v = w
  /\ \A w \in Worker : logical_action[w] \notin PhysicalAction
  /\ NoAction \notin Action /\ NoOne \notin Thread
ASSUME BoundsAssumption ==
  /\ action_list_pool_increment \in Nat \ {0} /\ size_increment \in Nat \ {0}
  /\ MaxTag \in Nat /\ start_tag \in Tag /\ MaxCalls \in Nat /\ EarlyActions \in BOOLEAN

VARIABLES
  pc,                  \* of each thread, inside schedule()
  call,                \* its action, tag, list and position
  scheduler,           \* where the scheduler is
  logical_time,
  event_queue,         \* from tags to lists
  action_list_pool,
  lists,               \* the lists that have been made
  triggered_actions,   \* the list of the tag that is processed, 0 if there is none
  next_setup,          \* the position in this list for setup()
  events,              \* of each action: the tags with a value
  present,             \* the actions whose value_ptr_ is set
  scheduling_mutex, mutex_events,
  scheduled, calls     \* history: how often each action was scheduled for each tag

stores == <<event_queue, action_list_pool, lists>>
values == <<events, present>>
locks == <<scheduling_mutex, mutex_events>>
history == <<scheduled, calls>>
progress == <<scheduler, logical_time, triggered_actions, next_setup>>
vars == <<pc, call, progress, stores, values, locks, history>>

Goto(t, l) == pc' = [pc EXCEPT ![t] = l]
NewList == [write_pos |-> 0, vector_size |-> size_increment, vector |-> [i \in 0..(size_increment - 1) |-> NoAction]]
Remaining(tag) == [t \in DOMAIN event_queue \ {tag} |-> event_queue[t]]

Init ==
  /\ pc = [t \in Thread |-> "idle"]
  /\ call = [t \in Thread |-> [action |-> NoAction, tag |-> 1, list |-> 0, pos |-> 0]]
  /\ scheduler = "start" /\ logical_time = 0
  /\ event_queue = <<>>
  /\ lists = [i \in 1..action_list_pool_increment |-> NewList]
  /\ action_list_pool = [i \in 1..action_list_pool_increment |-> i]
  /\ triggered_actions = 0 /\ next_setup = 0
  /\ events = [a \in Action |-> {}] /\ present = {}
  /\ scheduling_mutex = NoOne /\ mutex_events = [a \in PhysicalAction |-> NoOne]
  /\ scheduled = [tag \in Tag |-> [a \in Action |-> 0]] /\ calls = 0

-----------------------------------------------------------------------------
(* schedule(): who may call it, and the locks *)

Begin(t, a, tag, l) ==
  /\ pc[t] = "idle" /\ calls < MaxCalls
  /\ call' = [call EXCEPT ![t] = [@ EXCEPT !.action = a, !.tag = tag]]
  /\ calls' = calls + 1
  /\ Goto(t, l)

Promise(a, tag) == scheduled' = [scheduled EXCEPT ![tag][a] = @ + 1]

(* A reaction schedules a logical action, without a lock. *)
ScheduleLogical(w, tag) ==
  /\ scheduler = "react" /\ logical_time < tag
  /\ Begin(w, logical_action[w], tag, "find")
  /\ Promise(logical_action[w], tag)
  /\ UNCHANGED <<progress, stores, values, locks>>

SchedulePhysical_fault(t, a, tag) ==    \* mutex_events_ is not locked
  /\ scheduler = "start" /\ ~EarlyActions => start_tag <= tag
  /\ Begin(t, a, tag, "lock")
  /\ UNCHANGED <<progress, stores, values, locks, scheduled>>

(* mutex_events_ is locked before the mutex of the scheduler. *)
SchedulePhysical(t, a, tag) ==
  /\ mutex_events[a] = NoOne
  /\ scheduler = "start" /\ ~EarlyActions => start_tag <= tag
  /\ Begin(t, a, tag, "lock")
  /\ mutex_events' = [mutex_events EXCEPT ![a] = t]
  /\ UNCHANGED <<progress, stores, values, scheduling_mutex, scheduled>>

ScheduleEmpty(t, tag) ==
  /\ Begin(t, NoAction, tag, "lock")
  /\ UNCHANGED <<progress, stores, values, locks, scheduled>>

MutexesWithout(t) == [a \in PhysicalAction |-> IF mutex_events[a] = t THEN NoOne ELSE mutex_events[a]]

Lock_fault(t) ==    \* the mutex is not released
  /\ pc[t] = "lock" /\ scheduling_mutex = NoOne
  /\ scheduling_mutex' = t
  /\ IF call[t].tag <= logical_time
     THEN /\ Goto(t, "idle")
          /\ mutex_events' = MutexesWithout(t)
          /\ UNCHANGED scheduled
     ELSE /\ Goto(t, "find")
          /\ IF call[t].action = NoAction THEN UNCHANGED scheduled ELSE Promise(call[t].action, call[t].tag)
          /\ UNCHANGED mutex_events
  /\ UNCHANGED <<call, progress, stores, values, calls>>

(* A tag that has passed is refused. *)
Lock(t) ==
  /\ pc[t] = "lock" /\ scheduling_mutex = NoOne
  /\ IF call[t].tag <= logical_time
     THEN /\ Goto(t, "idle")
          /\ mutex_events' = MutexesWithout(t)
          /\ UNCHANGED <<scheduling_mutex, scheduled>>
     ELSE /\ Goto(t, "find")
          /\ scheduling_mutex' = t
          /\ IF call[t].action = NoAction THEN UNCHANGED scheduled ELSE Promise(call[t].action, call[t].tag)
          /\ UNCHANGED mutex_events
  /\ UNCHANGED <<call, progress, stores, values, calls>>

-----------------------------------------------------------------------------
(* insert_event_at(): the list of a tag *)

Inserted(t, l) ==
  /\ call' = [call EXCEPT ![t].list = l]
  /\ Goto(t, IF call[t].action = NoAction THEN "unlock" ELSE "push_back")

(* Under the shared lock. *)
Find(t) ==
  /\ pc[t] = "find"
  /\ \/ call[t].tag \in DOMAIN event_queue /\ Inserted(t, event_queue[call[t].tag])
     \/ call[t].tag \notin DOMAIN event_queue /\ Goto(t, "emplace") /\ UNCHANGED call
  /\ UNCHANGED <<progress, stores, values, locks, history>>

(* fill_action_list_pool(), when the pool is empty. *)
Filled ==
  IF action_list_pool = <<>>
  THEN [pool |-> [i \in 1..action_list_pool_increment |-> Len(lists) + i],
        lists |-> lists \o [i \in 1..action_list_pool_increment |-> NewList]]
  ELSE [pool |-> action_list_pool, lists |-> lists]

EmplaceLast(t, pool) ==
  /\ Inserted(t, pool[Len(pool)])
  /\ action_list_pool' = SubSeq(pool, 1, Len(pool) - 1)
  /\ event_queue' = [tag \in DOMAIN event_queue \cup {call[t].tag} |->
                       IF tag = call[t].tag THEN pool[Len(pool)] ELSE event_queue[tag]]

Emplace_fault(t) ==    \* the list is moved in any case, and null is left in the pool
  LET pool == Filled.pool
  IN  /\ pc[t] = "emplace"
      /\ lists' = Filled.lists
      /\ \/ call[t].tag \notin DOMAIN event_queue /\ EmplaceLast(t, pool)
         \/ /\ call[t].tag \in DOMAIN event_queue
            /\ Inserted(t, event_queue[call[t].tag])
            /\ action_list_pool' = [pool EXCEPT ![Len(pool)] = 0]
            /\ UNCHANGED event_queue
      /\ UNCHANGED <<progress, values, locks, history>>

(* Under the exclusive lock.  Another thread may have been faster; then    *)
(* try_emplace leaves the list in the pool.                                *)
Emplace(t) ==
  /\ pc[t] = "emplace"
  /\ lists' = Filled.lists
  /\ \/ call[t].tag \notin DOMAIN event_queue /\ EmplaceLast(t, Filled.pool)
     \/ /\ call[t].tag \in DOMAIN event_queue
        /\ Inserted(t, event_queue[call[t].tag])
        /\ action_list_pool' = Filled.pool
        /\ UNCHANGED event_queue
  /\ UNCHANGED <<progress, values, locks, history>>

-----------------------------------------------------------------------------
(* SafeVector::push_back(): a position is reserved, then written *)

Reserve(t) ==
  /\ pc[t] = "push_back"
  /\ call' = [call EXCEPT ![t].pos = lists[call[t].list].write_pos]
  /\ lists' = [lists EXCEPT ![call[t].list].write_pos = @ + 1]
  /\ Goto(t, "write")
  /\ UNCHANGED <<progress, event_queue, action_list_pool, values, locks, history>>

Written(t) == Goto(t, IF scheduling_mutex = t THEN "unlock" ELSE "value")

(* Under the shared lock. *)
Write(t) ==
  LET l == call[t].list
  IN  /\ pc[t] = "write"
      /\ \/ /\ call[t].pos < lists[l].vector_size
            /\ lists' = [lists EXCEPT ![l].vector[call[t].pos] = call[t].action]
            /\ Written(t)
         \/ call[t].pos >= lists[l].vector_size /\ Goto(t, "grow") /\ UNCHANGED lists
      /\ UNCHANGED <<call, progress, event_queue, action_list_pool, values, locks, history>>

(* Under the exclusive lock: grow until the position fits, and write.      *)
Grow(t) ==
  LET list == lists[call[t].list]
      pos == call[t].pos
      size == IF pos < list.vector_size THEN list.vector_size ELSE pos - (pos % size_increment) + size_increment
      resized == [i \in 0..(size - 1) |-> IF i < list.vector_size THEN list.vector[i] ELSE NoAction]
  IN  /\ pc[t] = "grow"
      /\ lists' = [lists EXCEPT ![call[t].list] =
                     [write_pos |-> list.write_pos, vector_size |-> size,
                      vector |-> [resized EXCEPT ![pos] = call[t].action]]]
      /\ Written(t)
      /\ UNCHANGED <<call, progress, event_queue, action_list_pool, values, locks, history>>

-----------------------------------------------------------------------------
(* The end of schedule() *)

Unlock(t) ==
  /\ pc[t] = "unlock"
  /\ scheduling_mutex' = NoOne
  /\ Goto(t, IF call[t].action = NoAction THEN "idle" ELSE "value")
  /\ UNCHANGED <<call, progress, stores, values, mutex_events, history>>

Value(t) ==
  /\ pc[t] = "value"
  /\ events' = [events EXCEPT ![call[t].action] = @ \cup {call[t].tag}]
  /\ mutex_events' = MutexesWithout(t)
  /\ Goto(t, "idle")
  /\ UNCHANGED <<call, progress, stores, present, scheduling_mutex, history>>

-----------------------------------------------------------------------------
(* The scheduler *)

(* Events that came before the start are discarded; the lists go back to   *)
(* the pool.                                                               *)
Start ==
  LET early == {tag \in DOMAIN event_queue : tag < start_tag}
  IN  /\ scheduler = "start" /\ scheduling_mutex = NoOne
      /\ logical_time' = start_tag - 1
      /\ \E order \in [1..Cardinality(early) -> early] :
           /\ Range(order) = early /\ \A i, j \in DOMAIN order : i < j => order[i] < order[j]
           /\ action_list_pool' = action_list_pool \o [i \in DOMAIN order |-> event_queue[order[i]]]
      /\ event_queue' = [tag \in DOMAIN event_queue \ early |-> event_queue[tag]]
      /\ scheduler' = "next"
      /\ UNCHANGED <<pc, call, triggered_actions, next_setup, lists, values, locks, history>>

(* next(): the last list goes back to the pool, the next event is taken.   *)
(* Without an event, the scheduler waits.  A list without actions is       *)
(* returned in the next iteration of the loop.                             *)
ReturnList_fault == action_list_pool    \* it is not returned

ReturnList == IF triggered_actions = 0 THEN action_list_pool ELSE Append(action_list_pool, triggered_actions)

Extract ==
  /\ scheduler = "next" /\ scheduling_mutex = NoOne
  /\ action_list_pool' = ReturnList
  /\ IF DOMAIN event_queue = {}
     THEN /\ triggered_actions # 0
          /\ triggered_actions' = 0
          /\ UNCHANGED <<event_queue, logical_time, scheduler>>
     ELSE LET tag == Min(DOMAIN event_queue)
          IN  /\ triggered_actions' = event_queue[tag]
              /\ event_queue' = Remaining(tag)
              /\ logical_time' = tag
              /\ scheduler' = IF lists[event_queue[tag]].write_pos = 0 THEN "next" ELSE "setup"
  /\ next_setup' = 0
  /\ UNCHANGED <<pc, call, lists, values, locks, history>>

(* Action::setup(), once for each entry of the list. *)
Triggered == lists[triggered_actions].vector[next_setup]

Setup ==
  /\ scheduler = "setup" /\ next_setup < lists[triggered_actions].write_pos
  /\ \/ Triggered \in present /\ UNCHANGED values
     \/ /\ Triggered \notin present
        /\ Triggered \in PhysicalAction => mutex_events[Triggered] = NoOne
        /\ events' = [events EXCEPT ![Triggered] = @ \ {Min(@)}]
        /\ present' = present \cup {Triggered}
  /\ next_setup' = next_setup + 1
  /\ UNCHANGED <<pc, call, scheduler, logical_time, triggered_actions, stores, locks, history>>

EndSetup ==
  /\ scheduler = "setup" /\ next_setup = lists[triggered_actions].write_pos
  /\ scheduler' = "react"
  /\ UNCHANGED <<pc, call, logical_time, triggered_actions, next_setup, stores, values, locks, history>>

Cleanup_fault ==    \* the list is not cleared
  /\ scheduler = "react" /\ \A w \in Worker : pc[w] = "idle"
  /\ present' = {}
  /\ scheduler' = "next"
  /\ UNCHANGED <<pc, call, logical_time, triggered_actions, next_setup, stores, events, locks, history>>

(* cleanup_after_tag(), when all reactions have ended.  *)
Cleanup ==
  /\ scheduler = "react" /\ \A w \in Worker : pc[w] = "idle"
  /\ present' = {}
  /\ lists' = [lists EXCEPT ![triggered_actions].write_pos = 0]
  /\ scheduler' = "next"
  /\ UNCHANGED <<pc, call, logical_time, triggered_actions, next_setup, event_queue, action_list_pool,
                 events, locks, history>>

Proceed(t) ==
  Lock(t) \/ Find(t) \/ Emplace(t) \/ Reserve(t) \/ Write(t) \/ Grow(t) \/ Unlock(t) \/ Value(t)

Process == Extract \/ Setup \/ EndSetup

Next ==
  \/ \E w \in Worker, tag \in Tag : ScheduleLogical(w, tag)
  \/ \E t \in Other, tag \in Tag :
       ScheduleEmpty(t, tag) \/ \E a \in PhysicalAction : SchedulePhysical(t, a, tag)
  \/ \E t \in Thread : Proceed(t)
  \/ Start \/ Process \/ Cleanup

Spec == Init /\ [][Next]_vars
FairSpec == Spec /\ WF_vars(Process) /\ \A t \in Thread : WF_vars(Proceed(t))

-----------------------------------------------------------------------------
(* Every variable keeps its type; there are no null pointers to lists.     *)
TypeOK ==
  /\ pc \in [Thread -> {"idle", "lock", "find", "emplace", "push_back", "write", "grow", "unlock", "value"}]
  /\ call \in [Thread -> [action : Action \cup {NoAction}, tag : Tag, list : Nat, pos : Nat]]
  /\ scheduler \in {"start", "next", "setup", "react"} /\ logical_time \in Nat
  /\ DOMAIN event_queue \subseteq Tag /\ \A tag \in DOMAIN event_queue : event_queue[tag] \in DOMAIN lists
  /\ action_list_pool \in Seq(DOMAIN lists)
  /\ \A l \in DOMAIN lists :
       /\ lists[l].write_pos \in Nat /\ lists[l].vector_size \in Nat
       /\ lists[l].vector \in [0..(lists[l].vector_size - 1) -> Action \cup {NoAction}]
  /\ triggered_actions \in Nat /\ next_setup \in Nat
  /\ events \in [Action -> SUBSET Tag] /\ present \subseteq Action
  /\ scheduling_mutex \in Thread \cup {NoOne}
  /\ mutex_events \in [PhysicalAction -> Thread \cup {NoOne}]

(* Each list is in one place: in the pool, at one tag, or being processed; *)
(* none is shared and none is lost, whoever wins the race for a tag        *)
(* (scheduler.cc:163, 169).                                                *)
ListsOwnedOnce ==
  /\ IsInjective(action_list_pool) /\ IsInjective(event_queue)
  /\ Range(action_list_pool) \cap Range(event_queue) = {}
  /\ triggered_actions \notin Range(action_list_pool) \cup Range(event_queue)
  /\ DOMAIN lists = Range(action_list_pool) \cup Range(event_queue) \cup ({triggered_actions} \ {0})

Inserting(tag) ==
  \E t \in Thread : call[t].tag = tag /\ pc[t] \in {"find", "emplace", "push_back", "write", "grow"}
HoldsScheduled(l, tag) ==
  \A a \in Action : Cardinality({i \in 0..(lists[l].write_pos - 1) : lists[l].vector[i] = a}) = scheduled[tag][a]

(* Nothing is lost, doubled or left over: the list of a tag holds each     *)
(* action as often as it was scheduled for this tag, when no call is on    *)
(* its way, and still when it is processed (safe_vector.hh:29-48).         *)
ListsHoldScheduled ==
  /\ \A tag \in Tag : logical_time < tag /\ ~Inserting(tag) =>
       IF tag \in DOMAIN event_queue
       THEN HoldsScheduled(event_queue[tag], tag)
       ELSE \A a \in Action : scheduled[tag][a] = 0
  /\ scheduler \in {"setup", "react"} => HoldsScheduled(triggered_actions, logical_time)

(* The assertions of Action::setup(): when an action is set up, it has a   *)
(* value, and the first one is that of the current tag, although the event *)
(* was in the queue before the value was stored.                           *)
ValuesAtTheirTag ==
  scheduler = "setup" /\ next_setup < lists[triggered_actions].write_pos =>
    \/ Triggered \in present
    \/ Triggered \in PhysicalAction /\ mutex_events[Triggered] # NoOne
    \/ events[Triggered] # {} /\ Min(events[Triggered]) = logical_time

(* A call of schedule() returns and setup() ends: no thread waits for ever *)
(* for a mutex, although some hold two of them (action_impl.hh:38-40).     *)
NobodyBlocks ==
  /\ \A t \in Thread : pc[t] # "idle" ~> pc[t] = "idle"
  /\ scheduler = "setup" ~> scheduler = "react"

=============================================================================
