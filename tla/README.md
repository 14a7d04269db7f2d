# reactor-cpp: TLA+ models and proofs

reactor-cpp executes *reactors*: components with reactions that are triggered
by actions, timers and ports. The runtime gives every event a *tag* (a time
point and a microstep), processes tags in order, and executes the reactions of
a tag level by level on a pool of worker threads. Environments can be nested
("enclaves"), each with a scheduler and a clock of its own, coupled by
connections. A second layer, reactor-sdk, builds programs for the runtime.

This directory models the runtime in TLA+, checks the models with TLC on small
instances and proves the most important results with TLAPS for all instances.
Line numbers refer to the files under `src/`.

## The system

| part | state | operations | interacts with |
|------|-------|------------|----------------|
| worker pool (`lib/scheduler.cc` 31-140, `semaphore.hh`) | `queue_`, `size_`, `waiting_workers_`, the semaphore, `reactions_to_process_` | `work`, `pop`, `fill_up` | the last worker of a level runs the scheduler's main loop |
| scheduler main loop (`lib/scheduler.cc` 242-436) | `logical_time_`, `event_queue_`, `triggered_actions_`, `stop_`, `continue_execution_` | `start`, `next`, `cleanup_after_tag`, `stop` | event queue, physical clock, input actions, environment (shutdown) |
| scheduling interface (446-500) | the event queue, under `scheduling_mutex_` | `schedule_sync`, `schedule_async`, `schedule_async_at`, `schedule_empty_async_at` | reactions, other threads, other schedulers |
| event queue and action lists (142-190, `safe_vector.hh`) | map from tags to lists, pool of lists | `insert_event_at`, `extract_next_event`, `discard_events_until_tag`, `push_back` | called by many workers at once |
| tags (`logical_time.cc`) | none | comparison, `delay`, `subtract`, `decrement`, `advance_to` | everything above |
| time barriers (`time_barrier.hh`) | `last_observed_physical_time_`, `released_time_` | `acquire_tag`, `release_tag` | scheduler mutex and condition variable |
| actions (`action.cc`, `action_impl.hh`) | `events_`, `value_ptr_`, `present_` | `schedule`, `schedule_at`, `setup`, `cleanup`; `Timer` and `ShutdownTrigger` reschedule themselves | scheduling interface |
| connections (`connection.hh`) | bound ports, a `LogicalTimeBarrier` | callbacks on set ports, `acquire_tag` for the downstream scheduler | two schedulers |
| environment (`environment.cc`) | `phase_`, start and time-out tag, dependency graph, contained environments | `assemble`, `calculate_indexes`, `startup`, `sync_shutdown`, `async_shutdown` | scheduler, reactors |
| ports and multiports (`port.cc`, `port_impl.hh`, `multiport.hh`) | bindings, value, present list | `set`, `cleanup`, `set_present` | `set_port`, connections |
| SDK (`reactor-sdk/`, `include/reactor-sdk/`) | lists of ports and banks, parameter tables | wiring, configuration | builds environments and reactors |

What is hard here: workers race for slots of an unlocked vector guided by
atomic counters; asynchronous calls race with a scheduler that sleeps on a
condition variable; two schedulers hold each other's progress; time-out and
three shutdown paths meet; timers must neither drift nor be lost.
`PROJECT.json` lists these hazards at their lines.

## Worker pool

`LevelExecution` says what the pool promises: the reactions of a *level* are
begun and ended in any order and in parallel, each once; the next level is
published when all have ended; workers stop when nothing is left, and nothing
is published from then on. Published levels are executed to their end
(fairness on beginning and ending reactions).

`WorkerPool` is the implementation, with one action per access to shared
memory. A worker's `pc` tells where it stands:

| pc | code |
|----|------|
| `start` | `Worker::work` 31-40; worker 0 goes to `schedule`, the others to `pop` |
| `schedule` | `Scheduler::schedule`: a sorted level without duplicates (`ScheduleReady`) or the null reactions (`TerminateAllWorkers`) |
| `fill_up`, `exchange` | `fill_up`: swap of `queue_` (113-114), exchange of `size_` (119) |
| `load`, `store`, `wake` | `fill_up`: `waiting_workers_ += -old_size` (130), the rest with the release of the semaphore (131-138) |
| `pop`, `acquire`, `read` | `pop`: `fetch_sub` (96, 103), `Semaphore::acquire`, `queue_[pos]` (108) |
| `execute`, `done` | the reaction runs; the worker has seen a null reaction |

What `schedule()` finds is left open, so the pool is checked and proved for
every program. `waiting_workers_` is a plain integer that two threads can
update at once (see below); its update is therefore split into load and store,
and the compiler may keep the value in a register or read it again.

The history variable `overlap` records that `schedule()` was entered while
another thread was still inside `fill_up`. The comment in `Worker::work` says
this cannot happen; it can. After the exchange of `size_` (line 119) any
running worker can take, execute and finish the whole new level and start
scheduling, while the first thread has not yet updated `waiting_workers_`.

Runs:

| run | instance | result |
|-----|----------|--------|
| `pool` | 3 workers, levels of up to 2 reactions, every worker fair | all invariants hold, termination (unless overlapped), and the pool implements `LevelExecution` with its liveness |
| `pool_hang` | 3 workers | `NoHang` violated: the overlap loses the wake-up that terminates |

Three workers are the fewest with which an overlap loses a wake-up. All counters are
bounded by the algorithm, so the state spaces are complete without a bound on
the steps. The only fairness is weak fairness of each worker: a thread that can
run is eventually run. The pool stops when all workers are done, so deadlock is
not reported by TLC; `NoHang` says what a bad stop is.

### Proofs

`WorkerPoolProofs` proves for any finite set of workers and of reactions:

- `TypeCorrect`, `SchedulerExclusive`, `ReactionsExclusive`, `CounterIsExact`:
  from the inductive invariant `LevelInv`. It says where the scheduler stands
  and what the vectors hold then, that the holders of slots occupy distinct
  positions at or above `size_`, and that the counter is the number of
  unfinished slots. The strengthening is needed because `CounterExact` alone
  does not survive `Finish`: one must know that the slots held are distinct.
- `WaitersAreAccounted`, `WaitingIsBounded`, `WakesAreEnough`,
  `NoHangUnlessOverlap`: from a second invariant, relative to the first, that
  relates the number of workers in `acquire` to `waiting_workers_`, the tokens
  and the negative part of `size_`, with a correction for each intermediate
  point of `fill_up`. Its steps are cardinality arguments about the set of
  blocked workers.
- `PoolImplementsLevels`: every step maps to a step of `LevelExecution` or to
  a stutter.

The results of the second kind and the termination hold only under `~overlap`;
`pool_hang` shows that the condition cannot be dropped. Liveness, `Terminates`
and that of `LevelExecution`, is model-checked only.

## Tags

`Tags` translates `logical_time.hh` and `logical_time.cc`: the order, `delay`,
`subtract` and `decrement`, with microsteps from 0 to `MaxMicrostep`, the
largest value of `mstep_t`. Times are integers; their 64 bits are not exhausted
in practice and not modelled. The sum in `delay` wraps around when the validation
before it is compiled out or its outcome ignored; `Overflows` says when the
validation fails.

The run `functions` compares the operators with reference definitions, for all tags
with times up to 4 and microsteps up to 3 and delays up to 2: `delay` gives the
first tag that the delay permits;
`subtract` the last tag that can still cause an event at or before a given one;
`decrement` the last tag before. These ranges contain each case of each operator
(a zero or positive delay, the smallest and the largest microstep, equal,
adjacent and distant times).

`TagProofs` proves, for any largest microstep and all integer times:
`DelayIsLater`, `DecrementIsPredecessor`, `SubtractIsAdjoint` (what makes the
tag that a delayed enclave connection waits for both sufficient and necessary)
and `DelayIsMonotone`. They follow from the definitions by cases; the width of
the microstep matters in `DelayIsNext` only. `FunctionProofs` carries them over
to the properties that the run checks, `DelayIsFirst`, `SubtractIsLatest` and
`DecrementIsLast`, which hold for any ranges of times, delays and microsteps.

## Scheduler main loop

`DiscreteEvents` says what a scheduler promises: events are scheduled in the
future of the current tag only; the time moves to the earliest pending tag; all
actions with an event at this tag are present together; no pending event is
dropped once the execution has begun.

`Scheduler` is the implementation, for each environment by itself. An action is
what happens between two points at which `scheduling_mutex_` is released or
another thread can get in between. `pc` tells where the thread that schedules
stands:

| pc | code |
|----|------|
| `startup` | `Environment::startup`: timers and shutdown triggers insert their first events |
| `start` | `Scheduler::start` 242-263: the logical time, discarding early events |
| `next`, `final` | before `cleanup_after_tag`, called by `next` or by `schedule` when the execution ends |
| `loop` | the head of the loop in `next` (327-) |
| `await_event`, `await_time` | the waits on `cv_schedule_` (336, and in the physical time barrier) |
| `stopping` | after `sync_shutdown` in `next`, the mutex still held (344-356) |
| `take` | a tag has been acquired, the mutex is held (390-408) |
| `release` | no action is triggered at the tag (409-419) |
| `react` | the workers execute reactions |
| `done`, `crashed` | the workers are terminated; the program is terminated by an exception in `Tag::delay`, which is `noexcept` |

Other threads insert events (`ScheduleAsync`, `ScheduleAsyncAt`,
`ScheduleEmpty`) and call `async_shutdown` whenever the mutex is free; the
notification comes in a step of its own where the code notifies after it has
released the mutex (468, 480, 497), and in the same step where it does not. Reactions
schedule logical actions and request the shutdown during `react`; which
reactions do so is left open, so that every program is covered. A wait ends by a
notification (`WakeUp`), spuriously, or by its time-out, at any time from the
deadline on. The event queue is a set of pairs of a tag and an action: the
order in a list and repetitions do not matter to the main loop. Input actions are
represented by what they do: they make the scheduler wait for the physical
clock in fast forward mode.

Assertions and validations of the code are recorded in `failed`; a release build does
not notice the former.

What is assumed:

- the clock never runs backwards (`physical_time` only grows);
- `Latency`: a clock that is read after a wake-up shows a time after the
  deadline. Without it `schedule_async` can produce the tag that is being
  processed;
- `~EarlyShutdown`: `async_shutdown` is not called between `startup` and the
  first tag, when it terminates the program. `sched_fast` drops this;
- no reaction of an environment adds microsteps without end (`MaxMicro`).

Runs, all with one environment, since environments share only the clock here:

| run | instance | result |
|-----|----------|--------|
| `sched_timeout` | real time, periodic timer, logical and physical action, shutdown trigger, time-out | events in the future, no early tag, exact timer, one shutdown round at the end, nothing after the time-out, `DiscreteEvents` implemented |
| `sched_async` | fast forward, physical action, calls of `schedule_async` and `schedule_at` by other threads | no lost wake-up, all events processed, termination when asked to stop |
| `sched_fast` | fast forward, one-shot timer, empty events with tags before the start and at the largest microstep, early shutdown | events before the start are discarded, shutdown reactions run, released tags are over |

The bounds: the clock runs from `StartTime` = 1 to `MaxTime` = 4 or 5, the
timer starts at 2 with a period of 2 and the time-out is 3 after the start, at 4, so that the
timer fires before the time-out, together with it and would fire after it.
Microsteps go up to 3, delayed events
up to `MaxMicro` = 1 past which only the shutdown goes, and the last value is the
one of `decrement`. Other threads make `MaxCalls` = 2 calls: enough for one
to interrupt a wait that another began, and for a shutdown to meet an event.
Deadlock is not checked: environments terminate, and the clock stops at its
bound.

Fairness: weak fairness of the threads of an environment and of notifications
that are under way (threads that can run are run), and of the clock. Calls from
other threads, what reactions do, and spurious wake-ups are not fair: nothing depends on
them. `EventsProcessed` is stated for times before `MaxTime`, which the clock passes.

Observations. The first three are definitions of `Scheduler` that TLC finds violated
when the assumption is dropped:

- without `Latency`, `ScheduledLater` fails: the barrier demands that the clock
  is past the tag when it reads it, but accepts a clock that shows exactly the
  tag's time when the wait times out. A physical action scheduled at that moment
  gets the current tag.
- with `EarlyShutdown`, `start` sets the logical time to the largest microstep
  before the start tag; `async_shutdown` adds one and terminates the program. The
  finding of `enclaves_overflow` is the same overflow on another way.
- without shutdown triggers, `ReleasedOnce` fails: if a stop leaves no last
  round, the tag is released in `next` and once more by its caller.

Two more: without shutdown triggers, an
environment passes its time-out unless another event has exactly that tag, and
`async_shutdown` takes effect only after the next tag (`stop_` is not part of
the predicate of that wait). `StopsAtTimeout` and `StopIsPrompt` are checked
with shutdown triggers.

### Proofs

`SchedulerProofs` proves, for any environments, actions, timers, delays and
given tags:

- `TypeCorrect`, from `TypeInv`, which is stronger than `TypeOK`: all times are
  natural numbers, and the clock is past `StartTime`. It needs that `next_tag`
  returns a queued tag (`NextTag`): a queue may be infinite, but its
  times and microsteps are natural numbers, so that each set of them has a
  least element.
- `TagsAreNeverEarly`, from `ClockInv`: while the scheduler waits for a tag its
  queue is not empty, and in `take`, with the mutex held, `t_next` is still
  the first tag of the queue and in the past of the clock.
- `EventsStayInFuture`, `SchedulingAssertionHolds`, `ReleasedStaysOver`, from
  `FutureInv`, relative to the other two: all events are after the
  logical time, which is at or after the released time, and strictly after it while
  reactions execute. It rests on `DelayIsLater` for logical actions, timers
  and the shutdown, and on `ClockInv` for physical actions.
- `SchedulerImplementsEvents`: `start` maps to `Begin`, `Take` and the last round
  of `Stop` to `Advance`, everything else to `Schedule` or to a stutter.

Each invariant is shown with a frame lemma for the actions that do not touch
its variables, and `Local` says that the steps of one environment leave the others
alone. The last two items are proved under `AsyncIsLater`: `Latency`, or no physical
actions; without it `ScheduledLater` is violated.

`ShutdownProofs` continues with how a scheduler waits and ends:

- `NoWakeUpIsLost` (`NoLostWakeUp`), from `WakeInv`: whoever waits although
  something has come up has been notified, or a notification is under way.
- `TimersAreExact` (`TimersExact`), from `TimersInv`: a periodic timer is either
  triggered, at one of its expiries, or has exactly one event, which is the first one or
  at most a period after the logical time.
- `StopsPromptly` (`StopIsPrompt`), `ShutdownRoundIsLast` (`LastRound`),
  `NoShutdownReactionIsMissed` (`ShutdownReactionsRun`) and `TimeoutIsNotPassed`
  (`StopsAtTimeout`), from `RequestInv` and `LastInv`. A stop that is requested
  waits, with the shutdown events, for the very next microstep, so that no other tag is
  selected; with a time-out its events are in the queue until they are taken;
  and `continue_execution_` is reset in the round that triggers the shutdown
  triggers and in no other.
- `AdvanceAssertionHolds` and `NoAssertionFails` (`NothingFails`), from
  `AdvanceInv` (a tag that is still to be released is later than the released
  time) and `MicroInv` (microsteps before the shutdown are bounded).

The first two need no hypotheses. The others assume `ClockIsPast` (`Latency`, unless
nothing waits for the clock): without it TLC finds `LastRound` and
`ShutdownReactionsRun` violated, when the shutdown is requested while the
scheduler waits for what is the next microstep anyway, whose events are then taken without
a reset of `continue_execution_`. `StopsAtTimeout`, `StopIsPrompt` and the assertions
need `AllHaveTriggers`: only the events of shutdown triggers stop a scheduler (see
above). `NothingFails` also needs `AllBegin` (every environment has something to begin
with, and `~EarlyShutdown`) and `SmallTags` (other threads do not ask for microsteps
past `MaxMicro`), since the shutdown takes one microstep more.

Only model-checked: `Stops` and `EventsProcessed`, which are liveness properties.

## Assembly, ports and reactions

`Assembly` follows a program from its construction to its start. A program is
the sequence of the statements its `assemble()` methods execute: drawing
connections and declaring triggers, dependencies and antidependencies.

| action | code |
|--------|------|
| `Construct` | `Environment::construct` |
| `draw_connection`, `declare_*` | `Environment::draw_connection`, `Reaction::declare_*` with their validations |
| `Instantiate` | the loop of `Environment::assemble` over the edges of `graph_`, in any order, since the ports are ordered by address |
| `build_dependency_graph`, `calculate_indexes`, `ReportLoop` | `environment.cc`: dependencies through the inward bindings, one round of erasing reactions without dependencies, and the answer to a loop |
| `FinishIndexing`, `Startup` | the phases up to `Execution`; contained environments come after their container |

`Execution` adds what an assembled environment does in a tag: `cleanup_after_tag`,
`next` with the events of actions and connections, `schedule_ready_reactions`
level by level, and the reactions of a level, which begin (`trigger`), set their
ports (`set` with `set_port_helper`, the callbacks of multiports and
connections) and end in any interleaving. Which of its ports a reaction sets, how
often, and which events a tag has is left open. An environment processes tags once those it
contains have been started (`Executing`).

One environment, `Here`, is followed. `SetPorts` triggers whatever is bound to
a port that is set, in whatever environment it is, as `set_port_helper` does; the ports
of other environments are set in the schedulers there.

| run | instance | result |
|-----|----------|--------|
| `program` | five reactors in two environments, one contained in another; two connections of any types and in both orders where it matters, a plain one into the enclave, a chain of four and faulty programs; two tags, two calls of `set` per reaction | all properties hold |
| `assembly_loop` | the same programs | `LoopIsReported` violated |
| `assembly_grouping` | the same programs | `GroupedByProperties` violated |

Two tags are enough for something to be left over from the first; two calls of
`set` for a port to be set again. `MaxDepth` bounds how often the calculation
of the indexes starts over (it would for ever). Deadlock is not checked: the
tags end, and faulty programs stop at a failed validation.

Findings:

- `assembly_loop`: the answer to a loop in the dependency graph is to export
  the graph, which calculates the indexes first. The error promised is never
  thrown; the calls nest until the stack ends.
- `assembly_grouping`: `map_key_compare` asks for properties that are equal and
  less at once, so that all connections of a port are instantiated with the
  properties of the one drawn first.

### Proofs

`ExecutionProofs` proves for any tree of reactors, program and priorities (the
second and third for programs without `CrossesEnvironments`, see below):

- `RunOrders` (`IndexesOrder`), from `IInv`: the graph is built only when
  declarations and bindings are fixed, what has been erased from the graph is closed
  under dependencies, and the indexes given so far are ordered by them. That
  reactions with consecutive priorities are ordered gives the order of all
  reactions of a reactor by an argument on a smallest gap (`PrioritiesOrdered`).
- `ReactorsAreExclusive`, from `IInv` and `RunInv`: all that is ready or running
  has the index of the current level, and reactions of one reactor have
  different indexes.
- `InputsAreStable` (`StableInputs`), `PresenceIsOfThisTag` (`PresenceOfThisTag`)
  and `ReactionsRunOnce` (`TriggeredRunOnce`), from `ExecutionInv`. `HereInv` says
  that nothing but what belongs to `Here` is triggered or set, since what is downstream
  of its ports is its own (`DownstreamInside`); `PastInv` that nothing past the position
  of the queue has begun. `BindInv`
  says that the ports follow the connections drawn; `PortInv` that the
  ports present are those downstream of a port set in this tag; `LevelInv` and
  `RanInv` that what a reaction triggers lies past the level that is processed, and
  nothing past it has begun; and by `IInv` whoever can
  set what a reaction reads has an earlier index and has ended when it begins.
- `EveryReactionHasALevel`, from `CountInv`: each index given was given to a
  reaction that has been erased, so that there are no more levels than reactions.

`Upstream` and `Downstream` are recursive functions over the number of
connections that are followed. What they return is proved by an argument on the
smallest number of hops at which a statement about the set of ports
reached fails (`SetInduction`), since the theorems on induction take an operator.
`ReachesOrigin` relates the two directions: from a port one comes back along the
inward bindings to exactly those sources that trigger it, unless a port is bound
twice.

Programs in which a port is the sink of two connections (`BoundTwice`) are
excluded where the code does not say what it means by them: from
`TriggeredRunOnce` and from the lists of multiports. `StableInputs` covers them.

Nothing in the code validates that a plain connection stays within one
environment (`CrossesEnvironments`). If it does not, a reaction of the
other environment goes to the queue here, at a level that may be past its end, while
the other scheduler runs the same reaction and sets the same ports, which
`Execution` does not have. The theorems on `ReactorExclusive`, `StableInputs`,
`TriggeredRunOnce` and `PresenceOfThisTag` state `~CrossesEnvironments` for that reason.
`RunOrders` and `EveryReactionHasALevel` do not need it: where a writer is in another
environment, the reader is never erased from the graph and the program does not
start. The run `program` checks the properties without that exception; a program
with a plain connection into the enclave shows what the model does there, not that
two schedulers may share reactions.

## Enclaves

`Enclaves` has one scheduler per environment, coupled by `EnclaveConnection`
and `DelayedEnclaveConnection`. Only the tags of events matter.

| pc | code |
|----|------|
| `start` | `Scheduler::start`: the first release |
| `loop` | the head of the loop in `next`; `Select` picks a tag and the inputs to ask, one after the other |
| `request` | `acquire_tag` of one connection (`connection.hh` 146-176, 213-222): the barrier, else an empty event upstream |
| `wait` | the wait for the release or for an earlier event |
| `react` | reactions send over connections (`Send`) and schedule actions (`ScheduleSync`) |
| `release` | `release_current_tag`, one callback after the other, without the mutex |
| `done` | terminated |

| run | instance | result |
|-----|----------|--------|
| `enclaves` | a chain of three, a cycle with a delay, a cycle with a delay of a microstep, two connections in parallel, with and without delay, and a single delayed one | `EventsAccepted`; `TagsAreGranted` |
| `enclaves_overflow` | one delayed connection | `NoOverflow` violated |

Bounds: events up to `MaxTime` = 3 from `StartTime` = 2, microsteps up to
`MaxMicro` = 1 by reactions and `MaxMicrostep` = 3 as the largest value, so that
events with and without delay meet at a time and the largest microstep (which
requests over delayed connections use) is not one that reactions schedule. The
overflow run has a `MaxMicrostep` of 100, to show that no chain of microsteps is
needed. Two upstream environments of one (a join) are left out for the size;
`Parallel` has a target with two inputs. `FairSpec` assumes weak fairness of
each scheduler's `Step`; reactions need not send anything.

What the code does at its limits, and the properties therefore except: an
environment that has terminated answers a request with success but never
processes the tag, and its downstream environment waits for ever
(`connection.hh` 164); an environment that is stopping processes one more microstep
that it did not acquire, and refuses events for it; environments in a cycle
without any delay wait for each other.

Finding: `enclaves_overflow`. A request over a delayed connection names the
largest microstep; an upstream environment that has nothing else to do shuts down
there, which asks for the next microstep and terminates the program.

### Proofs

`EnclaveProofs` proves for any topologies, delays and first events `TypeCorrect`
and `NothingComesTooLate` (`EventsAccepted`). The inductive invariant `IInv`
says: a barrier is never ahead of its upstream environment, and strictly behind
it while reactions execute (`ReleaseInv`); queued tags are in the future
(`FutureInv`); each connection already asked for `t_next` has granted it, and grants
are stable (`AskedInv`); so the current tag of an environment that is not
stopping is granted by all its inputs (`AcquiredInv`). With `SubtractIsAdjoint` a
granted tag lies before whatever the upstream environment can still send.

## Event storage and actions

`Events` has the threads of `schedule()` and `schedule_at()` down to the locks
and atomic operations of `EventQueue` and `SafeVector`. Tags are numbers here.

| pc | code |
|----|------|
| `lock`, `unlock` | `scheduling_mutex_`, in `schedule_async_at` and `schedule_empty_async_at` |
| `find`, `emplace` | `insert_event_at`: under the shared lock, and under the exclusive one |
| `push_back`, `write`, `grow` | `SafeVector::push_back`: reserving a position, writing under the shared lock, growing under the exclusive one |
| `value` | `events_[tag] = value_ptr`, after the event is in the queue |

The scheduler goes through `start` (discarding early events), `next`
(`Extract`), `setup` (`Action::setup` for each entry), `react` and
`cleanup_after_tag`. Entries are actions and a value is only present or absent; the
order within a list and what values are does not matter here. A timer that
reschedules itself in `cleanup()` is covered by the call of a reaction: it inserts at a
later tag, by the same functions.

The run `events` has two workers with a logical action each, and two other threads
with a physical action and empty events, for three tags and four calls
(`MaxCalls`). Both increments are 1, so that with two lists the pool has been
filled again and with two entries the vector has grown; four calls are enough for two
threads to race for a tag while two others race for a position in its list.
`start_tag` = 2 leaves one tag to be discarded. Weak fairness of each thread inside a call
(`Proceed`) and of the scheduler gives `NobodyBlocks`; calls and the end of
reactions are not fair. Deadlock is not checked, since the calls end.

`EarlyActions` is FALSE: physical actions are not scheduled for tags before the
start tag. The code discards such events but keeps their values and the entries in the
lists it returns to the pool, so that the action would be triggered later, at
another tag (`scheduler.cc` 188). Empty events for early tags are modelled: they
have no entries.

### Proofs

`EventsProofs` proves for any numbers of threads, actions, tags and calls:

- `TypeCorrect` and `ListsAreOwned` (`ListsOwnedOnce`), from `IInv`. A thread that
  inserts refers to a list that is in the queue at the tag of its call, up to
  `write_pos` each position is written or has a writer, and inserting threads hold
  the scheduler's mutex or are workers while reactions execute, so that no
  thread refers to the list being processed.
- `ValuesArrive` (`ValuesAtTheirTag`), from `VInv`, relative to `IInv` and under
  `~EarlyActions`. An action is *committed* for a tag when its entry is written and
  until it is set up: its value is in `events`, or a thread is about to store
  it. `VInv` says that what is committed has an entry in the queue or among those
  still to be set up, and that each written entry is committed; that lists
  in the pool are empty, that writers have different positions, and that the queue is in the
  future. Values are hence never before the current tag, and the first one is
  that of the entry being set up.

- `ListsAreComplete` (`ListsHoldScheduled`), from `HeldInv`, relative to both and
  under `~EarlyActions`: for a tag that has not been reached, an action was
  scheduled as often as there are threads on their way to write it plus entries
  of it that are written. The steps of `push_back` move a thread from one set to
  the other; `extract_next_event` finds no thread on its way.

`NobodyBlocks`, a liveness property, is model-checked only.

## Wiring

`Wiring` translates the wiring operators of the SDK: for each overload of
`connect()` that compiles, which pairs of ports it connects, as a function of the
two operands and, where `std::set` is used, the addresses of the ports. The run
`functions` goes through all statements with banks of up to three reactors of
up to three ports, the reactors anywhere in memory (three tell apart the first, the
last and one in between): `PairedByIndex`, `OneSource` and
`AllPartnersConnected`. Accumulated ports (`operator+`) are excepted from the last; the loop
over them ends before it begins.

### Proofs

`FunctionProofs` proves the three properties, as `PortsArePairedByIndex`,
`PortsGetOneSource` and `PartnersAreConnected`, for banks and multiports of any
width anywhere in memory. `StatementInv` says what operands are: sequences of
reactors whose ports have addresses of their own, ascending within a reactor. Each
overload is reduced to one of four forms (`FormOf`): one port to one port, in turn, in pairs, and
in pairs after sorting the right side. It rests on two groups of lemmas:
what `FlattenSeq` returns (`FlattenRow`, `FlattenColumn`, `FlattenDistinct`, by the
smallest prefix that fails), and that a finite set of ports has exactly one
ascending enumeration (`OrderExists` by counting the lower addresses of each port,
`OrderIsUnique` by the first place where two differ). `InAddressOrder` is
therefore defined as the ascending enumeration rather than by sorting.

## What is checked and what is proved

The modules `MCWorkerPool`, `MCScheduler`, `MCProgram`, `MCEnclaves` and `MCEvents`
give the constants of the modules they extend small values for TLC;
`MCFunctions` checks the pure functions of `Tags` and `Wiring` over bounded
inputs. A run is one of these modules with one of the `.cfg` files of its name
in the tables above: `tlc -config pool.cfg MCWorkerPool`.

| property | TLC | TLAPS |
|----------|-----|-------|
| pool: `TypeOK`, `ExclusiveReactions`, `CounterExact`, `WaitersAccounted`, `NoHangWithoutOverlap` | yes | yes |
| pool: `OneScheduler`, `QuiescentQueue`, `WaitingBounded`, `WakesEnough` | covered by the proofs | yes |
| pool: `ImplementsLevels` | yes | safety part |
| pool: `Terminates` | yes | out of reach (liveness) |
| tags: `DelayIsFirst`, `SubtractIsLatest`, `DecrementIsLast` | yes | yes |
| wiring: `PairedByIndex`, `OneSource`, `AllPartnersConnected` | yes | yes |
| scheduler: `TypeOK`, `NeverEarly`, `EventsInFuture`, `ReleasedIsOver`, `ImplementsEvents` | yes | yes |
| scheduler: `TimersExact`, `LastRound`, `ShutdownReactionsRun`, `StopsAtTimeout`, `StopIsPrompt`, `NoLostWakeUp`, `NothingFails` | yes | yes |
| scheduler: `Stops`, `EventsProcessed` | yes | out of reach (liveness) |
| program: `IndexesOrder` | yes | yes |
| program: `ReactorExclusive`, `StableInputs`, `TriggeredRunOnce`, `PresenceOfThisTag` | yes | yes, without `CrossesEnvironments` |
| enclaves: `TypeOK`, `EventsAccepted` | yes | yes |
| enclaves: `TagsAreGranted` | yes | out of reach (liveness) |
| events: `TypeOK`, `ListsOwnedOnce`, `ValuesAtTheirTag` | yes | yes |
| events: `ListsHoldScheduled` | yes | yes |
| events: `NobodyBlocks` | yes | out of reach (liveness) |

Every safety property of a passing run is also a theorem, under the exceptions stated above. Liveness under fairness is out of the
reach of the installed provers, and the theorems on induction, which take an operator
as a parameter, cannot be cited: what recursive functions compute is proved by
arguments on a smallest counterexample where it is needed. The proofs rest on the assumptions named in the modules
(`ASSUME`), which TLC evaluates on the instances of the runs.

How the modules fit together: `Scheduler` leaves open what reactions do and how the
event queue is stored, `WorkerPool` which reactions are ready, `Execution` which tag
is next and how a level is shared by the workers, `Enclaves` what is in an event,
`Events` when a tag is taken. Each of these choices is the subject of another
module, so that each is checked for whatever the others can do.

## Not modelled

- SDK environment and reactors: a layer of templates that forwards to the core, in
  one thread before the start. `Reaction.hh` passes on triggers,
  dependencies and deadlines; `Environment.cc` constructs reactors and calls
  their virtual functions.
- SDK configuration: a map of parameters read once, before the start; no order of
  steps matters.
- Wiring overloads that do not compile when used (banks of multiports by pointer to
  member as targets, and from a bank of multiports to another by offset).
- Value pointers: ownership is enforced by types.
- Logging, tracing, statistics and the export of the dependency graph: they
  observe. Assertions and validations are properties and failures of the models.
- A system clock that is set back; the width of times.
- Examples, tests, build files and scripts: read as documentation.

## Plan

What could follow: `Enclaves` with two
upstream environments of one; a refinement of `DiscreteEvents` by `Enclaves`;
an abstract specification that `Execution` implements.
