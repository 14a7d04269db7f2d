----------------------------- MODULE WorkerPool -----------------------------
(***************************************************************************)
(* The worker threads of one scheduler and the queue they take ready       *)
(* reactions from: Worker::work, ReadyQueue::pop, ReadyQueue::fill_up, the *)
(* Semaphore they block on and the counter reactions_to_process_ that      *)
(* decides who calls Scheduler::schedule next.                             *)
(*                                                                         *)
(* There is one action per access to shared memory.  What schedule() finds *)
(* is left open: a level of the reaction queue (any set of reactions) or   *)
(* the end of the execution.  A reaction stands for its address, since     *)
(* schedule_ready_reactions sorts a level by address.                      *)
(***************************************************************************)
EXTENDS Integers, Sequences, FiniteSets

CONSTANTS Worker,    \* the threads Scheduler::start creates
          Root,      \* the worker with identity_ 0
          Reaction,  \* the addresses of the reactions of the program
          Null       \* the nullptr that tells a worker to terminate

ASSUME WorkerAssumption == IsFiniteSet(Worker) /\ Root \in Worker
ASSUME ReactionAssumption == /\ IsFiniteSet(Reaction)
                             /\ Reaction \subseteq Nat
                             /\ Null \notin Reaction

VARIABLES
  pc,                    \* what each worker does next
  old,                   \* its local old_size, in pop() or in fill_up()
  reaction,              \* its local reaction, in work()
  new_size,              \* its local new_size, in fill_up()
  register,              \* its copy of waiting_workers_, in fill_up()
  ready,                 \* the vector schedule() passes to fill_up()
  queue,                 \* ReadyQueue::queue_
  size,                  \* ReadyQueue::size_
  waiting_workers,       \* ReadyQueue::waiting_workers_
  count,                 \* Semaphore::count_
  reactions_to_process,  \* Scheduler::reactions_to_process_
  overlap                \* history: did schedule() ever start inside fill_up()?

locals == <<old, reaction, new_size, register>>
vars == <<pc, locals, ready, queue, size, waiting_workers, count,
          reactions_to_process, overlap>>

num_workers == Cardinality(Worker)

(* Definitions named X_fault are faulty variants of the definition X that  *)
(* follows them.  They are not part of the specification: they stand for   *)
(* plausible mistakes, which the properties must be able to tell apart.    *)

Level_fault ==    \* std::unique forgotten
  UNION {{q \in [1..n -> Reaction] : \A i, j \in 1..n : i < j => q[i] <= q[j]} :
         n \in 1..Cardinality(Reaction)}

(***************************************************************************)
(* A level as schedule_ready_reactions leaves it: sorted, no duplicates.   *)
(***************************************************************************)
Level == UNION {{q \in [1..n -> Reaction] : \A i, j \in 1..n : i < j => q[i] < q[j]} :
                n \in 1..Cardinality(Reaction)}

null_reactions_fault == [i \in 1..(num_workers - 1) |-> Null]    \* one too few

null_reactions == [i \in 1..num_workers |-> Null]

(***************************************************************************)
(* A worker that has not started yet is about to do what work() begins     *)
(* with.                                                                   *)
(***************************************************************************)
Scheduling == {"schedule", "fill_up", "exchange"}
Waking == {"load", "store", "wake"}
Holding == {"read", "execute"}
Location == {"start", "pop", "acquire", "done"} \cup Scheduling \cup Waking \cup Holding

At(w, l) == pc[w] = l
Goto(w, l) == pc' = [pc EXCEPT ![w] = l]

(* The local variables of w go out of scope. *)
Forget(w) ==
  /\ old' = [old EXCEPT ![w] = 0]
  /\ reaction' = [reaction EXCEPT ![w] = Null]
  /\ new_size' = [new_size EXCEPT ![w] = 0]
  /\ register' = [register EXCEPT ![w] = 0]

Init ==
  /\ pc = [w \in Worker |-> "start"]
  /\ old = [w \in Worker |-> 0]
  /\ reaction = [w \in Worker |-> Null]
  /\ new_size = [w \in Worker |-> 0]
  /\ register = [w \in Worker |-> 0]
  /\ ready = <<>>
  /\ queue = <<>>
  /\ size = 0
  /\ waiting_workers = 0
  /\ count = 0
  /\ reactions_to_process = 0
  /\ overlap = FALSE

-----------------------------------------------------------------------------
(* Worker::work *)

Start(w) ==
  /\ At(w, "start")
  /\ Goto(w, IF w = Root THEN "schedule" ELSE "pop")
  /\ UNCHANGED <<locals, ready, queue, size, waiting_workers, count,
                 reactions_to_process, overlap>>

(* The reaction ends; the worker that ends the last one schedules. *)
Finish(w) ==
  /\ At(w, "execute")
  /\ reactions_to_process' = reactions_to_process - 1
  /\ Goto(w, IF reactions_to_process = 1 THEN "schedule" ELSE "pop")
  /\ overlap' = (overlap \/ (reactions_to_process = 1 /\ \E v \in Worker : pc[v] \in Waking))
  /\ Forget(w)
  /\ UNCHANGED <<ready, queue, size, waiting_workers, count>>

-----------------------------------------------------------------------------
(* ReadyQueue::pop *)

FetchSub(w) ==
  /\ At(w, "pop")
  /\ old' = [old EXCEPT ![w] = size]
  /\ size' = size - 1
  /\ Goto(w, IF size <= 0 THEN "acquire" ELSE "read")
  /\ UNCHANGED <<reaction, new_size, register, ready, queue, waiting_workers, count,
                 reactions_to_process, overlap>>

Acquire_fault(w) ==    \* does not wait for a token
  /\ At(w, "acquire")
  /\ count' = count - 1
  /\ Goto(w, "pop")
  /\ Forget(w)
  /\ UNCHANGED <<ready, queue, size, waiting_workers,
                 reactions_to_process, overlap>>

Acquire(w) ==
  /\ At(w, "acquire")
  /\ count # 0
  /\ count' = count - 1
  /\ Goto(w, "pop")
  /\ Forget(w)
  /\ UNCHANGED <<ready, queue, size, waiting_workers,
                 reactions_to_process, overlap>>

Read(w) ==
  /\ At(w, "read")
  /\ reaction' = [reaction EXCEPT ![w] = queue[old[w]]]
  /\ Goto(w, IF queue[old[w]] = Null THEN "done" ELSE "execute")
  /\ UNCHANGED <<old, new_size, register, ready, queue, size, waiting_workers, count,
                 reactions_to_process, overlap>>

-----------------------------------------------------------------------------
(* Scheduler::schedule *)

ScheduleReady_fault(w) ==    \* counts one reaction too few
  /\ At(w, "schedule")
  /\ ready' \in Level
  /\ reactions_to_process' = IF Len(ready') > 1 THEN Len(ready') - 1 ELSE 1
  /\ Goto(w, "fill_up")
  /\ UNCHANGED <<locals, queue, size, waiting_workers, count, overlap>>

ScheduleReady(w) ==
  /\ At(w, "schedule")
  /\ ready' \in Level
  /\ reactions_to_process' = Len(ready')
  /\ Goto(w, "fill_up")
  /\ UNCHANGED <<locals, queue, size, waiting_workers, count, overlap>>

TerminateAllWorkers_fault(w) ==    \* counts the null reactions too
  /\ At(w, "schedule")
  /\ ready' = null_reactions
  /\ reactions_to_process' = num_workers
  /\ Goto(w, "fill_up")
  /\ UNCHANGED <<locals, queue, size, waiting_workers, count, overlap>>

TerminateAllWorkers(w) ==
  /\ At(w, "schedule")
  /\ ready' = null_reactions
  /\ Goto(w, "fill_up")
  /\ UNCHANGED <<locals, queue, size, waiting_workers, count,
                 reactions_to_process, overlap>>

-----------------------------------------------------------------------------
(* ReadyQueue::fill_up.  waiting_workers_ is a plain integer: its updates  *)
(* are loads and stores, in the order the code has them.                   *)

Swap(w) ==
  /\ At(w, "fill_up")
  /\ queue' = ready
  /\ ready' = <<>>
  /\ Goto(w, "exchange")
  /\ UNCHANGED <<locals, size, waiting_workers, count, reactions_to_process, overlap>>

Exchange(w) ==
  /\ At(w, "exchange")
  /\ old' = [old EXCEPT ![w] = size]
  /\ new_size' = [new_size EXCEPT ![w] = Len(queue)]
  /\ size' = Len(queue)
  /\ Goto(w, "load")
  /\ UNCHANGED <<reaction, register, ready, queue, waiting_workers, count,
                 reactions_to_process, overlap>>

Load_fault(w) ==    \* old_size added with the wrong sign
  /\ At(w, "load")
  /\ register' = [register EXCEPT ![w] = waiting_workers + old[w]]
  /\ Goto(w, "store")
  /\ UNCHANGED <<old, reaction, new_size, ready, queue, size, waiting_workers,
                 count, reactions_to_process, overlap>>

(* waiting_workers_ += -old_size *)
Load(w) ==
  /\ At(w, "load")
  /\ register' = [register EXCEPT ![w] = waiting_workers - old[w]]
  /\ Goto(w, "store")
  /\ UNCHANGED <<old, reaction, new_size, ready, queue, size, waiting_workers,
                 count, reactions_to_process, overlap>>

Store(w) ==
  /\ At(w, "store")
  /\ waiting_workers' = register[w]
  /\ Goto(w, "wake")
  /\ UNCHANGED <<locals, ready, queue, size, count, reactions_to_process, overlap>>

workers_to_wakeup_fault(waiting, new) ==            \* counts a running worker twice
  LET running_workers == num_workers - waiting + 1
  IN  IF waiting < new - running_workers THEN waiting ELSE new - running_workers

(* How many workers to wake up when `waiting` wait and `new` reactions are ready. *)
workers_to_wakeup(waiting, new) ==
  LET running_workers == num_workers - waiting
  IN  IF waiting < new - running_workers THEN waiting ELSE new - running_workers

(* The build may keep waiting_workers_ in the register or read it again. *)
Wake(w) ==
  /\ At(w, "wake")
  /\ \E waiting \in {register[w], waiting_workers} :
       LET wakeup == workers_to_wakeup(waiting, new_size[w])
       IN  IF wakeup > 0
           THEN /\ waiting_workers' = waiting - wakeup
                /\ count' = count + wakeup
           ELSE UNCHANGED <<waiting_workers, count>>
  /\ Goto(w, "pop")
  /\ Forget(w)
  /\ UNCHANGED <<ready, queue, size, reactions_to_process, overlap>>

-----------------------------------------------------------------------------

Step(w) ==
  \/ Start(w)
  \/ Finish(w)
  \/ FetchSub(w)
  \/ Acquire(w)
  \/ Read(w)
  \/ ScheduleReady(w)
  \/ TerminateAllWorkers(w)
  \/ Swap(w)
  \/ Exchange(w)
  \/ Load(w)
  \/ Store(w)
  \/ Wake(w)

Next == \E w \in Worker : Step(w)

Spec == Init /\ [][Next]_vars

(* Every thread the operating system can run is run. *)
Fairness == \A w \in Worker : WF_vars(Step(w))

FairSpec == Spec /\ Fairness

-----------------------------------------------------------------------------

Holders == {w \in Worker : pc[w] \in Holding}     \* have taken a slot of the queue
Blocked == {w \in Worker : pc[w] = "acquire"}     \* wait for the semaphore
Done == {w \in Worker : pc[w] = "done"}
InScheduler == {w \in Worker : pc[w] \in Scheduling \/ (w = Root /\ pc[w] = "start")}
InFillUp == InScheduler \cup {w \in Worker : pc[w] \in Waking}

Positive(n) == IF n > 0 THEN n ELSE 0

(* Slots taken or still to be taken. *)
Unfinished == Cardinality(Holders) + Positive(size)

(* The reaction w is committed to, or Null. *)
HeldBy(w) == IF pc[w] = "read" THEN queue[old[w]]
             ELSE IF pc[w] = "execute" THEN reaction[w] ELSE Null

Offered == {queue[i] : i \in 1..size} \ {Null}    \* still to be taken

Terminating == InScheduler = {} /\ queue = null_reactions

LocalsOK ==
  /\ old \in [Worker -> Int]
  /\ reaction \in [Worker -> Reaction \cup {Null}]
  /\ new_size \in [Worker -> Nat]
  /\ register \in [Worker -> Int]

SharedOK ==
  /\ ready \in Level \cup {null_reactions, <<>>}
  /\ queue \in Level \cup {null_reactions, <<>>}
  /\ size \in Int
  /\ waiting_workers \in Int
  /\ count \in Nat
  /\ reactions_to_process \in Nat

(* Every variable keeps its type; what the vectors hold is a sorted level  *)
(* without duplicates, the null reactions or nothing, and neither          *)
(* Semaphore::count_ nor reactions_to_process_ ever becomes negative.      *)
TypeOK ==
  /\ pc \in [Worker -> Location]
  /\ LocalsOK
  /\ SharedOK
  /\ overlap \in BOOLEAN

(* schedule() is never entered by a second thread before the first one has *)
(* published its level: the counter reactions_to_process_ elects one       *)
(* scheduler per level, whatever the interleaving (Worker::work).          *)
OneScheduler == \A v, w \in InScheduler : v = w

(* What fill_up asks of its caller: when it clears and swaps queue_, no    *)
(* worker is about to read a slot and no slot is left to be taken, so the  *)
(* reactions of one level have all ended before the next one is chosen.    *)
QuiescentQueue == InScheduler # {} => Holders = {} /\ size <= 0

(* A slot is read inside queue_, by one worker only, and a reaction is     *)
(* never executed by two workers nor offered again while it executes.      *)
ExclusiveReactions ==
  \A v \in Holders :
    /\ old[v] \in 1..Len(queue)
    /\ HeldBy(v) \notin Offered
    /\ \A w \in Holders \ {v} : HeldBy(w) = HeldBy(v) => HeldBy(v) = Null

(* reactions_to_process_ counts exactly the reactions of the level that    *)
(* have not ended, although it is updated apart from size_; while the      *)
(* workers are being terminated it stays 0, so nobody schedules again.     *)
CounterExact ==
  InScheduler = {} =>
    reactions_to_process = IF queue = null_reactions THEN 0 ELSE Unfinished

(* Workers that wait are accounted for in three places: waiting_workers_,  *)
(* the tokens of the semaphore (whoever takes them) and the negative part  *)
(* of size_, as the comment in fill_up says -- as long as schedule() was   *)
(* never started inside another fill_up.                                   *)
Loading == {w \in Worker : pc[w] \in {"load", "store"}}
Accounted == waiting_workers + count + Positive(-size)
WaitersAccounted ==
  ~overlap => /\ Loading = {} => Cardinality(Blocked) = Accounted
              /\ \A w \in Loading : Cardinality(Blocked) = Accounted - old[w]

(* size_ underflows at most to -num_workers (the FIXME in pop), and        *)
(* fill_up never releases more tokens than there are workers waiting,      *)
(* unless schedule() was started inside another fill_up.                   *)
TokensBounded == count <= Cardinality(Blocked)
NoUnderflow == size >= -num_workers
WaitingBounded == ~overlap => TokensBounded /\ NoUnderflow

(* fill_up wakes enough: once it is over, and as long as a slot is left,   *)
(* either no worker sleeps or as many as there are unfinished reactions    *)
(* are awake (or hold a token) -- unless schedule() was started inside     *)
(* another fill_up.                                                        *)
Asleep == Cardinality(Blocked) - count
WakesEnough ==
  ~overlap /\ InFillUp = {} /\ size > 0 =>
    Asleep <= 0 \/ num_workers - Asleep >= reactions_to_process

(* The workers never all stop before all of them have terminated.          *)
Hang == count = 0 /\ Blocked # {} /\ Blocked \cup Done = Worker
NoHang == ~Hang
NoHangWithoutOverlap == ~overlap => NoHang

(* What the comment in Worker::work says of the block that schedules: only *)
(* one thread is inside schedule() at a time.                              *)
OneThreadInSchedule == \A v, w \in InFillUp : v = w

(* Once the null reactions are published, every worker terminates and      *)
(* Scheduler::start can join them all, unless schedule() was started       *)
(* inside another fill_up before.                                          *)
AllJoined == Done = Worker
Terminates == (Terminating /\ ~overlap) ~> AllJoined

(* The pool implements the abstract level execution.                       *)
Levels == INSTANCE LevelExecution
            WITH ready <- Offered,
                 running <- [w \in Worker |-> HeldBy(w)],
                 stopped <- Done

ImplementsLevels == Levels!Spec

=============================================================================
