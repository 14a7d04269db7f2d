-------------------------- MODULE WorkerPoolProofs --------------------------
(***************************************************************************)
(* Theorems about WorkerPool, for every finite set of workers and          *)
(* reactions.  LevelInv is the inductive invariant of the level discipline *)
(* (one scheduler, quiescent queue, exact counter).  WaitInv adds the      *)
(* accounting of waiting workers, as long as schedule() was never started  *)
(* inside another fill_up.                                                 *)
(***************************************************************************)
EXTENDS WorkerPool, FiniteSetTheorems, TLAPS

(* A vector that is passed to fill_up, and what the counter is then. *)
Filling(q) == \/ q \in Level /\ reactions_to_process = Len(q)
              \/ q = null_reactions /\ reactions_to_process = 0

SchedulerInv ==
  \A w \in InScheduler :
    /\ pc[w] \in {"start", "schedule"} => reactions_to_process = 0
    /\ pc[w] = "fill_up" => Filling(ready)
    /\ pc[w] = "exchange" => Filling(queue)

CounterInv ==
  InScheduler = {} =>
    \/ /\ queue \in Level
       /\ reactions_to_process = Unfinished
       /\ reactions_to_process \in 1..Len(queue)
    \/ queue = null_reactions /\ reactions_to_process = 0

HolderInv ==
  \A v \in Holders :
    /\ old[v] \in 1..Len(queue)
    /\ size < old[v]
    /\ pc[v] = "execute" => reaction[v] = queue[old[v]] /\ reaction[v] # Null
    /\ \A w \in Holders : old[w] = old[v] => w = v

LevelInv ==
  /\ TypeOK
  /\ OneScheduler
  /\ QuiescentQueue
  /\ SchedulerInv
  /\ CounterInv
  /\ HolderInv
  /\ size <= Len(queue)

-----------------------------------------------------------------------------

LEMMA LevelShape ==
  ASSUME NEW q \in Level
  PROVE  /\ Len(q) \in Nat \ {0}
         /\ q \in [1..Len(q) -> Reaction]
         /\ \A i, j \in 1..Len(q) : q[i] = q[j] => i = j
<1>1. PICK n \in 1..Cardinality(Reaction) :
        /\ q \in [1..n -> Reaction]
        /\ \A i, j \in 1..n : i < j => q[i] < q[j]
  BY DEF Level
<1>2. Cardinality(Reaction) \in Nat
  BY ReactionAssumption, FS_CardinalityType
<1>3. n \in Nat \ {0} /\ Len(q) = n
  BY <1>1, <1>2
<1>4. ASSUME NEW i \in 1..n, NEW j \in 1..n, q[i] = q[j]
      PROVE  i = j
  <2>1. q[i] \in Nat /\ q[j] \in Nat
    BY <1>1, ReactionAssumption
  <2>. QED
    BY <2>1, <1>1, <1>3, <1>4
<1>. QED
  BY <1>1, <1>3, <1>4

LEMMA NumWorkers == num_workers \in Nat \ {0}
<1>1. Worker # {}
  BY WorkerAssumption
<1>. QED
  BY <1>1, WorkerAssumption, FS_CardinalityType, FS_EmptySet DEF num_workers

LEMMA NullShape ==
  /\ Len(null_reactions) = num_workers
  /\ \A i \in 1..num_workers : null_reactions[i] = Null
  /\ null_reactions \notin Level
<1>1. Len(null_reactions) = num_workers
  BY NumWorkers DEF null_reactions
<1>2. \A i \in 1..num_workers : null_reactions[i] = Null
  BY DEF null_reactions
<1>3. 1 \in 1..num_workers
  BY NumWorkers
<1>4. null_reactions \notin Level
  BY <1>1, <1>2, <1>3, LevelShape, ReactionAssumption
<1>. QED
  BY <1>1, <1>2, <1>4

LEMMA EmptyShape == Len(<<>>) = 0 /\ <<>> \notin Level /\ <<>> # null_reactions
BY LevelShape, NullShape, NumWorkers

LEMMA QueueShape ==
  ASSUME SharedOK
  PROVE  /\ Len(queue) \in Nat
         /\ queue \in [1..Len(queue) -> Reaction \cup {Null}]
<1>1. CASE queue \in Level
  BY <1>1, LevelShape
<1>2. CASE queue = null_reactions
  BY <1>2, NullShape, NumWorkers DEF null_reactions
<1>3. CASE queue = <<>>
  BY <1>3
<1>. QED
  BY <1>1, <1>2, <1>3 DEF SharedOK

(* Any set of workers is finite and has a cardinality. *)
LEMMA WorkerSet ==
  ASSUME NEW S, S \subseteq Worker
  PROVE  /\ IsFiniteSet(S)
         /\ Cardinality(S) \in Nat
         /\ Cardinality(S) <= num_workers
         /\ S # {} => Cardinality(S) >= 1
<1>1. IsFiniteSet(S) /\ Cardinality(S) \in Nat /\ Cardinality(S) <= num_workers
  BY WorkerAssumption, FS_Subset, FS_CardinalityType DEF num_workers
<1>. QED
  BY <1>1, FS_EmptySet

LEMMA WorkerSetAdd ==
  ASSUME NEW S, S \subseteq Worker, NEW w, w \notin S
  PROVE  Cardinality(S \cup {w}) = Cardinality(S) + 1
BY WorkerSet, FS_AddElement

LEMMA WorkerSetRemove ==
  ASSUME NEW S, S \subseteq Worker, NEW w \in S
  PROVE  Cardinality(S \ {w}) = Cardinality(S) - 1
BY WorkerSet, FS_RemoveElement

-----------------------------------------------------------------------------
(* The sets of workers when w moves to location l. *)

LEMMA Moves ==
  ASSUME TypeOK, NEW w \in Worker, NEW l \in Location, l # "start", Goto(w, l)
  PROVE  /\ pc' \in [Worker -> Location]
         /\ pc'[w] = l
         /\ \A v \in Worker \ {w} : pc'[v] = pc[v]
         /\ Holders' = IF l \in Holding THEN Holders \cup {w} ELSE Holders \ {w}
         /\ Blocked' = IF l = "acquire" THEN Blocked \cup {w} ELSE Blocked \ {w}
         /\ Done' = IF l = "done" THEN Done \cup {w} ELSE Done \ {w}
         /\ Loading' = IF l \in {"load", "store"} THEN Loading \cup {w} ELSE Loading \ {w}
         /\ InScheduler' = IF l \in Scheduling THEN InScheduler \cup {w}
                                               ELSE InScheduler \ {w}
         /\ InFillUp' = IF l \in Scheduling \cup Waking THEN InFillUp \cup {w}
                                                        ELSE InFillUp \ {w}
<1>1. /\ pc' \in [Worker -> Location]
      /\ pc'[w] = l
      /\ \A v \in Worker \ {w} : pc'[v] = pc[v]
  BY DEF TypeOK, Goto
<1>. QED
  BY <1>1 DEF Holders, Blocked, Done, Loading, InScheduler, InFillUp, Scheduling, Waking

LEMMA LevelInit == Init => LevelInv
<1>. SUFFICES ASSUME Init PROVE LevelInv
  OBVIOUS
<1>1. TypeOK
  <2>1. overlap \in BOOLEAN
    BY DEF Init
  <2>2. pc \in [Worker -> Location]
    BY DEF Init, Location
  <2>. QED
    BY <2>1, <2>2 DEF Init, TypeOK, LocalsOK, SharedOK
<1>2. Holders = {} /\ InScheduler = {Root}
  BY WorkerAssumption DEF Init, Holders, InScheduler, Holding, Scheduling
<1>3. OneScheduler /\ QuiescentQueue /\ CounterInv /\ HolderInv
  BY <1>2 DEF Init, OneScheduler, QuiescentQueue, CounterInv, HolderInv
<1>4. SchedulerInv
  BY <1>2, WorkerAssumption DEF Init, SchedulerInv
<1>5. size <= Len(queue)
  BY EmptyShape DEF Init
<1>. QED
  BY <1>1, <1>3, <1>4, <1>5 DEF LevelInv

LEMMA LevelStep == LevelInv /\ [Next]_vars => LevelInv'
<1>. SUFFICES ASSUME LevelInv, [Next]_vars PROVE LevelInv'
  OBVIOUS
<1>. USE DEF LevelInv
<1>a. num_workers \in Nat /\ num_workers >= 1
  BY NumWorkers
<1>b. Len(queue) \in Nat /\ queue \in [1..Len(queue) -> Reaction \cup {Null}]
  BY QueueShape DEF TypeOK
<1>c. Holders \subseteq Worker
  BY DEF Holders
<1>d. /\ size \in Int
      /\ count \in Nat
      /\ reactions_to_process \in Nat
  BY DEF TypeOK, SharedOK
<1>e. old \in [Worker -> Int] /\ reaction \in [Worker -> Reaction \cup {Null}]
  BY DEF TypeOK, LocalsOK
<1>f. ASSUME NEW w \in Worker, Forget(w) PROVE LocalsOK'
  BY <1>f DEF TypeOK, LocalsOK, Forget
<1>g. ASSUME UNCHANGED locals PROVE LocalsOK'
  BY <1>g DEF TypeOK, LocalsOK, locals
<1>h. ASSUME UNCHANGED <<ready, queue, size, waiting_workers, count, reactions_to_process>>
      PROVE  SharedOK'
  BY <1>h DEF TypeOK, SharedOK
<1>1. ASSUME NEW w \in Worker, Start(w) PROVE LevelInv'
  <2>1. UNCHANGED <<locals, ready, queue, size, waiting_workers, count, reactions_to_process, overlap>>
    BY <1>1 DEF Start
  <2>2. pc[w] = "start" /\ Goto(w, IF w = Root THEN "schedule" ELSE "pop")
    BY <1>1 DEF Start, At
  <2>3. /\ pc' \in [Worker -> Location]
        /\ \A v \in Worker \ {w} : pc'[v] = pc[v]
        /\ pc'[w] = IF w = Root THEN "schedule" ELSE "pop"
        /\ Holders' = Holders
        /\ InScheduler' = InScheduler
    BY <2>2, Moves DEF Location, Scheduling, Holding, InScheduler, Holders
  <2>4. TypeOK'
    BY <2>1, <2>3, <1>g, <1>h DEF TypeOK
  <2>5. SchedulerInv'
    BY <2>1, <2>2, <2>3 DEF SchedulerInv, Filling, InScheduler
  <2>6. HolderInv'
    BY <2>1, <2>2, <2>3 DEF HolderInv, Holders, locals
  <2>. QED
    BY <2>1, <2>3, <2>4, <2>5, <2>6
       DEF OneScheduler, QuiescentQueue, CounterInv, Unfinished
<1>2. ASSUME NEW w \in Worker, Finish(w) PROVE LevelInv'
  <2>1. /\ UNCHANGED <<ready, queue, size, waiting_workers, count>>
        /\ reactions_to_process' = reactions_to_process - 1
        /\ pc[w] = "execute"
        /\ Goto(w, IF reactions_to_process = 1 THEN "schedule" ELSE "pop")
        /\ Forget(w)
    BY <1>2 DEF Finish, At
  <2>2. /\ pc' \in [Worker -> Location]
        /\ pc'[w] = IF reactions_to_process = 1 THEN "schedule" ELSE "pop"
        /\ \A v \in Worker \ {w} : pc'[v] = pc[v]
        /\ Holders' = Holders \ {w}
        /\ InScheduler' = IF reactions_to_process = 1 THEN InScheduler \cup {w}
                                                      ELSE InScheduler \ {w}
    BY <2>1, Moves DEF Location, Scheduling, Holding
  <2>3. w \in Holders /\ InScheduler = {}
    BY <2>1 DEF Holders, Holding, QuiescentQueue
  <2>4. queue \in Level /\ reactions_to_process = Unfinished
    BY <2>1, <2>3, <1>a, NullShape DEF CounterInv, HolderInv
  <2>5. /\ Cardinality(Holders) \in Nat
        /\ Cardinality(Holders) >= 1
        /\ Cardinality(Holders') = Cardinality(Holders) - 1
        /\ Holders' # {} => Cardinality(Holders') >= 1
    BY <2>2, <2>3, <1>c, WorkerSet, WorkerSetRemove
  <2>6. /\ size \in Int
        /\ reactions_to_process' = Cardinality(Holders') + Positive(size)
        /\ reactions_to_process = 1 => Holders' = {} /\ size <= 0
    BY <2>1, <2>4, <2>5, <1>d DEF Unfinished, Positive
  <2>7. TypeOK'
    <3>1. overlap' \in BOOLEAN
      BY <1>2 DEF Finish, TypeOK
    <3>2. reactions_to_process' \in Nat
      BY <2>4, <2>5, <2>6 DEF Positive
    <3>3. SharedOK'
      BY <2>1, <3>2 DEF TypeOK, SharedOK
    <3>. QED
      BY <2>1, <2>2, <3>1, <3>3, <1>f DEF TypeOK
  <2>8. OneScheduler' /\ QuiescentQueue'
    BY <2>1, <2>2, <2>3, <2>6 DEF OneScheduler, QuiescentQueue
  <2>9. SchedulerInv'
    BY <2>1, <2>2, <2>3 DEF SchedulerInv
  <2>10. CounterInv'
    <3>1. reactions_to_process \in 1..Len(queue)
      BY <2>3, <2>4, NullShape DEF CounterInv
    <3>2. reactions_to_process # 1 => reactions_to_process' \in 1..Len(queue)
      BY <3>1, <2>1, <1>b
    <3>3. Unfinished' = reactions_to_process'
      BY <2>1, <2>6 DEF Unfinished
    <3>. QED
      BY <3>2, <3>3, <2>1, <2>2, <2>4 DEF CounterInv
  <2>11. HolderInv'
    BY <2>1, <2>2, <1>c, <1>e DEF HolderInv, Forget
  <2>. QED
    BY <2>1, <2>7, <2>8, <2>9, <2>10, <2>11
<1>3. ASSUME NEW w \in Worker, FetchSub(w) PROVE LevelInv'
  <2>1. /\ UNCHANGED <<reaction, new_size, register, ready, queue, waiting_workers, count,
                       reactions_to_process, overlap>>
        /\ pc[w] = "pop"
        /\ old' = [old EXCEPT ![w] = size]
        /\ size' = size - 1
        /\ Goto(w, IF size <= 0 THEN "acquire" ELSE "read")
    BY <1>3 DEF FetchSub, At
  <2>2. /\ pc' \in [Worker -> Location]
        /\ pc'[w] = IF size <= 0 THEN "acquire" ELSE "read"
        /\ \A v \in Worker \ {w} : pc'[v] = pc[v]
        /\ Holders' = IF size <= 0 THEN Holders ELSE Holders \cup {w}
        /\ InScheduler' = InScheduler
    BY <2>1, Moves DEF Location, Scheduling, Holding, Holders, InScheduler
  <2>3. w \notin Holders /\ w \notin InScheduler
    BY <2>1 DEF Holders, Holding, InScheduler, Scheduling
  <2>4. size > 0 => InScheduler = {}
    BY <1>d DEF QuiescentQueue
  <2>5. /\ Cardinality(Holders) \in Nat
        /\ Cardinality(Holders \cup {w}) = Cardinality(Holders) + 1
    BY <2>3, <1>c, WorkerSet, WorkerSetAdd
  <2>6. Unfinished' = Unfinished
    BY <2>1, <2>2, <2>3, <2>5, <1>d DEF Unfinished, Positive
  <2>7. TypeOK'
    <3>1. LocalsOK'
      BY <2>1, <1>d DEF TypeOK, LocalsOK
    <3>2. SharedOK'
      BY <2>1 DEF TypeOK, SharedOK
    <3>. QED
      BY <2>1, <2>2, <3>1, <3>2 DEF TypeOK
  <2>8. OneScheduler' /\ QuiescentQueue'
    BY <2>1, <2>2, <2>3, <2>4, <1>d DEF OneScheduler, QuiescentQueue
  <2>9. SchedulerInv'
    BY <2>1, <2>2, <2>3 DEF SchedulerInv, Filling, InScheduler
  <2>10. CounterInv'
    BY <2>1, <2>2, <2>3, <2>6 DEF CounterInv
  <2>11. HolderInv'
    BY <2>1, <2>2, <2>3, <1>b, <1>c, <1>d, <1>e DEF HolderInv
  <2>. QED
    BY <2>1, <2>3, <2>7, <2>8, <2>9, <2>10, <2>11, <1>b, <1>d
<1>4. ASSUME NEW w \in Worker, Acquire(w) PROVE LevelInv'
  <2>1. /\ UNCHANGED <<ready, queue, size, waiting_workers, reactions_to_process, overlap>>
        /\ pc[w] = "acquire"
        /\ count' = count - 1
        /\ count # 0
        /\ Goto(w, "pop")
        /\ Forget(w)
    BY <1>4 DEF Acquire, At
  <2>2. /\ pc' \in [Worker -> Location]
        /\ pc'[w] = "pop"
        /\ \A v \in Worker \ {w} : pc'[v] = pc[v]
        /\ Holders' = Holders
        /\ InScheduler' = InScheduler
    BY <2>1, Moves DEF Location, Scheduling, Holding, Holders, InScheduler
  <2>3. w \notin Holders /\ w \notin InScheduler
    BY <2>1 DEF Holders, Holding, InScheduler, Scheduling
  <2>4. TypeOK'
    <3>1. SharedOK'
      BY <2>1 DEF TypeOK, SharedOK
    <3>. QED
      BY <2>1, <2>2, <3>1, <1>f DEF TypeOK
  <2>5. SchedulerInv'
    BY <2>1, <2>2, <2>3 DEF SchedulerInv, Filling, InScheduler
  <2>6. HolderInv'
    <3>1. \A v \in Holders :
            v \in Worker /\ pc'[v] = pc[v] /\ old'[v] = old[v] /\ reaction'[v] = reaction[v]
      BY <2>1, <2>2, <2>3, <1>e DEF Holders, Forget
    <3>. QED
      BY <3>1, <2>1, <2>2, <1>c DEF HolderInv
  <2>. QED
    BY <2>1, <2>2, <2>4, <2>5, <2>6 DEF OneScheduler, QuiescentQueue, CounterInv, Unfinished
<1>5. ASSUME NEW w \in Worker, Read(w) PROVE LevelInv'
  <2>1. /\ UNCHANGED <<old, new_size, register, ready, queue, size, waiting_workers, count,
                       reactions_to_process, overlap>>
        /\ pc[w] = "read"
        /\ reaction' = [reaction EXCEPT ![w] = queue[old[w]]]
        /\ Goto(w, IF queue[old[w]] = Null THEN "done" ELSE "execute")
    BY <1>5 DEF Read, At
  <2>2. /\ pc' \in [Worker -> Location]
        /\ pc'[w] = IF queue[old[w]] = Null THEN "done" ELSE "execute"
        /\ \A v \in Worker \ {w} : pc'[v] = pc[v]
        /\ Holders' = IF queue[old[w]] = Null THEN Holders \ {w} ELSE Holders \cup {w}
        /\ InScheduler' = InScheduler \ {w}
    BY <2>1, Moves DEF Location, Scheduling, Holding
  <2>3. w \in Holders /\ InScheduler = {} /\ old[w] \in 1..Len(queue)
    BY <2>1 DEF Holders, Holding, QuiescentQueue, HolderInv
  <2>4. queue[old[w]] = Null => queue = null_reactions
    BY <2>3, LevelShape, ReactionAssumption DEF CounterInv
  <2>5. TypeOK'
    <3>1. LocalsOK'
      BY <2>1, <2>3, <1>b DEF TypeOK, LocalsOK
    <3>. QED
      BY <2>1, <2>2, <3>1, <1>h DEF TypeOK
  <2>6. OneScheduler' /\ QuiescentQueue' /\ SchedulerInv'
    BY <2>2, <2>3 DEF OneScheduler, QuiescentQueue, SchedulerInv
  <2>7. CounterInv'
    <3>1. CASE queue[old[w]] = Null
      BY <3>1, <2>1, <2>3, <2>4, NullShape DEF CounterInv
    <3>2. CASE queue[old[w]] # Null
      <4>. Holders' = Holders
        BY <3>2, <2>2, <2>3
      <4>. QED
        BY <2>1, <2>3 DEF CounterInv, Unfinished
    <3>. QED
      BY <3>1, <3>2
  <2>8. HolderInv'
    BY <2>1, <2>2, <2>3, <1>c, <1>e DEF HolderInv
  <2>. QED
    BY <2>1, <2>5, <2>6, <2>7, <2>8
<1>6. ASSUME NEW w \in Worker, ScheduleReady(w) PROVE LevelInv'
  <2>1. /\ UNCHANGED <<locals, queue, size, waiting_workers, count, overlap>>
        /\ pc[w] = "schedule"
        /\ ready' \in Level
        /\ reactions_to_process' = Len(ready')
        /\ Goto(w, "fill_up")
    BY <1>6 DEF ScheduleReady, At
  <2>2. /\ pc' \in [Worker -> Location]
        /\ pc'[w] = "fill_up"
        /\ Holders' = Holders
        /\ InScheduler' = InScheduler
    BY <2>1, Moves DEF Location, Scheduling, Holding, Holders, InScheduler
  <2>3. Holders = {} /\ InScheduler = {w}
    BY <2>1 DEF QuiescentQueue, OneScheduler, InScheduler, Scheduling
  <2>4. TypeOK'
    <3>1. Len(ready') \in Nat
      BY <2>1, LevelShape
    <3>2. SharedOK'
      BY <2>1, <3>1 DEF TypeOK, SharedOK
    <3>. QED
      BY <2>1, <2>2, <3>2, <1>g DEF TypeOK
  <2>5. SchedulerInv'
    BY <2>1, <2>2, <2>3 DEF SchedulerInv, Filling
  <2>. QED
    BY <2>1, <2>2, <2>3, <2>4, <2>5 DEF OneScheduler, QuiescentQueue, CounterInv, HolderInv
<1>7. ASSUME NEW w \in Worker, TerminateAllWorkers(w) PROVE LevelInv'
  <2>1. /\ UNCHANGED <<locals, queue, size, waiting_workers, count, reactions_to_process, overlap>>
        /\ pc[w] = "schedule"
        /\ ready' = null_reactions
        /\ Goto(w, "fill_up")
    BY <1>7 DEF TerminateAllWorkers, At
  <2>2. /\ pc' \in [Worker -> Location]
        /\ pc'[w] = "fill_up"
        /\ Holders' = Holders
        /\ InScheduler' = InScheduler
    BY <2>1, Moves DEF Location, Scheduling, Holding, Holders, InScheduler
  <2>3. Holders = {} /\ InScheduler = {w}
    BY <2>1 DEF QuiescentQueue, OneScheduler, InScheduler, Scheduling
  <2>4. TypeOK'
    <3>1. SharedOK'
      BY <2>1 DEF TypeOK, SharedOK
    <3>. QED
      BY <2>1, <2>2, <3>1, <1>g DEF TypeOK
  <2>5. SchedulerInv'
    BY <2>1, <2>2, <2>3 DEF SchedulerInv, Filling
  <2>. QED
    BY <2>1, <2>2, <2>3, <2>4, <2>5 DEF OneScheduler, QuiescentQueue, CounterInv, HolderInv
<1>8. ASSUME NEW w \in Worker, Swap(w) PROVE LevelInv'
  <2>1. /\ UNCHANGED <<locals, size, waiting_workers, count, reactions_to_process, overlap>>
        /\ pc[w] = "fill_up"
        /\ queue' = ready
        /\ ready' = <<>>
        /\ Goto(w, "exchange")
    BY <1>8 DEF Swap, At
  <2>2. /\ pc' \in [Worker -> Location]
        /\ pc'[w] = "exchange"
        /\ Holders' = Holders
        /\ InScheduler' = InScheduler
    BY <2>1, Moves DEF Location, Scheduling, Holding, Holders, InScheduler
  <2>3. Holders = {} /\ InScheduler = {w} /\ size <= 0
    BY <2>1 DEF QuiescentQueue, OneScheduler, InScheduler, Scheduling
  <2>4. TypeOK'
    <3>1. SharedOK'
      BY <2>1 DEF TypeOK, SharedOK
    <3>. QED
      BY <2>1, <2>2, <3>1, <1>g DEF TypeOK
  <2>5. SchedulerInv' /\ Len(queue') \in Nat
    <3>1. Filling(ready)
      BY <2>1, <2>3 DEF SchedulerInv
    <3>. QED
      BY <3>1, <2>1, <2>2, <2>3, <1>a, LevelShape, NullShape DEF SchedulerInv, Filling
  <2>. QED
    BY <2>1, <2>2, <2>3, <2>4, <2>5, <1>d
       DEF OneScheduler, QuiescentQueue, CounterInv, HolderInv
<1>9. ASSUME NEW w \in Worker, Exchange(w) PROVE LevelInv'
  <2>1. /\ UNCHANGED <<reaction, register, ready, queue, waiting_workers, count,
                       reactions_to_process, overlap>>
        /\ pc[w] = "exchange"
        /\ old' = [old EXCEPT ![w] = size]
        /\ new_size' = [new_size EXCEPT ![w] = Len(queue)]
        /\ size' = Len(queue)
        /\ Goto(w, "load")
    BY <1>9 DEF Exchange, At
  <2>2. /\ pc' \in [Worker -> Location]
        /\ pc'[w] = "load"
        /\ Holders' = Holders
        /\ InScheduler' = InScheduler \ {w}
    BY <2>1, Moves DEF Location, Scheduling, Waking, Holding, Holders
  <2>3. Holders = {} /\ InScheduler = {w}
    BY <2>1 DEF QuiescentQueue, OneScheduler, InScheduler, Scheduling
  <2>4. TypeOK'
    <3>1. LocalsOK'
      BY <2>1, <1>b, <1>d DEF TypeOK, LocalsOK
    <3>2. SharedOK'
      BY <2>1, <1>b DEF TypeOK, SharedOK
    <3>. QED
      BY <2>1, <2>2, <3>1, <3>2 DEF TypeOK
  <2>5. CounterInv'
    <3>1. Filling(queue)
      BY <2>1, <2>3 DEF SchedulerInv
    <3>2. Unfinished' = Len(queue)
      BY <2>1, <2>2, <2>3, <1>b, FS_EmptySet DEF Unfinished, Positive
    <3>. QED
      BY <3>1, <3>2, <2>1, <1>b, LevelShape DEF CounterInv, Filling
  <2>. QED
    BY <2>1, <2>2, <2>3, <2>4, <2>5, <1>b
       DEF OneScheduler, QuiescentQueue, SchedulerInv, HolderInv
<1>10. ASSUME NEW w \in Worker, Load(w) \/ Store(w) \/ Wake(w) PROVE LevelInv'
  <2>1. /\ UNCHANGED <<ready, queue, size, reactions_to_process, overlap>>
        /\ pc[w] \in Waking
    BY <1>10 DEF Load, Store, Wake, locals, At, Waking
  <2>2. PICK l \in {"store", "wake", "pop"} : Goto(w, l)
    BY <1>10 DEF Load, Store, Wake
  <2>3. /\ pc' \in [Worker -> Location]
        /\ \A v \in Worker \ {w} : pc'[v] = pc[v]
        /\ Holders' = Holders
        /\ InScheduler' = InScheduler
        /\ w \notin Holders /\ w \notin InScheduler
    BY <2>1, <2>2, Moves DEF Location, Scheduling, Waking, Holding, Holders, InScheduler
  <2>4. /\ LocalsOK'
        /\ \A v \in Worker \ {w} : old'[v] = old[v] /\ reaction'[v] = reaction[v]
    <3>1. CASE Load(w)
      BY <3>1, <1>e DEF Load, TypeOK, LocalsOK, SharedOK
    <3>2. CASE Store(w)
      BY <3>2, <1>g DEF Store, locals
    <3>3. CASE Wake(w)
      BY <3>3, <1>f, <1>e DEF Wake, Forget
    <3>. QED
      BY <1>10, <3>1, <3>2, <3>3
  <2>5. waiting_workers' \in Int /\ count' \in Nat
    <3>1. CASE Load(w)
      BY <3>1 DEF Load, TypeOK, SharedOK
    <3>2. CASE Store(w)
      BY <3>2 DEF Store, TypeOK, SharedOK, LocalsOK
    <3>3. CASE Wake(w)
      <4>1. PICK waiting \in {register[w], waiting_workers} :
              LET wakeup == workers_to_wakeup(waiting, new_size[w])
              IN  IF wakeup > 0
                  THEN /\ waiting_workers' = waiting - wakeup
                       /\ count' = count + wakeup
                  ELSE UNCHANGED <<waiting_workers, count>>
        BY <3>3 DEF Wake
      <4>2. waiting \in Int /\ new_size[w] \in Int /\ waiting_workers \in Int
        BY <4>1 DEF TypeOK, LocalsOK, SharedOK
      <4>3. workers_to_wakeup(waiting, new_size[w]) \in Int
        BY <4>2, <1>a DEF workers_to_wakeup
      <4>. QED
        BY <4>1, <4>2, <4>3, <1>d
    <3>. QED
      BY <1>10, <3>1, <3>2, <3>3
  <2>6. TypeOK'
    <3>1. SharedOK'
      BY <2>1, <2>5 DEF TypeOK, SharedOK
    <3>. QED
      BY <2>1, <2>3, <2>4, <3>1 DEF TypeOK
  <2>7. SchedulerInv'
    BY <2>1, <2>3 DEF SchedulerInv, Filling, InScheduler
  <2>8. HolderInv'
    BY <2>1, <2>3, <2>4, <1>c DEF HolderInv
  <2>. QED
    BY <2>1, <2>3, <2>6, <2>7, <2>8 DEF OneScheduler, QuiescentQueue, CounterInv, Unfinished
<1>11. CASE UNCHANGED vars
  <2>1. TypeOK' /\ Holders' = Holders /\ InScheduler' = InScheduler
    BY <1>11, <1>g, <1>h DEF vars, TypeOK, locals, Holders, InScheduler
  <2>2. SchedulerInv' /\ HolderInv'
    BY <1>11, <2>1 DEF vars, locals, SchedulerInv, Filling, HolderInv
  <2>. QED
    BY <1>11, <2>1, <2>2
       DEF vars, OneScheduler, QuiescentQueue, CounterInv, Unfinished
<1>. QED
  BY <1>1, <1>2, <1>3, <1>4, <1>5, <1>6, <1>7, <1>8, <1>9, <1>10, <1>11 DEF Next, Step

(* The invariant about a level: who schedules, what the vectors hold, who  *)
(* holds which slot of queue_ and what reactions_to_process_ counts.       *)
THEOREM LevelInvariant == Spec => []LevelInv
<1>. QED
  BY LevelInit, LevelStep, PTL DEF Spec

(* Type correctness: the vectors only ever hold a level, the null          *)
(* reactions or nothing, and neither counter becomes negative.             *)
THEOREM TypeCorrect == Spec => []TypeOK
<1>1. LevelInv => TypeOK
  BY DEF LevelInv
<1>. QED
  BY <1>1, LevelInvariant, PTL

(* reactions_to_process_ elects one scheduler at a time, and fill_up runs  *)
(* when no other thread can read queue_, for any number of workers.        *)
THEOREM SchedulerExclusive == Spec => [](OneScheduler /\ QuiescentQueue)
<1>1. LevelInv => OneScheduler /\ QuiescentQueue
  BY DEF LevelInv
<1>. QED
  BY <1>1, LevelInvariant, PTL

LEMMA HeldInQueue ==
  ASSUME LevelInv, NEW v \in Holders
  PROVE  /\ InScheduler = {}
         /\ old[v] \in 1..Len(queue)
         /\ HeldBy(v) = queue[old[v]]
         /\ queue \in Level \/ (queue = null_reactions /\ HeldBy(v) = Null)
<1>1. InScheduler = {} /\ old[v] \in 1..Len(queue)
  BY DEF LevelInv, QuiescentQueue, HolderInv
<1>2. HeldBy(v) = queue[old[v]]
  BY DEF LevelInv, HolderInv, Holders, Holding, HeldBy
<1>3. queue \in Level \/ queue = null_reactions
  BY <1>1 DEF LevelInv, CounterInv
<1>4. queue = null_reactions => HeldBy(v) = Null
  BY <1>1, <1>2, NullShape
<1>. QED
  BY <1>1, <1>2, <1>3, <1>4

(* A slot is read within bounds and by one worker, and no reaction is      *)
(* executed by two workers or twice in one level.                          *)
THEOREM ReactionsExclusive == Spec => []ExclusiveReactions
<1>1. LevelInv => ExclusiveReactions
  <2>. SUFFICES ASSUME LevelInv, NEW v \in Holders
                PROVE  /\ old[v] \in 1..Len(queue)
                       /\ HeldBy(v) \notin Offered
                       /\ \A w \in Holders \ {v} : HeldBy(w) = HeldBy(v) => HeldBy(v) = Null
    BY DEF ExclusiveReactions
  <2>1. size \in Int /\ size < old[v] /\ size <= Len(queue) /\ Len(queue) \in Nat
    BY QueueShape DEF LevelInv, HolderInv, TypeOK, SharedOK
  <2>2. HeldBy(v) \notin Offered
    <3>1. CASE queue \in Level
      BY <3>1, <2>1, HeldInQueue, LevelShape DEF Offered
    <3>2. CASE HeldBy(v) = Null
      BY <3>2 DEF Offered
    <3>. QED
      BY <3>1, <3>2, HeldInQueue
  <2>3. ASSUME NEW w \in Holders \ {v}, HeldBy(w) = HeldBy(v) PROVE HeldBy(v) = Null
    <3>1. old[w] # old[v]
      BY <2>3 DEF LevelInv, HolderInv
    <3>. QED
      BY <2>3, <3>1, HeldInQueue, LevelShape
  <2>. QED
    BY <2>2, <2>3, HeldInQueue
<1>. QED
  BY <1>1, LevelInvariant, PTL

(* Between two levels, reactions_to_process_ is the number of reactions    *)
(* that have not ended; it is 0 once the workers are being terminated.     *)
THEOREM CounterIsExact == Spec => []CounterExact
<1>1. LevelInv => CounterExact
  BY NullShape DEF LevelInv, CounterInv, CounterExact
<1>. QED
  BY <1>1, LevelInvariant, PTL

-----------------------------------------------------------------------------
(* Termination: a worker that has terminated has taken one of the null     *)
(* reactions, and there is one for each worker.                            *)

DoneInv ==
  /\ Done # {} => Terminating
  /\ Terminating => Cardinality(Done \cup Holders) + Positive(size) = num_workers

(* The accounting of waiting workers; old[w] is what the worker inside     *)
(* fill_up has yet to move from size_ to waiting_workers_.                 *)
FillUpInv ==
  \A w \in Worker :
    /\ pc[w] \in Waking => new_size[w] = Len(queue)
    /\ pc[w] = "store" => register[w] = waiting_workers - old[w]
    /\ pc[w] = "wake" => register[w] = waiting_workers
    /\ w \in Loading => old[w] <= 0 /\ Cardinality(Blocked) = Accounted - old[w]

WaitInv ==
  /\ OneThreadInSchedule
  /\ waiting_workers >= 0
  /\ FillUpInv
  /\ Loading = {} => Cardinality(Blocked) = Accounted
  /\ InFillUp = {} => waiting_workers = 0 \/ num_workers - waiting_workers >= Len(queue)

PoolInv == LevelInv /\ DoneInv /\ (~overlap => WaitInv)

LEMMA DoneInit == Init => DoneInv
<1>. SUFFICES ASSUME Init PROVE DoneInv
  OBVIOUS
<1>1. Done = {} /\ InScheduler # {}
  BY WorkerAssumption DEF Init, Done, InScheduler
<1>. QED
  BY <1>1 DEF DoneInv, Terminating

LEMMA DoneStep == LevelInv /\ DoneInv /\ [Next]_vars => DoneInv'
<1>. SUFFICES ASSUME LevelInv, DoneInv, [Next]_vars PROVE DoneInv'
  OBVIOUS
<1>t. TypeOK
  BY DEF LevelInv
<1>d. size \in Int /\ Len(queue) \in Nat /\ num_workers \in Nat \ {0}
  BY <1>t, QueueShape, NumWorkers DEF TypeOK, SharedOK
<1>1. ASSUME UNCHANGED <<queue, size>>, InScheduler' = InScheduler,
             Done' = Done, Done' \cup Holders' = Done \cup Holders
      PROVE  DoneInv'
  BY <1>1 DEF DoneInv, Terminating
<1>2. ASSUME InScheduler' # {}, Done' = {} PROVE DoneInv'
  BY <1>2 DEF DoneInv, Terminating
<1>3. ASSUME NEW w \in Worker, Start(w) \/ Acquire(w) \/ Load(w) \/ Store(w) \/ Wake(w)
      PROVE  DoneInv'
  <2>1. UNCHANGED <<queue, size>>
    BY <1>3 DEF Start, Acquire, Load, Store, Wake
  <2>2. PICK l \in {"schedule", "pop", "store", "wake"} :
          /\ Goto(w, l)
          /\ l = "schedule" => w = Root /\ pc[w] = "start"
          /\ pc[w] = "start" /\ w = Root => l = "schedule"
    BY <1>3 DEF Start, Acquire, Load, Store, Wake, At
  <2>3. pc[w] \in {"start", "acquire", "load", "store", "wake"}
    BY <1>3 DEF Start, Acquire, Load, Store, Wake, At
  <2>4. InScheduler' = InScheduler /\ Done' = Done /\ Holders' = Holders
    BY <2>2, <2>3, <1>t, Moves
       DEF Location, Scheduling, Waking, Holding, Done, Holders, InScheduler
  <2>. QED
    BY <2>1, <2>4, <1>1
<1>4. ASSUME NEW w \in Worker, Finish(w) PROVE DoneInv'
  <2>1. pc[w] = "execute" /\ UNCHANGED <<queue, size>>
    BY <1>4 DEF Finish, At
  <2>2. w \in Holders /\ HeldBy(w) # Null
    BY <2>1 DEF LevelInv, HolderInv, Holders, Holding, HeldBy
  <2>3. queue # null_reactions
    BY <2>2, HeldInQueue, NullShape
  <2>4. Done = {}
    BY <2>3 DEF DoneInv, Terminating
  <2>5. Done' = Done
    BY <1>4, <2>1, <1>t, Moves DEF Finish, Location, Scheduling, Done
  <2>. QED
    BY <2>1, <2>3, <2>4, <2>5 DEF DoneInv, Terminating
<1>5. ASSUME NEW w \in Worker, FetchSub(w) PROVE DoneInv'
  <2>1. /\ UNCHANGED queue
        /\ size' = size - 1
        /\ pc[w] = "pop"
        /\ Goto(w, IF size <= 0 THEN "acquire" ELSE "read")
    BY <1>5 DEF FetchSub, At
  <2>2. /\ Done' = Done
        /\ Holders' = IF size <= 0 THEN Holders ELSE Holders \cup {w}
        /\ InScheduler' = InScheduler
    BY <2>1, <1>t, Moves DEF Location, Scheduling, Holding, Holders, InScheduler, Done
  <2>3. w \notin Done \cup Holders /\ Done \cup Holders \subseteq Worker
    BY <2>1 DEF Done, Holders, Holding
  <2>4. CASE size <= 0
    BY <2>1, <2>2, <2>4, <1>d DEF DoneInv, Terminating, Positive
  <2>5. CASE size > 0
    <3>1. Done' \cup Holders' = (Done \cup Holders) \cup {w}
      BY <2>2, <2>5, <1>d
    <3>2. Cardinality(Done' \cup Holders') = Cardinality(Done \cup Holders) + 1
      BY <3>1, <2>3, WorkerSetAdd
    <3>3. Cardinality(Done \cup Holders) \in Nat
      BY <2>3, WorkerSet
    <3>. QED
      BY <2>1, <2>2, <2>5, <3>2, <3>3, <1>d DEF DoneInv, Terminating, Positive
  <2>. QED
    BY <2>4, <2>5, <1>d
<1>6. ASSUME NEW w \in Worker, Read(w) PROVE DoneInv'
  <2>1. /\ UNCHANGED <<queue, size>>
        /\ pc[w] = "read"
        /\ Goto(w, IF queue[old[w]] = Null THEN "done" ELSE "execute")
    BY <1>6 DEF Read, At
  <2>2. /\ w \in Holders /\ w \notin Done
        /\ Done' = IF queue[old[w]] = Null THEN Done \cup {w} ELSE Done
        /\ Holders' = IF queue[old[w]] = Null THEN Holders \ {w} ELSE Holders
        /\ InScheduler' = InScheduler
    BY <2>1, <1>t, Moves DEF Location, Scheduling, Holding, Holders, InScheduler, Done
  <2>3. Done' \cup Holders' = Done \cup Holders
    BY <2>2
  <2>4. queue[old[w]] = Null => Terminating
    BY <2>2, HeldInQueue, LevelShape, ReactionAssumption DEF Terminating
  <2>. QED
    BY <2>1, <2>2, <2>3, <2>4 DEF DoneInv, Terminating
<1>7. ASSUME NEW w \in Worker, ScheduleReady(w) \/ TerminateAllWorkers(w) \/ Swap(w)
      PROVE  DoneInv'
  <2>1. pc[w] \in {"schedule", "fill_up"} /\ w \in InScheduler
    BY <1>7 DEF ScheduleReady, TerminateAllWorkers, Swap, At, InScheduler, Scheduling
  <2>2. PICK l \in {"fill_up", "exchange"} : Goto(w, l)
    BY <1>7 DEF ScheduleReady, TerminateAllWorkers, Swap
  <2>3. InScheduler' # {} /\ Done' = Done
    BY <2>1, <2>2, <1>t, Moves DEF Location, Scheduling, Done
  <2>. QED
    BY <2>1, <2>3, <1>2 DEF DoneInv, Terminating
<1>8. ASSUME NEW w \in Worker, Exchange(w) PROVE DoneInv'
  <2>1. /\ UNCHANGED queue
        /\ size' = Len(queue)
        /\ pc[w] = "exchange"
        /\ Goto(w, "load")
    BY <1>8 DEF Exchange, At
  <2>2. w \in InScheduler
    BY <2>1 DEF InScheduler, Scheduling
  <2>3. Done = {} /\ Holders = {}
    BY <2>2 DEF DoneInv, Terminating, LevelInv, QuiescentQueue
  <2>4. Done' = {} /\ Holders' = {}
    BY <2>1, <2>3, <1>t, Moves DEF Location, Scheduling, Waking, Holding
  <2>5. queue = null_reactions => 0 + Positive(Len(queue)) = num_workers
    BY NullShape, <1>d DEF Positive
  <2>6. Cardinality(Done' \cup Holders') = 0
    BY <2>4, FS_EmptySet
  <2>. QED
    BY <2>1, <2>4, <2>5, <2>6 DEF DoneInv, Terminating
<1>9. CASE UNCHANGED vars
  BY <1>9, <1>1 DEF vars, InScheduler, Done, Holders
<1>. QED
  BY <1>3, <1>4, <1>5, <1>6, <1>7, <1>8, <1>9 DEF Next, Step

LEMMA WaitInit == Init => WaitInv
<1>. SUFFICES ASSUME Init PROVE WaitInv
  OBVIOUS
<1>1. Blocked = {} /\ Loading = {} /\ InFillUp = {Root}
  BY WorkerAssumption DEF Init, Blocked, Loading, InFillUp, InScheduler, Waking, Scheduling
<1>2. Cardinality(Blocked) = Accounted
  BY <1>1, FS_EmptySet DEF Init, Accounted, Positive
<1>3. FillUpInv
  BY <1>1 DEF Init, FillUpInv, Waking
<1>. QED
  BY <1>1, <1>2, <1>3 DEF Init, WaitInv, OneThreadInSchedule

LEMMA WaitStep ==
  ASSUME LevelInv, [Next]_vars, ~overlap', ~overlap => WaitInv
  PROVE  WaitInv'
<1>t. TypeOK
  BY DEF LevelInv
<1>d. /\ size \in Int /\ waiting_workers \in Int /\ count \in Nat
      /\ Len(queue) \in Nat /\ num_workers \in Nat \ {0}
      /\ old \in [Worker -> Int] /\ register \in [Worker -> Int]
  BY <1>t, QueueShape, NumWorkers DEF TypeOK, SharedOK, LocalsOK
<1>o. ~overlap
  BY DEF Next, Step, Start, Finish, FetchSub, Acquire, Read, ScheduleReady,
         TerminateAllWorkers, Swap, Exchange, Load, Store, Wake, vars
<1>i. WaitInv
  BY <1>o
<1>b. /\ Blocked \subseteq Worker /\ Loading \subseteq InFillUp
      /\ Cardinality(Blocked) \in Nat
  BY WorkerSet DEF Blocked, Loading, InFillUp, Waking
<1>1. ASSUME NEW w \in Worker, Start(w) \/ Read(w) \/ ScheduleReady(w) \/ TerminateAllWorkers(w)
      PROVE  WaitInv'
  <2>1. UNCHANGED <<queue, size, waiting_workers, count, old, new_size, register>>
    BY <1>1 DEF Start, Read, ScheduleReady, TerminateAllWorkers, locals
  <2>2. PICK l \in {"schedule", "pop", "fill_up", "done", "execute"} :
          /\ Goto(w, l)
          /\ l \in {"schedule", "fill_up"} <=> w \in InScheduler
    BY <1>1 DEF Start, Read, ScheduleReady, TerminateAllWorkers, At, InScheduler, Scheduling
  <2>3. pc[w] \notin Waking \cup {"acquire"}
    BY <1>1 DEF Start, Read, ScheduleReady, TerminateAllWorkers, At, Waking
  <2>4. /\ InFillUp' = InFillUp /\ Blocked' = Blocked /\ Loading' = Loading
        /\ \A v \in Worker : pc'[v] \in Waking => pc'[v] = pc[v]
    <3>1. l \in Location /\ l # "start" /\ (l \in Scheduling \cup Waking <=> w \in InScheduler)
      BY <2>2 DEF Location, Scheduling, Waking, Holding
    <3>2. /\ InFillUp' = IF w \in InScheduler THEN InFillUp \cup {w} ELSE InFillUp \ {w}
          /\ Blocked' = Blocked \ {w} /\ Loading' = Loading \ {w}
          /\ \A v \in Worker \ {w} : pc'[v] = pc[v]
          /\ pc'[w] = l
      BY <2>2, <3>1, <1>t, Moves
    <3>3. l \notin Waking /\ w \notin Blocked \cup Loading /\ (w \in InFillUp <=> w \in InScheduler)
      BY <2>2, <2>3 DEF Waking, Blocked, Loading, InFillUp
    <3>. QED
      BY <3>2, <3>3
  <2>5. FillUpInv'
    BY <2>1, <2>4, <1>i DEF WaitInv, FillUpInv, Accounted, Waking
  <2>. QED
    BY <2>1, <2>4, <2>5, <1>i DEF WaitInv, OneThreadInSchedule, Accounted
<1>2. ASSUME NEW w \in Worker, Finish(w) PROVE WaitInv'
  <2>1. /\ UNCHANGED <<queue, size, waiting_workers, count>>
        /\ Forget(w)
        /\ pc[w] = "execute"
        /\ Goto(w, IF reactions_to_process = 1 THEN "schedule" ELSE "pop")
        /\ reactions_to_process = 1 => ~ \E v \in Worker : pc[v] \in Waking
    BY <1>2 DEF Finish, At
  <2>2. /\ Blocked' = Blocked /\ Loading' = Loading
        /\ InFillUp' = IF reactions_to_process = 1 THEN InFillUp \cup {w} ELSE InFillUp
        /\ \A v \in Worker \ {w} : pc'[v] = pc[v]
        /\ pc'[w] \notin Waking
    BY <2>1, <1>t, Moves
       DEF Location, Scheduling, Waking, InFillUp, InScheduler, Blocked, Loading
  <2>3. reactions_to_process = 1 => InFillUp = {}
    BY <2>1 DEF LevelInv, QuiescentQueue, Holders, Holding, InFillUp
  <2>4. \A v \in Worker \ {w} :
          old'[v] = old[v] /\ new_size'[v] = new_size[v] /\ register'[v] = register[v]
    BY <2>1, <1>t DEF Forget, TypeOK, LocalsOK
  <2>5. FillUpInv'
    BY <2>1, <2>2, <2>4, <1>i DEF WaitInv, FillUpInv, Accounted, Waking, Loading
  <2>6. OneThreadInSchedule'
    BY <2>2, <2>3, <1>i DEF WaitInv, OneThreadInSchedule
  <2>7. Accounted' = Accounted
    BY <2>1 DEF Accounted
  <2>8. (InFillUp = {} => waiting_workers = 0 \/ num_workers - waiting_workers >= Len(queue))'
    BY <2>1, <2>2, <1>i DEF WaitInv
  <2>. QED
    BY <2>1, <2>2, <2>5, <2>6, <2>7, <2>8, <1>i DEF WaitInv
<1>3. ASSUME NEW w \in Worker, FetchSub(w) PROVE WaitInv'
  <2>1. /\ UNCHANGED <<new_size, register, queue, waiting_workers, count>>
        /\ pc[w] = "pop"
        /\ old' = [old EXCEPT ![w] = size]
        /\ size' = size - 1
        /\ Goto(w, IF size <= 0 THEN "acquire" ELSE "read")
    BY <1>3 DEF FetchSub, At
  <2>2. /\ Blocked' = IF size <= 0 THEN Blocked \cup {w} ELSE Blocked
        /\ Loading' = Loading /\ InFillUp' = InFillUp
        /\ \A v \in Worker \ {w} : pc'[v] = pc[v]
        /\ pc'[w] \notin Waking
        /\ w \notin Blocked /\ w \notin Loading
    <3>1. w \notin Blocked /\ w \notin Loading /\ w \notin InFillUp
      BY <2>1 DEF Blocked, Loading, InFillUp, InScheduler, Scheduling, Waking
    <3>2. PICK l \in {"acquire", "read"} : Goto(w, l) /\ (l = "acquire" <=> size <= 0)
      BY <2>1
    <3>3. /\ Blocked' = IF l = "acquire" THEN Blocked \cup {w} ELSE Blocked \ {w}
          /\ Loading' = Loading \ {w} /\ InFillUp' = InFillUp \ {w}
          /\ \A v \in Worker \ {w} : pc'[v] = pc[v]
          /\ pc'[w] = l
      BY <3>2, <1>t, Moves DEF Location, Scheduling, Waking, Holding
    <3>. QED
      BY <3>1, <3>2, <3>3 DEF Waking
  <2>3. Cardinality(Blocked') - Accounted' = Cardinality(Blocked) - Accounted
    <3>1. CASE size <= 0
      <4>1. Cardinality(Blocked') = Cardinality(Blocked) + 1
        BY <3>1, <2>2, <1>b, WorkerSetAdd
      <4>2. Accounted' = Accounted + 1
        BY <3>1, <2>1, <1>d DEF Accounted, Positive
      <4>. QED
        BY <4>1, <4>2, <1>b, <1>d DEF Accounted, Positive
    <3>2. CASE size > 0
      <4>1. Cardinality(Blocked') = Cardinality(Blocked)
        BY <3>2, <2>2, <1>d
      <4>2. Accounted' = Accounted
        BY <3>2, <2>1, <1>d DEF Accounted, Positive
      <4>. QED
        BY <4>1, <4>2
    <3>. QED
      BY <3>1, <3>2, <1>d
  <2>4. Cardinality(Blocked') \in Nat /\ Accounted \in Int /\ Accounted' \in Int
    <3>1. Blocked' \subseteq Worker
      BY DEF Blocked
    <3>. QED
      BY <3>1, <2>1, <1>d, WorkerSet DEF Accounted, Positive
  <2>5. FillUpInv'
    <3>1. \A v \in Worker \ {w} : old'[v] = old[v]
      BY <2>1, <1>d
    <3>2. ASSUME NEW v \in Loading
          PROVE  old'[v] <= 0 /\ Cardinality(Blocked') = Accounted' - old'[v]
      <4>1. v \in Worker \ {w} /\ old[v] \in Int
        BY <3>2, <2>2, <1>d DEF Loading
      <4>2. old[v] <= 0 /\ Cardinality(Blocked) = Accounted - old[v]
        BY <3>2, <4>1, <1>i DEF WaitInv, FillUpInv
      <4>. QED
        BY <4>1, <4>2, <3>1, <2>3, <2>4, <1>b
    <3>. QED
      BY <2>1, <2>2, <3>1, <3>2, <1>i DEF WaitInv, FillUpInv, Waking
  <2>6. Loading' = {} => Cardinality(Blocked') = Accounted'
    BY <2>2, <2>3, <2>4, <1>i, <1>b DEF WaitInv
  <2>. QED
    BY <2>1, <2>2, <2>5, <2>6, <1>i DEF WaitInv, OneThreadInSchedule
<1>4. ASSUME NEW w \in Worker, Acquire(w) PROVE WaitInv'
  <2>1. /\ UNCHANGED <<queue, size, waiting_workers>>
        /\ count' = count - 1
        /\ pc[w] = "acquire"
        /\ Goto(w, "pop")
        /\ Forget(w)
    BY <1>4 DEF Acquire, At
  <2>2. /\ Blocked' = Blocked \ {w} /\ w \in Blocked
        /\ Loading' = Loading /\ InFillUp' = InFillUp
        /\ \A v \in Worker \ {w} : pc'[v] = pc[v]
        /\ pc'[w] \notin Waking
    BY <2>1, <1>t, Moves
       DEF Location, Scheduling, Waking, InFillUp, InScheduler, Blocked, Loading
  <2>3. Cardinality(Blocked') = Cardinality(Blocked) - 1
    BY <2>2, <1>b, WorkerSetRemove
  <2>4. Accounted \in Int /\ Accounted' = Accounted - 1
    BY <2>1, <1>d DEF Accounted, Positive
  <2>5. \A v \in Worker \ {w} :
          old'[v] = old[v] /\ new_size'[v] = new_size[v] /\ register'[v] = register[v]
    BY <2>1, <1>t DEF Forget, TypeOK, LocalsOK
  <2>6. FillUpInv'
    <3>1. ASSUME NEW v \in Loading'
          PROVE  old'[v] <= 0 /\ Cardinality(Blocked') = Accounted' - old'[v]
      <4>1. v \in Loading /\ v \in Worker \ {w} /\ old'[v] = old[v] /\ old[v] \in Int
        BY <3>1, <2>1, <2>2, <2>5, <1>d DEF Loading
      <4>2. old[v] <= 0 /\ Cardinality(Blocked) = Accounted - old[v]
        BY <4>1, <1>i DEF WaitInv, FillUpInv
      <4>. QED
        BY <4>1, <4>2, <2>3, <2>4, <1>b
    <3>2. ASSUME NEW v \in Worker, pc'[v] \in Waking
          PROVE  v \in Worker \ {w} /\ pc'[v] = pc[v] /\ old'[v] = old[v]
                 /\ new_size'[v] = new_size[v] /\ register'[v] = register[v]
      BY <3>2, <2>2, <2>5
    <3>. QED
      BY <3>1, <3>2, <2>1, <1>i DEF WaitInv, FillUpInv, Waking
  <2>. QED
    BY <2>1, <2>2, <2>3, <2>4, <2>6, <1>i, <1>b DEF WaitInv, OneThreadInSchedule
<1>5. ASSUME NEW w \in Worker, Swap(w) PROVE WaitInv'
  <2>1. UNCHANGED <<locals, size, waiting_workers, count>> /\ pc[w] = "fill_up" /\ Goto(w, "exchange")
    BY <1>5 DEF Swap, At
  <2>2. /\ Blocked' = Blocked /\ Loading' = Loading /\ InFillUp' = InFillUp /\ w \in InFillUp
        /\ \A v \in Worker \ {w} : pc'[v] = pc[v]
        /\ pc'[w] \notin Waking
    BY <2>1, <1>t, Moves
       DEF Location, Scheduling, Waking, InFillUp, InScheduler, Blocked, Loading
  <2>3. \A v \in Worker : pc'[v] \notin Waking
    BY <2>2, <1>i DEF WaitInv, OneThreadInSchedule, InFillUp
  <2>4. FillUpInv'
    BY <2>3 DEF FillUpInv, Loading, Waking
  <2>. QED
    BY <2>1, <2>2, <2>4, <1>i DEF WaitInv, OneThreadInSchedule, Accounted
<1>6. ASSUME NEW w \in Worker, Exchange(w) PROVE WaitInv'
  <2>1. /\ UNCHANGED <<register, queue, waiting_workers, count>>
        /\ pc[w] = "exchange"
        /\ old' = [old EXCEPT ![w] = size]
        /\ new_size' = [new_size EXCEPT ![w] = Len(queue)]
        /\ size' = Len(queue)
        /\ Goto(w, "load")
    BY <1>6 DEF Exchange, At
  <2>2. /\ Blocked' = Blocked /\ Loading' = Loading \cup {w}
        /\ InFillUp' = InFillUp /\ w \in InFillUp /\ w \in InScheduler
        /\ pc'[w] = "load"
        /\ \A v \in Worker \ {w} : pc'[v] = pc[v]
    BY <2>1, <1>t, Moves
       DEF Location, Scheduling, Waking, InFillUp, InScheduler, Blocked, Loading
  <2>3. size <= 0
    BY <2>2 DEF LevelInv, QuiescentQueue
  <2>4. \A v \in Worker \ {w} : pc'[v] \notin Waking /\ v \notin Loading'
    BY <2>2, <1>i, <1>b DEF WaitInv, OneThreadInSchedule, InFillUp
  <2>5. Loading = {}
    BY <2>1, <2>2, <2>4 DEF Loading
  <2>6. old'[w] = size /\ new_size'[w] = Len(queue)
    BY <2>1, <1>t, <1>d DEF TypeOK, LocalsOK
  <2>7. Accounted' - old'[w] = Accounted
    <3>1. Accounted' = waiting_workers + count + Positive(-Len(queue))
      BY <2>1 DEF Accounted
    <3>2. Positive(-Len(queue)) = 0 /\ Positive(-size) = -size
      BY <2>3, <1>d DEF Positive
    <3>. QED
      BY <3>1, <3>2, <2>6, <1>d DEF Accounted
  <2>8. Cardinality(Blocked') = Accounted
    BY <2>2, <2>5, <1>i DEF WaitInv
  <2>9. FillUpInv'
    <3>1. Loading' \subseteq {w} /\ pc'[w] \notin {"store", "wake"}
      BY <2>2, <2>5
    <3>. QED
      BY <3>1, <2>1, <2>3, <2>4, <2>6, <2>7, <2>8 DEF FillUpInv, Waking
  <2>. QED
    BY <2>1, <2>2, <2>9, <1>i DEF WaitInv, OneThreadInSchedule
<1>7. ASSUME NEW w \in Worker, Load(w) PROVE WaitInv'
  <2>1. /\ UNCHANGED <<old, new_size, queue, size, waiting_workers, count>>
        /\ pc[w] = "load"
        /\ register' = [register EXCEPT ![w] = waiting_workers - old[w]]
        /\ Goto(w, "store")
    BY <1>7 DEF Load, At
  <2>2. /\ Blocked' = Blocked /\ Loading' = Loading
        /\ InFillUp' = InFillUp /\ w \in InFillUp
        /\ pc'[w] = "store"
        /\ \A v \in Worker \ {w} : pc'[v] = pc[v]
    BY <2>1, <1>t, Moves
       DEF Location, Scheduling, Waking, InFillUp, InScheduler, Blocked, Loading
  <2>3. \A v \in Worker \ {w} : pc'[v] \notin Waking /\ v \notin Loading'
    BY <2>2, <1>i, <1>b DEF WaitInv, OneThreadInSchedule, InFillUp
  <2>4. FillUpInv'
    BY <2>1, <2>2, <2>3, <1>i, <1>d DEF WaitInv, FillUpInv, Waking, Accounted
  <2>. QED
    BY <2>1, <2>2, <2>4, <1>i DEF WaitInv, OneThreadInSchedule, Accounted
<1>8. ASSUME NEW w \in Worker, Store(w) PROVE WaitInv'
  <2>1. /\ UNCHANGED <<old, new_size, register, queue, size, count>>
        /\ pc[w] = "store"
        /\ waiting_workers' = register[w]
        /\ Goto(w, "wake")
    BY <1>8 DEF Store, At, locals
  <2>2. /\ Blocked' = Blocked /\ Loading' = Loading \ {w} /\ w \in Loading
        /\ InFillUp' = InFillUp /\ w \in InFillUp
        /\ pc'[w] = "wake"
        /\ \A v \in Worker \ {w} : pc'[v] = pc[v]
    BY <2>1, <1>t, Moves
       DEF Location, Scheduling, Waking, InFillUp, InScheduler, Blocked, Loading
  <2>3. \A v \in Worker \ {w} : pc'[v] \notin Waking /\ v \notin Loading
    BY <2>2, <1>i, <1>b DEF WaitInv, OneThreadInSchedule, InFillUp
  <2>4. /\ register[w] = waiting_workers - old[w]
        /\ new_size[w] = Len(queue)
        /\ old[w] <= 0
        /\ Cardinality(Blocked) = Accounted - old[w]
    BY <2>1, <2>2, <1>i DEF WaitInv, FillUpInv, Waking
  <2>5. waiting_workers' >= 0 /\ Cardinality(Blocked') = Accounted'
    BY <2>1, <2>2, <2>4, <1>i, <1>d DEF WaitInv, Accounted, Positive
  <2>6. FillUpInv'
    BY <2>1, <2>2, <2>3, <2>4 DEF FillUpInv, Waking
  <2>. QED
    BY <2>1, <2>2, <2>5, <2>6, <1>i DEF WaitInv, OneThreadInSchedule
<1>9. ASSUME NEW w \in Worker, Wake(w) PROVE WaitInv'
  <2>1. UNCHANGED <<queue, size>> /\ pc[w] = "wake" /\ Goto(w, "pop") /\ Forget(w)
    BY <1>9 DEF Wake, At
  <2>2. /\ Blocked' = Blocked /\ Loading' = Loading \ {w} /\ w \notin Loading
        /\ InFillUp' = InFillUp \ {w} /\ w \in InFillUp
        /\ pc'[w] = "pop"
        /\ \A v \in Worker \ {w} : pc'[v] = pc[v]
    BY <2>1, <1>t, Moves
       DEF Location, Scheduling, Waking, InFillUp, InScheduler, Blocked, Loading
  <2>3. Loading = {} /\ InFillUp' = {} /\ \A v \in Worker : pc'[v] \notin Waking
    BY <2>2, <1>i, <1>b DEF WaitInv, OneThreadInSchedule, InFillUp, Waking
  <2>4. register[w] = waiting_workers /\ new_size[w] = Len(queue)
    BY <2>1, <1>i DEF WaitInv, FillUpInv, Waking
  <2>. DEFINE wakeup == workers_to_wakeup(waiting_workers, Len(queue))
  <2>5. IF wakeup > 0 THEN waiting_workers' = waiting_workers - wakeup /\ count' = count + wakeup
                      ELSE waiting_workers' = waiting_workers /\ count' = count
    BY <1>9, <2>4 DEF Wake
  <2>6. /\ wakeup \in Int /\ wakeup <= waiting_workers
        /\ wakeup = waiting_workers \/ wakeup = Len(queue) - (num_workers - waiting_workers)
    BY <1>d DEF workers_to_wakeup
  <2>7. waiting_workers >= 0 /\ Cardinality(Blocked) = Accounted
    BY <2>3, <1>i DEF WaitInv
  <2>8. /\ waiting_workers' >= 0
        /\ waiting_workers' = 0 \/ num_workers - waiting_workers' >= Len(queue)
        /\ waiting_workers' + count' = waiting_workers + count
        /\ waiting_workers' \in Int /\ count' \in Int
    <3>1. /\ waiting_workers \in Int /\ count \in Int /\ num_workers \in Int
          /\ Len(queue) \in Int
      BY <1>d
    <3>2. CASE wakeup > 0
      <4>1. waiting_workers' = waiting_workers - wakeup /\ count' = count + wakeup
        BY <3>2, <2>5
      <4>. HIDE DEF wakeup
      <4>. QED
        BY <4>1, <3>1, <2>6, <2>7
    <3>3. CASE ~(wakeup > 0)
      <4>1. waiting_workers' = waiting_workers /\ count' = count
        BY <3>3, <2>5
      <4>. HIDE DEF wakeup
      <4>. QED
        BY <4>1, <3>1, <3>3, <2>6, <2>7
    <3>. QED
      BY <3>2, <3>3
  <2>9. Accounted' = Accounted
    <3>1. /\ Accounted' = (waiting_workers' + count') + Positive(-size)
          /\ Accounted = (waiting_workers + count) + Positive(-size)
      BY <2>1, <2>8, <1>d DEF Accounted, Positive
    <3>. QED
      BY <3>1, <2>8
  <2>10. FillUpInv'
    BY <2>3, <2>2 DEF FillUpInv, Waking
  <2>11. OneThreadInSchedule'
    BY <2>3 DEF OneThreadInSchedule
  <2>. QED
    BY <2>1, <2>2, <2>7, <2>8, <2>9, <2>10, <2>11 DEF WaitInv
<1>10. CASE UNCHANGED vars
  BY <1>10, <1>i DEF vars, locals, WaitInv, FillUpInv, OneThreadInSchedule, Accounted,
                     Blocked, Loading, InFillUp, InScheduler
<1>. QED
  BY <1>1, <1>2, <1>3, <1>4, <1>5, <1>6, <1>7, <1>8, <1>9, <1>10 DEF Next, Step

LEMMA PoolInvariant == Spec => []PoolInv
<1>1. Init => PoolInv
  BY LevelInit, DoneInit, WaitInit DEF PoolInv
<1>2. PoolInv /\ [Next]_vars => PoolInv'
  <2>. SUFFICES ASSUME PoolInv, [Next]_vars PROVE PoolInv'
    OBVIOUS
  <2>1. LevelInv' /\ DoneInv'
    BY LevelStep, DoneStep DEF PoolInv
  <2>2. ASSUME ~overlap' PROVE WaitInv'
    BY <2>2, WaitStep DEF PoolInv
  <2>. QED
    BY <2>1, <2>2 DEF PoolInv
<1>. QED
  BY <1>1, <1>2, PTL DEF Spec

LEMMA PoolTypes ==
  ASSUME PoolInv
  PROVE  /\ size \in Int /\ waiting_workers \in Int /\ count \in Nat
         /\ reactions_to_process \in Nat
         /\ Len(queue) \in Nat /\ num_workers \in Nat /\ num_workers >= 1
         /\ old \in [Worker -> Int]
         /\ Cardinality(Blocked) \in Nat /\ Cardinality(Blocked) <= num_workers
         /\ size <= Len(queue)
<1>1. TypeOK /\ size <= Len(queue)
  BY DEF PoolInv, LevelInv
<1>2. Blocked \subseteq Worker
  BY DEF Blocked
<1>. QED
  BY <1>1, <1>2, QueueShape, NumWorkers, WorkerSet DEF TypeOK, SharedOK, LocalsOK

(* Every worker that waits is accounted for by waiting_workers_, a token   *)
(* of the semaphore or the negative part of size_, whoever takes the       *)
(* tokens, until schedule() is started inside another fill_up.             *)
THEOREM WaitersAreAccounted == Spec => []WaitersAccounted
<1>1. PoolInv => WaitersAccounted
  BY DEF PoolInv, WaitInv, FillUpInv, WaitersAccounted, Loading
<1>. QED
  BY <1>1, PoolInvariant, PTL

(* The underflow of size_ is bounded by the number of workers, and tokens  *)
(* never exceed waiting workers, until schedule() is started inside        *)
(* another fill_up.                                                        *)
THEOREM WaitingIsBounded == Spec => []WaitingBounded
<1>1. PoolInv => WaitingBounded
  <2>. SUFFICES ASSUME PoolInv, ~overlap PROVE TokensBounded /\ NoUnderflow
    BY DEF WaitingBounded
  <2>1. waiting_workers >= 0
    BY DEF PoolInv, WaitInv
  <2>2. Accounted <= Cardinality(Blocked)
    <3>1. CASE Loading = {}
      BY <3>1, PoolTypes DEF PoolInv, WaitInv, Accounted, Positive
    <3>2. ASSUME NEW w \in Loading PROVE Accounted <= Cardinality(Blocked)
      <4>1. w \in Worker
        BY DEF Loading
      <4>2. old[w] \in Int /\ old[w] <= 0 /\ Cardinality(Blocked) = Accounted - old[w]
        BY <4>1, PoolTypes DEF PoolInv, WaitInv, FillUpInv
      <4>3. Accounted \in Int
        BY PoolTypes DEF Accounted, Positive
      <4>. QED
        BY <4>2, <4>3
    <3>. QED
      BY <3>1, <3>2
  <2>. QED
    BY <2>1, <2>2, PoolTypes DEF Accounted, Positive, TokensBounded, NoUnderflow
<1>. QED
  BY <1>1, PoolInvariant, PTL

(* As long as slots are left, no worker that could take one is left        *)
(* sleeping, until schedule() is started inside another fill_up.           *)
THEOREM WakesAreEnough == Spec => []WakesEnough
<1>1. PoolInv => WakesEnough
  <2>. SUFFICES ASSUME PoolInv, ~overlap, InFillUp = {}, size > 0
                PROVE  Asleep <= 0 \/ num_workers - Asleep >= reactions_to_process
    BY DEF WakesEnough
  <2>1. Loading = {} /\ InScheduler = {}
    BY DEF InFillUp, Loading, Waking
  <2>2. Asleep = waiting_workers
    <3>1. Cardinality(Blocked) = waiting_workers + count
      BY <2>1, PoolTypes DEF PoolInv, WaitInv, Accounted, Positive
    <3>. QED
      BY <3>1, PoolTypes DEF Asleep
  <2>3. reactions_to_process <= Len(queue)
    BY <2>1, PoolTypes DEF PoolInv, LevelInv, CounterInv
  <2>4. waiting_workers = 0 \/ num_workers - waiting_workers >= Len(queue)
    BY DEF PoolInv, WaitInv
  <2>. QED
    BY <2>2, <2>3, <2>4, PoolTypes
<1>. QED
  BY <1>1, PoolInvariant, PTL

(* The workers never all end up waiting or terminated with one of them     *)
(* waiting, until schedule() is started inside another fill_up.            *)
THEOREM NoHangUnlessOverlap == Spec => []NoHangWithoutOverlap
<1>1. PoolInv => NoHangWithoutOverlap
  <2>. SUFFICES ASSUME PoolInv, ~overlap, Hang PROVE FALSE
    BY DEF NoHangWithoutOverlap, NoHang
  <2>1. \A w \in Worker : pc[w] = "acquire" \/ pc[w] = "done"
    BY DEF Hang, Blocked, Done
  <2>2. InFillUp = {} /\ InScheduler = {} /\ Holders = {} /\ Loading = {}
    BY <2>1 DEF InFillUp, InScheduler, Holders, Loading, Waking, Scheduling, Holding
  <2>3. Cardinality(Blocked) = waiting_workers + Positive(-size)
    BY <2>2, PoolTypes DEF PoolInv, WaitInv, Accounted, Hang, Positive
  <2>4. waiting_workers >= 0 /\ (waiting_workers = 0 \/ num_workers - waiting_workers >= Len(queue))
    BY <2>2 DEF PoolInv, WaitInv
  <2>5. Blocked \subseteq Worker /\ Done \subseteq Worker /\ Blocked \cap Done = {} /\ Blocked # {}
    BY DEF Blocked, Done, Hang
  <2>6. Cardinality(Blocked) >= 1
    BY <2>5, WorkerSet
  <2>7. CASE queue = null_reactions
    <3>1. Cardinality(Done \cup Holders) + Positive(size) = num_workers /\ Len(queue) = num_workers
      BY <2>2, <2>7, NullShape DEF PoolInv, DoneInv, Terminating
    <3>2. Cardinality(Done) + Positive(size) = num_workers
      BY <3>1, <2>2
    <3>3. Cardinality(Done) < num_workers
      BY <2>5, WorkerAssumption, FS_Subset, WorkerSet DEF num_workers
    <3>4. size > 0
      BY <3>2, <3>3, <2>5, WorkerSet, PoolTypes DEF Positive
    <3>. QED
      BY <3>1, <3>4, <2>3, <2>4, <2>6, PoolTypes DEF Positive
  <2>8. CASE queue # null_reactions
    <3>1. reactions_to_process = Cardinality(Holders) + Positive(size) /\ reactions_to_process >= 1
      BY <2>2, <2>8, PoolTypes DEF PoolInv, LevelInv, CounterInv, Unfinished
    <3>2. size >= 1
      BY <3>1, <2>2, FS_EmptySet, PoolTypes DEF Positive
    <3>3. Blocked = Worker
      BY <2>8 DEF Hang, PoolInv, DoneInv, Terminating
    <3>4. Cardinality(Blocked) = num_workers
      BY <3>3 DEF num_workers
    <3>. QED
      BY <3>2, <3>4, <2>3, <2>4, PoolTypes DEF Positive
  <2>. QED
    BY <2>7, <2>8
<1>. QED
  BY <1>1, PoolInvariant, PTL

-----------------------------------------------------------------------------
(* Refinement: the pool executes levels as LevelExecution promises.        *)

Running == [w \in Worker |-> HeldBy(w)]

LEMMA OfferedShape ==
  ASSUME LevelInv
  PROVE  /\ size <= 0 => Offered = {}
         /\ queue = null_reactions => Offered = {}
         /\ queue \in Level => Offered = {queue[i] : i \in 1..size} /\ Offered \subseteq Reaction
<1>1. size \in Int /\ size <= Len(queue) /\ Len(queue) \in Nat
  BY QueueShape DEF LevelInv, TypeOK, SharedOK
<1>2. size <= 0 => Offered = {}
  BY <1>1 DEF Offered
<1>3. queue = null_reactions => Offered = {}
  BY <1>1, NullShape DEF Offered
<1>4. ASSUME queue \in Level
      PROVE  Offered = {queue[i] : i \in 1..size} /\ Offered \subseteq Reaction
  BY <1>1, <1>4, LevelShape, ReactionAssumption DEF Offered
<1>. QED
  BY <1>2, <1>3, <1>4

LEMMA IdleHoldsNothing ==
  ASSUME NEW w \in Worker, w \notin Holders
  PROVE  HeldBy(w) = Null
BY DEF Holders, Holding, HeldBy

LEMMA RefinesStep ==
  ASSUME LevelInv, DoneInv, [Next]_vars
  PROVE  [Levels!Next]_(Levels!vars)
<1>. USE DEF Levels!vars
<1>t. TypeOK
  BY DEF LevelInv
<1>d. /\ size \in Int /\ size <= Len(queue) /\ Len(queue) \in Nat
      /\ old \in [Worker -> Int] /\ reaction \in [Worker -> Reaction \cup {Null}]
  BY <1>t, QueueShape DEF LevelInv, TypeOK, SharedOK, LocalsOK
<1>1. ASSUME UNCHANGED <<queue, size>>, Done' = Done, Running' = Running
      PROVE  UNCHANGED <<Offered, Running, Done>>
  BY <1>1 DEF Offered
<1>2. ASSUME NEW w \in Worker,
             Start(w) \/ Acquire(w) \/ ScheduleReady(w) \/ TerminateAllWorkers(w)
             \/ Load(w) \/ Store(w) \/ Wake(w)
      PROVE  UNCHANGED <<Offered, Running, Done>>
  <2>1. UNCHANGED <<queue, size>>
    BY <1>2 DEF Start, Acquire, ScheduleReady, TerminateAllWorkers, Load, Store, Wake
  <2>2. \A v \in Worker \ {w} : old'[v] = old[v] /\ reaction'[v] = reaction[v]
    BY <1>2, <1>d DEF Start, Acquire, ScheduleReady, TerminateAllWorkers, Load, Store, Wake,
                      locals, Forget
  <2>3. PICK l \in {"schedule", "fill_up", "pop", "store", "wake"} : Goto(w, l)
    BY <1>2 DEF Start, Acquire, ScheduleReady, TerminateAllWorkers, Load, Store, Wake
  <2>4. pc[w] \in {"start", "acquire", "schedule", "load", "store", "wake"}
    BY <1>2 DEF Start, Acquire, ScheduleReady, TerminateAllWorkers, Load, Store, Wake, At
  <2>5. /\ \A v \in Worker \ {w} : pc'[v] = pc[v]
        /\ pc'[w] = l /\ Done' = Done
    BY <2>3, <2>4, <1>t, Moves DEF Location, Scheduling, Waking, Holding, Done
  <2>6. \A v \in Worker : HeldBy(v)' = HeldBy(v)
    BY <2>1, <2>2, <2>4, <2>5 DEF HeldBy
  <2>. QED
    BY <2>1, <2>5, <2>6, <1>1 DEF Running
<1>3. ASSUME NEW w \in Worker, Finish(w) PROVE Levels!End(w)
  <2>1. /\ UNCHANGED <<queue, size>> /\ Forget(w) /\ pc[w] = "execute"
        /\ Goto(w, IF reactions_to_process = 1 THEN "schedule" ELSE "pop")
    BY <1>3 DEF Finish, At
  <2>2. /\ \A v \in Worker \ {w} : pc'[v] = pc[v] /\ old'[v] = old[v] /\ reaction'[v] = reaction[v]
        /\ pc'[w] \in {"schedule", "pop"} /\ Done' = Done
    BY <2>1, <1>t, <1>d, Moves DEF Location, Scheduling, Holding, Done, Forget
  <2>3. HeldBy(w) # Null
    BY <2>1 DEF HeldBy, LevelInv, HolderInv, Holders, Holding
  <2>4. HeldBy(w)' = Null /\ \A v \in Worker \ {w} : HeldBy(v)' = HeldBy(v)
    BY <2>1, <2>2 DEF HeldBy
  <2>5. Running' = [Running EXCEPT ![w] = Null]
    BY <2>4 DEF Running
  <2>. QED
    BY <2>1, <2>2, <2>3, <2>5 DEF Levels!End, Running, Offered
<1>4. ASSUME NEW w \in Worker, FetchSub(w)
      PROVE  Levels!Begin(w) \/ UNCHANGED <<Offered, Running, Done>>
  <2>1. /\ UNCHANGED <<queue, reaction>>
        /\ old' = [old EXCEPT ![w] = size]
        /\ size' = size - 1
        /\ pc[w] = "pop"
        /\ Goto(w, IF size <= 0 THEN "acquire" ELSE "read")
    BY <1>4 DEF FetchSub, At
  <2>2. /\ \A v \in Worker \ {w} : pc'[v] = pc[v] /\ old'[v] = old[v]
        /\ pc'[w] = IF size <= 0 THEN "acquire" ELSE "read"
        /\ old'[w] = size
        /\ Done' = Done
    <3>1. Done' = Done
      BY <2>1, <1>t, Moves DEF Location, Holding, Done
    <3>2. /\ \A v \in Worker \ {w} : pc'[v] = pc[v]
          /\ pc'[w] = IF size <= 0 THEN "acquire" ELSE "read"
      BY <2>1, <1>t, Moves DEF Location, Holding
    <3>. QED
      BY <2>1, <3>1, <3>2, <1>d
  <2>3. HeldBy(w) = Null /\ \A v \in Worker \ {w} : HeldBy(v)' = HeldBy(v)
    BY <2>1, <2>2 DEF HeldBy
  <2>4. LevelInv' 
    BY LevelStep
  <2>5. CASE size <= 0
    <3>1. Offered = {} /\ Offered' = {}
      BY <2>1, <2>5, <1>d DEF Offered
    <3>2. HeldBy(w)' = Null
      BY <2>2, <2>5 DEF HeldBy
    <3>3. Running' = Running
      BY <2>3, <3>2 DEF Running
    <3>. QED
      BY <2>2, <3>1, <3>3
  <2>6. CASE size > 0
    <3>1. HeldBy(w)' = queue[size]
      BY <2>1, <2>2, <2>6, <1>d DEF HeldBy
    <3>2. InScheduler = {}
      BY <2>6, <1>d DEF LevelInv, QuiescentQueue
    <3>3. CASE queue = null_reactions
      <4>1. Offered = {}
        BY <3>3, OfferedShape
      <4>2. Offered' = {}
        BY <3>3, <2>1, <1>d, NullShape DEF Offered
      <4>3. HeldBy(w)' = Null
        BY <3>1, <3>3, <2>6, <1>d, NullShape
      <4>4. Running' = Running
        BY <2>3, <4>3 DEF Running
      <4>. QED
        BY <2>2, <4>1, <4>2, <4>4
    <3>4. CASE queue \in Level
      <4>1. w \notin Done /\ Running[w] = Null
        BY <2>1, <2>3 DEF Done, Running
      <4>2. Offered = {queue[i] : i \in 1..size} /\ queue[size] \in Offered
        BY <3>4, <2>6, <1>d, OfferedShape
      <4>3. Offered' = {queue[i] : i \in 1..(size - 1)}
        <5>1. ASSUME NEW i \in 1..(size - 1) PROVE queue[i] # Null
          <6>1. i \in 1..Len(queue)
            BY <1>d
          <6>2. queue[i] \in Reaction
            BY <6>1, <3>4, LevelShape
          <6>. QED
            BY <6>2, ReactionAssumption
        <5>. QED
          BY <5>1, <2>1 DEF Offered
      <4>4. \A i \in 1..(size - 1) : queue[i] # queue[size]
        BY <3>4, <2>6, <1>d, LevelShape
      <4>5. Offered' = Offered \ {queue[size]}
        BY <4>2, <4>3, <4>4, <2>6, <1>d
      <4>6. Running' = [Running EXCEPT ![w] = queue[size]]
        BY <2>3, <3>1 DEF Running
      <4>. QED
        BY <2>2, <4>1, <4>2, <4>5, <4>6 DEF Levels!Begin, Running
    <3>. QED
      BY <3>2, <3>3, <3>4 DEF LevelInv, CounterInv
  <2>. QED
    BY <2>5, <2>6, <1>d
<1>5. ASSUME NEW w \in Worker, Read(w)
      PROVE  Levels!Stop(w) \/ UNCHANGED <<Offered, Running, Done>>
  <2>1. /\ UNCHANGED <<queue, size, old>>
        /\ reaction' = [reaction EXCEPT ![w] = queue[old[w]]]
        /\ pc[w] = "read"
        /\ Goto(w, IF queue[old[w]] = Null THEN "done" ELSE "execute")
    BY <1>5 DEF Read, At
  <2>2. /\ \A v \in Worker \ {w} : pc'[v] = pc[v] /\ reaction'[v] = reaction[v]
        /\ pc'[w] = IF queue[old[w]] = Null THEN "done" ELSE "execute"
        /\ reaction'[w] = queue[old[w]]
        /\ Done' = IF queue[old[w]] = Null THEN Done \cup {w} ELSE Done
        /\ w \notin Done /\ w \in Holders
    <3>1. /\ \A v \in Worker \ {w} : pc'[v] = pc[v]
          /\ pc'[w] = IF queue[old[w]] = Null THEN "done" ELSE "execute"
          /\ Done' = IF queue[old[w]] = Null THEN Done \cup {w} ELSE Done \ {w}
      BY <2>1, <1>t, Moves DEF Location, Holding
    <3>2. w \notin Done /\ w \in Holders
      BY <2>1 DEF Done, Holders, Holding
    <3>. QED
      BY <2>1, <3>1, <3>2, <1>d
  <2>3. \A v \in Worker : HeldBy(v)' = HeldBy(v)
    BY <2>1, <2>2 DEF HeldBy
  <2>4. Running' = Running /\ Offered' = Offered
    BY <2>1, <2>3 DEF Running, Offered
  <2>5. CASE queue[old[w]] # Null
    BY <2>2, <2>4, <2>5
  <2>6. CASE queue[old[w]] = Null
    <3>1. queue = null_reactions
      BY <2>2, <2>6, HeldInQueue, LevelShape, ReactionAssumption
    <3>2. \A v \in Worker : HeldBy(v) = Null
      BY <3>1, HeldInQueue, IdleHoldsNothing, NullShape
    <3>3. Levels!LevelOver
      BY <3>1, <3>2, OfferedShape DEF Levels!LevelOver
    <3>. QED
      BY <2>2, <2>4, <2>6, <3>3 DEF Levels!Stop, Running
  <2>. QED
    BY <2>5, <2>6
<1>6. ASSUME NEW w \in Worker, Swap(w) PROVE UNCHANGED <<Offered, Running, Done>>
  <2>1. UNCHANGED <<locals, size>> /\ pc[w] = "fill_up" /\ Goto(w, "exchange")
    BY <1>6 DEF Swap, At
  <2>2. Holders = {} /\ size <= 0
    BY <2>1 DEF LevelInv, QuiescentQueue, InScheduler, Scheduling
  <2>3. Holders' = {} /\ Done' = Done
    BY <2>1, <2>2, <1>t, Moves DEF Location, Scheduling, Holding, Done
  <2>4. \A v \in Worker : HeldBy(v) = Null /\ HeldBy(v)' = Null
    BY <2>2, <2>3 DEF HeldBy, Holders, Holding
  <2>5. Offered = {} /\ Offered' = {}
    BY <2>1, <2>2, <1>d DEF Offered
  <2>. QED
    BY <2>3, <2>4, <2>5 DEF Running
<1>7. ASSUME NEW w \in Worker, Exchange(w)
      PROVE  Levels!Publish \/ UNCHANGED <<Offered, Running, Done>>
  <2>1. UNCHANGED queue /\ size' = Len(queue) /\ pc[w] = "exchange" /\ Goto(w, "load")
    BY <1>7 DEF Exchange, At
  <2>2. InScheduler # {} /\ Holders = {} /\ size <= 0 /\ Filling(queue)
    BY <2>1 DEF LevelInv, QuiescentQueue, SchedulerInv, InScheduler, Scheduling
  <2>3. Done = {}
    BY <2>2 DEF DoneInv, Terminating
  <2>4. Holders' = {} /\ Done' = Done
    BY <2>1, <2>2, <1>t, Moves DEF Location, Scheduling, Waking, Holding, Done
  <2>5. \A v \in Worker : HeldBy(v) = Null /\ HeldBy(v)' = Null
    BY <2>2, <2>4 DEF HeldBy, Holders, Holding
  <2>6. Offered = {}
    BY <2>2, OfferedShape
  <2>7. Running' = Running
    BY <2>5 DEF Running
  <2>8. CASE queue = null_reactions
    <3>1. Offered' = {}
      BY <2>8, <2>1, <1>d, NullShape DEF Offered
    <3>. QED
      BY <3>1, <2>4, <2>6, <2>7
  <2>9. CASE queue \in Level
    <3>1. Offered' = {queue[i] : i \in 1..Len(queue)}
      BY <2>9, <2>1, <1>d, LevelShape, ReactionAssumption DEF Offered
    <3>2. Offered' \in (SUBSET Reaction) \ {{}}
      <4>1. 1 \in 1..Len(queue) /\ \A i \in 1..Len(queue) : queue[i] \in Reaction
        BY <2>9, LevelShape
      <4>2. Offered' \subseteq Reaction
        BY <3>1, <4>1
      <4>3. queue[1] \in Offered'
        BY <3>1, <4>1
      <4>. QED
        BY <4>2, <4>3
    <3>. QED
      BY <3>2, <2>3, <2>4, <2>5, <2>6, <2>7
         DEF Levels!Publish, Levels!LevelOver, Running
  <2>. QED
    BY <2>2, <2>8, <2>9 DEF Filling
<1>8. CASE UNCHANGED vars
  BY <1>8 DEF vars, locals, Offered, Running, Done, HeldBy
<1>. QED
  BY <1>2, <1>3, <1>4, <1>5, <1>6, <1>7, <1>8 DEF Next, Step, Levels!Next, Running

(* The pool implements LevelExecution: every level is executed to its end  *)
(* before the next is published, each of its reactions once, and workers   *)
(* terminate only when nothing is left and nothing will be published.      *)
THEOREM PoolImplementsLevels == Spec => Levels!SafeSpec
<1>1. Init => Levels!Init
  <2>. SUFFICES ASSUME Init PROVE Levels!Init
    OBVIOUS
  <2>1. Offered = {}
    BY LevelInit, OfferedShape DEF Init
  <2>2. Done = {} /\ \A w \in Worker : HeldBy(w) = Null
    BY DEF Init, Done, HeldBy
  <2>. QED
    BY <2>1, <2>2 DEF Levels!Init
<1>2. LevelInv /\ DoneInv /\ [Next]_vars => [Levels!Next]_(Levels!vars)
  BY RefinesStep
<1>3. PoolInv => LevelInv /\ DoneInv
  BY DEF PoolInv
<1>. QED
  BY <1>1, <1>2, <1>3, PoolInvariant, PTL DEF Spec, Levels!SafeSpec

=============================================================================
