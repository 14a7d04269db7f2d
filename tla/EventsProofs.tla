---------------------------- MODULE EventsProofs ----------------------------
(***************************************************************************)
(* For any number of threads, tags and calls: each list of events stays in *)
(* one place, the entries of a list that is processed are all written, and *)
(* an action that is set up has a value for the current tag, and there are *)
(* as many entries as calls.                                               *)
(*                                                                         *)
(* IInv is the inductive invariant of the lists, VInv that of the values,  *)
(* which needs IInv, and HeldInv that of the numbers of entries, which     *)
(* needs both.                                                             *)
(***************************************************************************)
EXTENDS Events, SequenceTheorems, FiniteSetTheorems, WellFoundedInduction, TLAPS

(* Threads that insert an event; threads that refer to a list.             *)
Busy == {"find", "emplace", "push_back", "write", "grow"}
Locked == Busy \cup {"unlock"}

ActionList ==
  UNION {[write_pos : Nat, vector_size : {n}, vector : [0..(n - 1) -> Action \cup {NoAction}]] : n \in Nat}

ThreadInv ==
  /\ pc \in [Thread -> Locked \cup {"idle", "lock", "value"}]
  /\ call \in [Thread -> [action : Action \cup {NoAction}, tag : Tag, list : Nat, pos : Nat]]
  /\ scheduling_mutex \in Other \cup {NoOne}
  /\ mutex_events \in [PhysicalAction -> Thread \cup {NoOne}]

(* Workers insert while reactions execute, other threads with the mutex of *)
(* the scheduler.                                                          *)
PhaseInv ==
  /\ \A w \in Worker :
       /\ pc[w] \notin {"lock", "unlock"}
       /\ pc[w] # "idle" => scheduler = "react" /\ call[w].action \in Action
  /\ \A t \in Other : pc[t] \in Locked => scheduling_mutex = t

StoreInv ==
  /\ lists \in Seq(ActionList)
  /\ DOMAIN event_queue \subseteq Tag
  /\ event_queue \in [DOMAIN event_queue -> DOMAIN lists]
  /\ action_list_pool \in Seq(DOMAIN lists)

SchedulerInv ==
  /\ scheduler \in {"start", "next", "setup", "react"} /\ logical_time \in Nat
  /\ triggered_actions \in DOMAIN lists \cup {0} /\ next_setup \in Nat
  /\ scheduler \in {"setup", "react"} => triggered_actions # 0

ValueInv == events \in [Action -> SUBSET Tag] /\ present \subseteq Action

(* A thread adds an action to the list of a tag in the queue.              *)
WriterInv ==
  \A t \in Thread : pc[t] \in {"push_back", "write", "grow"} =>
    /\ call[t].action \in Action
    /\ call[t].tag \in DOMAIN event_queue /\ call[t].list = event_queue[call[t].tag]

(* Up to write_pos_, each position is written or some thread writes it.    *)
WrittenAt(l, i) == i < lists[l].vector_size /\ lists[l].vector[i] \in Action
WriterAt(l, i) == \E t \in Thread : pc[t] \in {"write", "grow"} /\ call[t].list = l /\ call[t].pos = i
EntryInv ==
  \A l \in DOMAIN lists : \A i \in 0..(lists[l].write_pos - 1) : WrittenAt(l, i) \/ WriterAt(l, i)

IInv ==
  ThreadInv /\ PhaseInv /\ StoreInv /\ SchedulerInv /\ ValueInv /\ ListsOwnedOnce /\ WriterInv /\ EntryInv

-----------------------------------------------------------------------------
(* Sequences and functions without repetitions *)

LEMMA RangeOfAppend ==
  ASSUME NEW S, NEW s \in Seq(S), NEW e \in S, IsInjective(s), e \notin Range(s)
  PROVE  /\ IsInjective(Append(s, e)) /\ Range(Append(s, e)) = Range(s) \cup {e}
         /\ Append(s, e) \in Seq(S)
<1>1. /\ Append(s, e) \in Seq(S) /\ Len(Append(s, e)) = Len(s) + 1
      /\ \A i \in 1..Len(s) : Append(s, e)[i] = s[i]
      /\ Append(s, e)[Len(s) + 1] = e
  BY AppendProperties
<1>2. Len(s) \in Nat /\ DOMAIN s = 1..Len(s) /\ DOMAIN Append(s, e) = 1..(Len(s) + 1)
  BY <1>1, LenProperties
<1>. QED
  BY <1>1, <1>2 DEF IsInjective, Range

LEMMA RangeOfFront ==
  ASSUME NEW S, NEW s \in Seq(S), IsInjective(s), s # <<>>
  PROVE  /\ Len(s) \in DOMAIN s /\ s[Len(s)] \in S
         /\ SubSeq(s, 1, Len(s) - 1) \in Seq(S)
         /\ IsInjective(SubSeq(s, 1, Len(s) - 1))
         /\ Range(SubSeq(s, 1, Len(s) - 1)) = Range(s) \ {s[Len(s)]}
<1>. DEFINE f == SubSeq(s, 1, Len(s) - 1)
<1>1. Len(s) \in Nat \ {0} /\ DOMAIN s = 1..Len(s)
  BY EmptySeq, LenProperties
<1>2. \A i \in 1..Len(s) : s[i] \in S
  BY ElementOfSeq
<1>3. /\ f \in Seq(S) /\ Len(f) = Len(s) - 1
      /\ \A i \in 1..(Len(s) - 1) : f[i] = s[i]
  <2>1. \A i \in 1..(Len(s) - 1) : s[i] \in S
    BY <1>1, <1>2
  <2>2. 1 \in Int /\ Len(s) - 1 \in Int
    BY <1>1
  <2>3. /\ f \in Seq(S) /\ Len(f) = IF 1 <= Len(s) - 1 THEN Len(s) - 1 - 1 + 1 ELSE 0
        /\ \A i \in 1..(Len(s) - 1 - 1 + 1) : f[i] = s[1 + i - 1]
    BY <2>1, <2>2, SubSeqProperties
  <2>. QED
    BY <2>3, <1>1
<1>4. DOMAIN f = 1..(Len(s) - 1)
  BY <1>3, LenProperties
<1>. HIDE DEF f
<1>5. IsInjective(f)
  BY <1>1, <1>3, <1>4 DEF IsInjective
<1>6. Range(f) = Range(s) \ {s[Len(s)]}
  BY <1>1, <1>3, <1>4 DEF IsInjective, Range
<1>. QED
  BY <1>1, <1>2, <1>3, <1>5, <1>6 DEF f

LEMMA RangeOfConcat ==
  ASSUME NEW S, NEW s \in Seq(S), NEW r \in Seq(S),
         IsInjective(s), IsInjective(r), Range(s) \cap Range(r) = {}
  PROVE  /\ s \o r \in Seq(S) /\ IsInjective(s \o r)
         /\ Range(s \o r) = Range(s) \cup Range(r)
<1>. DEFINE c == s \o r
<1>1. /\ c \in Seq(S) /\ Len(c) = Len(s) + Len(r)
      /\ \A i \in 1..(Len(s) + Len(r)) : c[i] = IF i <= Len(s) THEN s[i] ELSE r[i - Len(s)]
  BY ConcatProperties
<1>2. /\ Len(s) \in Nat /\ DOMAIN s = 1..Len(s) /\ Len(r) \in Nat /\ DOMAIN r = 1..Len(r)
      /\ DOMAIN c = 1..(Len(s) + Len(r))
  BY <1>1, LenProperties
<1>. HIDE DEF c
<1>3. \A i \in DOMAIN c : \/ i \in DOMAIN s /\ c[i] = s[i]
                          \/ i - Len(s) \in DOMAIN r /\ c[i] = r[i - Len(s)]
  BY <1>1, <1>2
<1>4. \A i \in DOMAIN s : i \in DOMAIN c /\ c[i] = s[i]
  BY <1>1, <1>2
<1>5. \A i \in DOMAIN r : i + Len(s) \in DOMAIN c /\ c[i + Len(s)] = r[i]
  BY <1>1, <1>2
<1>6. Range(c) = Range(s) \cup Range(r)
  <2>1. ASSUME NEW x \in Range(c) PROVE x \in Range(s) \cup Range(r)
    BY <2>1, <1>3 DEF Range
  <2>2. ASSUME NEW x \in Range(s) PROVE x \in Range(c)
    BY <2>2, <1>4 DEF Range
  <2>3. ASSUME NEW x \in Range(r) PROVE x \in Range(c)
    BY <2>3, <1>5 DEF Range
  <2>. QED
    BY <2>1, <2>2, <2>3
<1>7. ASSUME NEW i \in DOMAIN c, NEW j \in DOMAIN c, c[i] = c[j]
      PROVE  i = j
  <2>1. CASE i \in DOMAIN s /\ c[i] = s[i]
    <3>1. j \in DOMAIN s /\ c[j] = s[j]
      BY <2>1, <1>3, <1>7 DEF Range
    <3>. QED
      BY <2>1, <3>1, <1>7 DEF IsInjective
  <2>2. CASE i - Len(s) \in DOMAIN r /\ c[i] = r[i - Len(s)]
    <3>1. j - Len(s) \in DOMAIN r /\ c[j] = r[j - Len(s)]
      BY <2>2, <1>3, <1>7 DEF Range
    <3>2. i - Len(s) = j - Len(s)
      BY <2>2, <3>1, <1>7 DEF IsInjective
    <3>. QED
      BY <3>2, <1>2
  <2>. QED
    BY <2>1, <2>2, <1>3
<1>. QED
  BY <1>1, <1>6, <1>7 DEF IsInjective, c

LEMMA RangeOfAdded ==
  ASSUME NEW f, NEW x, NEW e, x \notin DOMAIN f, IsInjective(f), e \notin Range(f),
         NEW g, g = [y \in DOMAIN f \cup {x} |-> IF y = x THEN e ELSE f[y]]
  PROVE  IsInjective(g) /\ Range(g) = Range(f) \cup {e}
BY DEF IsInjective, Range

LEMMA RangeOfRemaining ==
  ASSUME NEW f, NEW D \in SUBSET DOMAIN f, IsInjective(f), NEW g, g = [y \in DOMAIN f \ D |-> f[y]]
  PROVE  IsInjective(g) /\ Range(g) = Range(f) \ {f[y] : y \in D}
BY DEF IsInjective, Range

LEMMA MinimumExists ==
  ASSUME NEW S \in SUBSET Nat, S # {}
  PROVE  Min(S) \in S /\ \A k \in S : Min(S) <= k
<1>. DEFINE Smaller == {pair \in Nat \X Nat : pair[1] < pair[2]}
<1>1. IsWellFoundedOn(Smaller, Nat)
  BY NatLessThanWellFounded DEF OpToRel
<1>. HIDE DEF Smaller
<1>2. PICK n \in S : \A k \in S : ~(<<k, n>> \in Smaller)
  BY <1>1, WFMin
<1>3. ASSUME NEW k \in S PROVE n <= k
  <2>1. ~(k < n)
    BY <1>2 DEF Smaller
  <2>. QED
    BY <2>1
<1>. QED
  BY <1>2, <1>3 DEF Min

-----------------------------------------------------------------------------
(* The lists *)

LEMMA ListFields ==
  ASSUME NEW list \in ActionList
  PROVE  /\ list.write_pos \in Nat /\ list.vector_size \in Nat
         /\ list.vector \in [0..(list.vector_size - 1) -> Action \cup {NoAction}]
         /\ list = [write_pos |-> list.write_pos, vector_size |-> list.vector_size, vector |-> list.vector]
<1>1. PICK n \in Nat :
        list \in [write_pos : Nat, vector_size : {n}, vector : [0..(n - 1) -> Action \cup {NoAction}]]
  BY DEF ActionList
<1>. QED
  BY <1>1

LEMMA ListOfFields ==
  ASSUME NEW w \in Nat, NEW n \in Nat, NEW v \in [0..(n - 1) -> Action \cup {NoAction}]
  PROVE  [write_pos |-> w, vector_size |-> n, vector |-> v] \in ActionList
<1>1. [write_pos |-> w, vector_size |-> n, vector |-> v]
        \in [write_pos : Nat, vector_size : {n}, vector : [0..(n - 1) -> Action \cup {NoAction}]]
  OBVIOUS
<1>. QED
  BY <1>1 DEF ActionList

LEMMA ChangedFields ==
  ASSUME NEW list \in ActionList
  PROVE  /\ \A w : [list EXCEPT !.write_pos = w]
                     = [write_pos |-> w, vector_size |-> list.vector_size, vector |-> list.vector]
         /\ \A v : [list EXCEPT !.vector = v]
                     = [write_pos |-> list.write_pos, vector_size |-> list.vector_size, vector |-> v]
<1>1. PICK w, n, v : list = [write_pos |-> w, vector_size |-> n, vector |-> v]
  BY ListFields
<1>2. list.write_pos = w /\ list.vector_size = n /\ list.vector = v
  BY <1>1
<1>3. ASSUME NEW x
      PROVE  /\ [list EXCEPT !.write_pos = x] = [write_pos |-> x, vector_size |-> n, vector |-> v]
             /\ [list EXCEPT !.vector = x] = [write_pos |-> w, vector_size |-> n, vector |-> x]
  BY <1>1
<1>. QED
  BY <1>2, <1>3

LEMMA NewListType == NewList \in ActionList /\ NewList.write_pos = 0
<1>1. size_increment \in Nat /\ [i \in 0..(size_increment - 1) |-> NoAction]
                                  \in [0..(size_increment - 1) -> Action \cup {NoAction}]
  BY BoundsAssumption
<1>. QED
  BY <1>1, ListOfFields DEF NewList

LEMMA ListsAreLists ==
  ASSUME StoreInv
  PROVE  /\ Len(lists) \in Nat /\ DOMAIN lists = 1..Len(lists)
         /\ \A l \in DOMAIN lists : lists[l] \in ActionList
BY LenProperties, ElementOfSeq DEF StoreInv

(* New lists have new positions. *)
LEMMA MadeLists ==
  ASSUME StoreInv
  PROVE  LET n == action_list_pool_increment
             made == [i \in 1..n |-> NewList]
             new == [i \in 1..n |-> Len(lists) + i]
         IN  /\ lists \o made \in Seq(ActionList)
             /\ DOMAIN (lists \o made) = 1..(Len(lists) + n)
             /\ \A l \in DOMAIN lists : (lists \o made)[l] = lists[l]
             /\ \A l \in DOMAIN (lists \o made) \ DOMAIN lists : (lists \o made)[l] = NewList
             /\ new \in Seq(DOMAIN (lists \o made)) /\ new # <<>>
             /\ IsInjective(new)
             /\ Range(new) = DOMAIN (lists \o made) \ DOMAIN lists
<1>. DEFINE n == action_list_pool_increment
            made == [i \in 1..n |-> NewList]
            new == [i \in 1..n |-> Len(lists) + i]
            all == lists \o made
<1>1. n \in Nat \ {0}
  BY BoundsAssumption
<1>2. made \in Seq(ActionList) /\ Len(made) = n
  <2>1. made \in [1..n -> ActionList]
    BY NewListType
  <2>2. made \in Seq(ActionList)
    BY <1>1, <2>1, SeqDef
  <2>. QED
    BY <1>1, <2>1, <2>2, LenProperties
<1>3. Len(lists) \in Nat /\ DOMAIN lists = 1..Len(lists)
  BY ListsAreLists
<1>4. /\ all \in Seq(ActionList) /\ Len(all) = Len(lists) + n
      /\ \A i \in 1..(Len(lists) + n) : all[i] = IF i <= Len(lists) THEN lists[i] ELSE made[i - Len(lists)]
  <2>1. lists \in Seq(ActionList)
    BY DEF StoreInv
  <2>. HIDE DEF made
  <2>. QED
    BY <1>2, <2>1, ConcatProperties
<1>5. DOMAIN all = 1..(Len(lists) + n)
  BY <1>4, LenProperties
<1>6. \A i \in 1..n : made[i] = NewList
  OBVIOUS
<1>. HIDE DEF all, made
<1>7. \A l \in DOMAIN lists : all[l] = lists[l]
  BY <1>1, <1>3, <1>4
<1>8. \A l \in DOMAIN all \ DOMAIN lists : all[l] = NewList
  BY <1>1, <1>3, <1>4, <1>5, <1>6
<1>9. new \in [1..n -> DOMAIN all]
  BY <1>1, <1>3, <1>5
<1>10. new \in Seq(DOMAIN all)
  BY <1>1, <1>9, SeqDef
<1>11. new # <<>>
  <2>1. 1 \in DOMAIN new
    BY <1>1
  <2>. HIDE DEF new
  <2>. QED
    BY <2>1, EmptySeq, <1>10, LenProperties
<1>12. IsInjective(new)
  BY <1>3 DEF IsInjective
<1>13. Range(new) = DOMAIN all \ DOMAIN lists
  <2>1. ASSUME NEW l \in DOMAIN all \ DOMAIN lists PROVE l \in Range(new)
    <3>1. l - Len(lists) \in 1..n /\ Len(lists) + (l - Len(lists)) = l
      BY <2>1, <1>1, <1>3, <1>5
    <3>. QED
      BY <3>1 DEF Range
  <2>2. ASSUME NEW l \in Range(new) PROVE l \in DOMAIN all \ DOMAIN lists
    BY <2>2, <1>1, <1>3, <1>5 DEF Range
  <2>. QED
    BY <2>1, <2>2
<1>. QED
  BY <1>4, <1>5, <1>7, <1>8, <1>10, <1>11, <1>12, <1>13 DEF all, made

-----------------------------------------------------------------------------
(* Initially *)

LEMMA InitInv == ASSUME Init PROVE IInv
<1>. DEFINE n == action_list_pool_increment
<1>1. n \in Nat \ {0} /\ MaxTag \in Nat /\ 1 \in Tag
  BY BoundsAssumption DEF Tag
<1>2. lists \in [1..n -> ActionList] /\ lists \in Seq(ActionList) /\ DOMAIN lists = 1..n
  <2>1. lists \in [1..n -> ActionList]
    BY NewListType DEF Init
  <2>. QED
    BY <1>1, <2>1, SeqDef
<1>3. action_list_pool \in [1..n -> 1..n] /\ action_list_pool \in Seq(DOMAIN lists)
  <2>1. action_list_pool \in [1..n -> 1..n]
    BY DEF Init
  <2>. QED
    BY <1>1, <1>2, <2>1, SeqDef
<1>4. DOMAIN event_queue = {} /\ event_queue \in [{} -> DOMAIN lists]
  BY DEF Init
<1>5. ThreadInv
  BY <1>1 DEF Init, ThreadInv
<1>6. PhaseInv
  BY DEF Init, PhaseInv, Locked, Busy, Thread
<1>7. StoreInv
  BY <1>2, <1>3, <1>4 DEF StoreInv
<1>8. SchedulerInv /\ ValueInv
  BY DEF Init, SchedulerInv, ValueInv
<1>9. ListsOwnedOnce
  <2>1. IsInjective(action_list_pool) /\ Range(action_list_pool) = 1..n
    BY <1>1 DEF Init, IsInjective, Range
  <2>2. IsInjective(event_queue) /\ Range(event_queue) = {}
    BY <1>4 DEF IsInjective, Range
  <2>3. triggered_actions = 0 /\ 0 \notin 1..n
    BY <1>1 DEF Init
  <2>. QED
    BY <1>2, <2>1, <2>2, <2>3 DEF ListsOwnedOnce
<1>10. WriterInv
  BY DEF Init, WriterInv
<1>11. EntryInv
  <2>1. \A l \in DOMAIN lists : lists[l].write_pos = 0
    BY <1>2, NewListType DEF Init
  <2>. QED
    BY <2>1 DEF EntryInv
<1>. QED
  BY <1>5, <1>6, <1>7, <1>8, <1>9, <1>10, <1>11 DEF IInv

-----------------------------------------------------------------------------
(* Steps of a thread that leave the lists alone *)

LEMMA Threads ==
  /\ Thread = Worker \cup Other /\ NoOne \notin Thread /\ Worker \cap Other = {}
  /\ NoAction \notin Action /\ PhysicalAction \subseteq Action
  /\ \A w \in Worker : logical_action[w] \in Action
BY ActionAssumption DEF Thread, Action

LEMMA KeepEntries ==
  ASSUME EntryInv, UNCHANGED lists,
         \A t \in Thread : pc[t] \in {"write", "grow"} => pc'[t] = pc[t] /\ call'[t] = call[t]
  PROVE  EntryInv'
BY DEF EntryInv, WrittenAt, WriterAt

LEMMA KeepWriters ==
  ASSUME WriterInv, UNCHANGED event_queue,
         \A t \in Thread : pc'[t] \in {"push_back", "write", "grow"} =>
           pc[t] \in {"push_back", "write", "grow"} /\ call'[t].action = call[t].action
             /\ call'[t].tag = call[t].tag /\ call'[t].list = call[t].list
  PROVE  WriterInv'
BY DEF WriterInv

LEMMA CallTypes ==
  ASSUME ThreadInv, NEW t \in Thread
  PROVE  /\ call[t].action \in Action \cup {NoAction} /\ call[t].tag \in Tag
         /\ call[t].list \in Nat /\ call[t].pos \in Nat
BY DEF ThreadInv

LEMMA BeginInv ==
  ASSUME IInv, NEW t \in Thread, NEW a \in Action \cup {NoAction}, NEW tag \in Tag,
         NEW l \in {"find", "lock"}, Begin(t, a, tag, l),
         UNCHANGED <<progress, stores, values, scheduling_mutex>>,
         mutex_events' \in [PhysicalAction -> Thread \cup {NoOne}],
         l = "find" => t \in Worker /\ scheduler = "react" /\ a \in Action,
         l = "lock" => t \in Other
  PROVE  IInv'
<1>1. /\ pc[t] = "idle" /\ pc' = [pc EXCEPT ![t] = l]
      /\ call' = [call EXCEPT ![t] = [@ EXCEPT !.action = a, !.tag = tag]]
  BY DEF Begin, Goto
<1>2. ThreadInv /\ pc[t] = "idle" /\ l \in Locked \cup {"idle", "lock", "value"}
  BY <1>1 DEF IInv, Locked, Busy
<1>3. ThreadInv'
  BY <1>1, <1>2 DEF ThreadInv
<1>4. PhaseInv'
  BY <1>1, <1>2, Threads DEF IInv, PhaseInv, ThreadInv, Locked, Busy, progress
<1>5. StoreInv' /\ SchedulerInv' /\ ValueInv' /\ ListsOwnedOnce'
  BY DEF IInv, StoreInv, SchedulerInv, ValueInv, ListsOwnedOnce, progress, stores, values
<1>6. \A s \in Thread : s # t => pc'[s] = pc[s] /\ call'[s] = call[s]
  BY <1>1, <1>2 DEF ThreadInv
<1>7. pc'[t] = l
  BY <1>1, <1>2 DEF ThreadInv
<1>8. WriterInv'
  BY <1>6, <1>7, KeepWriters DEF IInv, stores
<1>9. EntryInv'
  BY <1>1, <1>6, KeepEntries DEF IInv, stores
<1>. QED
  BY <1>3, <1>4, <1>5, <1>8, <1>9 DEF IInv

LEMMA ScheduleInv ==
  ASSUME IInv, NEW tag \in Tag,
         \/ \E w \in Worker : ScheduleLogical(w, tag)
         \/ \E t \in Other : ScheduleEmpty(t, tag) \/ \E a \in PhysicalAction : SchedulePhysical(t, a, tag)
  PROVE  IInv'
<1>1. ASSUME NEW w \in Worker, ScheduleLogical(w, tag) PROVE IInv'
  <2>1. mutex_events' \in [PhysicalAction -> Thread \cup {NoOne}]
    BY <1>1 DEF ScheduleLogical, locks, IInv, ThreadInv
  <2>2. w \in Thread /\ logical_action[w] \in Action
    BY Threads
  <2>. QED
    BY <1>1, <2>1, <2>2, BeginInv DEF ScheduleLogical, locks
<1>2. ASSUME NEW t \in Other, ScheduleEmpty(t, tag) PROVE IInv'
  <2>1. mutex_events' \in [PhysicalAction -> Thread \cup {NoOne}]
    BY <1>2 DEF ScheduleEmpty, locks, IInv, ThreadInv
  <2>. QED
    BY <1>2, <2>1, BeginInv, Threads DEF ScheduleEmpty, locks
<1>3. ASSUME NEW t \in Other, NEW a \in PhysicalAction, SchedulePhysical(t, a, tag) PROVE IInv'
  <2>1. mutex_events' \in [PhysicalAction -> Thread \cup {NoOne}]
    BY <1>3, Threads DEF SchedulePhysical, IInv, ThreadInv
  <2>2. t \in Thread /\ a \in Action
    BY Threads
  <2>. QED
    BY <1>3, <2>1, <2>2, BeginInv DEF SchedulePhysical
<1>. QED
  BY <1>1, <1>2, <1>3

(* A step of t that leaves everything but the locks and its pc alone.      *)
LEMMA LocalInv ==
  ASSUME IInv, NEW t \in Thread, NEW l \in {"idle", "find", "value"},
         pc[t] \in {"lock", "unlock", "value"}, Goto(t, l),
         UNCHANGED <<call, progress, stores, present>>,
         events' \in [Action -> SUBSET Tag],
         scheduling_mutex' \in Other \cup {NoOne},
         mutex_events' \in [PhysicalAction -> Thread \cup {NoOne}],
         t \in Worker => l = "idle",
         l = "find" => scheduling_mutex' = t,
         scheduling_mutex' # scheduling_mutex => scheduling_mutex \in {NoOne, t}
  PROVE  IInv'
<1>1. pc' = [pc EXCEPT ![t] = l]
  BY DEF Goto
<1>2. l \in Locked \cup {"idle", "lock", "value"}
  BY DEF Locked, Busy
<1>3. ThreadInv'
  BY <1>1, <1>2 DEF IInv, ThreadInv
<1>4. pc'[t] = l /\ \A s \in Thread : s # t => pc'[s] = pc[s]
  BY <1>1 DEF IInv, ThreadInv
<1>5. PhaseInv'
  <2>1. ASSUME NEW s \in Other, pc'[s] \in Locked PROVE scheduling_mutex' = s
    <3>1. CASE s = t
      BY <3>1, <2>1, <1>4 DEF Locked, Busy
    <3>2. CASE s # t
      <4>1. scheduling_mutex = s
        BY <3>2, <2>1, <1>4, Threads DEF IInv, PhaseInv
      <4>. QED
        BY <4>1, <3>2, Threads
    <3>. QED
      BY <3>1, <3>2
  <2>2. ASSUME NEW w \in Worker
        PROVE  /\ pc'[w] \notin {"lock", "unlock"}
               /\ pc'[w] # "idle" => scheduler' = "react" /\ call'[w].action \in Action
    BY <1>4, Threads DEF IInv, PhaseInv, progress
  <2>. QED
    BY <2>1, <2>2 DEF PhaseInv
<1>6. StoreInv' /\ SchedulerInv' /\ ValueInv' /\ ListsOwnedOnce'
  BY DEF IInv, StoreInv, SchedulerInv, ValueInv, ListsOwnedOnce, progress, stores
<1>7. WriterInv'
  BY <1>4, KeepWriters DEF IInv, stores
<1>8. EntryInv'
  BY <1>4, KeepEntries DEF IInv, stores
<1>. QED
  BY <1>3, <1>5, <1>6, <1>7, <1>8 DEF IInv

LEMMA LockInv == ASSUME IInv, NEW t \in Thread, Lock(t) PROVE IInv'
<1>1. /\ pc[t] = "lock" /\ scheduling_mutex = NoOne /\ t \in Other
      /\ UNCHANGED <<call, progress, stores, present>> /\ UNCHANGED values
  BY Threads DEF Lock, IInv, PhaseInv, values
<1>2. events' \in [Action -> SUBSET Tag]
  BY <1>1 DEF IInv, ValueInv, values
<1>3. CASE call[t].tag <= logical_time
  <2>1. Goto(t, "idle") /\ UNCHANGED scheduling_mutex /\ mutex_events' = MutexesWithout(t)
    BY <1>3 DEF Lock
  <2>2. mutex_events' \in [PhysicalAction -> Thread \cup {NoOne}]
    BY <2>1 DEF MutexesWithout, IInv, ThreadInv
  <2>3. scheduling_mutex' \in Other \cup {NoOne}
    BY <1>1, <2>1
  <2>. QED
    BY <1>1, <1>2, <2>1, <2>2, <2>3, LocalInv
<1>4. CASE ~(call[t].tag <= logical_time)
  <2>1. Goto(t, "find") /\ scheduling_mutex' = t /\ UNCHANGED mutex_events
    BY <1>4 DEF Lock
  <2>2. mutex_events' \in [PhysicalAction -> Thread \cup {NoOne}]
    BY <2>1 DEF IInv, ThreadInv
  <2>3. scheduling_mutex' \in Other \cup {NoOne} /\ t \notin Worker
    BY <1>1, <2>1, Threads
  <2>. QED
    BY <1>1, <1>2, <2>1, <2>2, <2>3, LocalInv
<1>. QED
  BY <1>3, <1>4

LEMMA UnlockInv == ASSUME IInv, NEW t \in Thread, Unlock(t) PROVE IInv'
<1>1. /\ pc[t] = "unlock" /\ t \in Other /\ t \notin Worker /\ scheduling_mutex = t /\ scheduling_mutex' = NoOne
      /\ UNCHANGED <<call, progress, stores, present>> /\ UNCHANGED <<values, mutex_events>>
  BY Threads DEF Unlock, IInv, PhaseInv, values, Locked
<1>2. events' \in [Action -> SUBSET Tag] /\ mutex_events' \in [PhysicalAction -> Thread \cup {NoOne}]
  BY <1>1 DEF IInv, ValueInv, ThreadInv, values
<1>3. Goto(t, "idle") \/ Goto(t, "value")
  BY DEF Unlock
<1>4. CASE Goto(t, "idle")
  BY <1>1, <1>2, <1>4, LocalInv
<1>5. CASE Goto(t, "value")
  BY <1>1, <1>2, <1>5, LocalInv
<1>. QED
  BY <1>3, <1>4, <1>5

LEMMA ValueStepInv == ASSUME IInv, NEW t \in Thread, Value(t) PROVE IInv'
<1>1. /\ pc[t] = "value" /\ Goto(t, "idle") /\ UNCHANGED scheduling_mutex
      /\ UNCHANGED <<call, progress, stores, present>>
      /\ events' = [events EXCEPT ![call[t].action] = @ \cup {call[t].tag}]
      /\ mutex_events' = MutexesWithout(t)
  BY DEF Value
<1>2. events' \in [Action -> SUBSET Tag]
  BY <1>1, CallTypes DEF IInv, ValueInv
<1>3. mutex_events' \in [PhysicalAction -> Thread \cup {NoOne}]
  BY <1>1 DEF MutexesWithout, IInv, ThreadInv
<1>4. scheduling_mutex' \in Other \cup {NoOne}
  BY <1>1 DEF IInv, ThreadInv
<1>. QED
  BY <1>1, <1>2, <1>3, <1>4, LocalInv

-----------------------------------------------------------------------------
(* insert_event_at() *)

LEMMA InsertedInv ==
  ASSUME IInv, NEW t \in Thread, pc[t] \in {"find", "emplace"}, NEW l \in Nat, Inserted(t, l),
         UNCHANGED <<progress, values, locks>>,
         \A tag \in DOMAIN event_queue : tag \in DOMAIN event_queue' /\ event_queue'[tag] = event_queue[tag],
         call[t].tag \in DOMAIN event_queue', event_queue'[call[t].tag] = l
  PROVE  /\ ThreadInv' /\ PhaseInv' /\ WriterInv'
         /\ \A s \in Thread : pc[s] \in {"write", "grow"} => pc'[s] = pc[s] /\ call'[s] = call[s]
<1>. DEFINE next == IF call[t].action = NoAction THEN "unlock" ELSE "push_back"
<1>1. pc' = [pc EXCEPT ![t] = next] /\ call' = [call EXCEPT ![t].list = l]
  BY DEF Inserted, Goto
<1>2. next \in Locked
  BY DEF Locked, Busy
<1>. HIDE DEF next
<1>3. ThreadInv'
  BY <1>1, <1>2, CallTypes DEF IInv, ThreadInv, locks
<1>4. /\ pc'[t] = next /\ \A s \in Thread : s # t => pc'[s] = pc[s] /\ call'[s] = call[s]
      /\ call'[t].action = call[t].action /\ call'[t].tag = call[t].tag /\ call'[t].list = l
  BY <1>1 DEF IInv, ThreadInv
<1>5. PhaseInv'
  <2>1. ASSUME NEW w \in Worker
        PROVE  /\ pc'[w] \notin {"lock", "unlock"}
               /\ pc'[w] # "idle" => scheduler' = "react" /\ call'[w].action \in Action
    <3>1. CASE w = t
      <4>1. scheduler = "react" /\ call[t].action \in Action /\ call[t].action # NoAction
        BY <3>1, Threads DEF IInv, PhaseInv
      <4>. QED
        BY <3>1, <4>1, <1>4 DEF next, progress
    <3>2. CASE w # t
      BY <3>2, <1>4, Threads DEF IInv, PhaseInv, progress
    <3>. QED
      BY <3>1, <3>2
  <2>2. ASSUME NEW s \in Other, pc'[s] \in Locked PROVE scheduling_mutex' = s
    <3>1. pc[s] \in Locked
      BY <2>2, <1>4, Threads DEF Locked, Busy
    <3>. QED
      BY <3>1 DEF IInv, PhaseInv, locks
  <2>. QED
    BY <2>1, <2>2 DEF PhaseInv
<1>6. WriterInv'
  <2>1. SUFFICES ASSUME NEW s \in Thread, pc'[s] \in {"push_back", "write", "grow"}
                 PROVE  /\ call'[s].action \in Action /\ call'[s].tag \in DOMAIN event_queue'
                        /\ call'[s].list = event_queue'[call'[s].tag]
    BY DEF WriterInv
  <2>2. CASE s = t
    <3>1. call[t].action \in Action
      BY <2>1, <2>2, <1>4, CallTypes DEF next, IInv
    <3>. QED
      BY <3>1, <2>2, <1>4
  <2>3. CASE s # t
    BY <2>1, <2>3, <1>4 DEF IInv, WriterInv
  <2>. QED
    BY <2>2, <2>3
<1>. QED
  BY <1>3, <1>4, <1>5, <1>6

LEMMA FindInv == ASSUME IInv, NEW t \in Thread, Find(t) PROVE IInv'
<1>1. pc[t] = "find" /\ UNCHANGED <<progress, stores, values, locks>>
  BY DEF Find, stores
<1>2. StoreInv' /\ SchedulerInv' /\ ValueInv' /\ ListsOwnedOnce'
  BY <1>1 DEF IInv, StoreInv, SchedulerInv, ValueInv, ListsOwnedOnce, progress, stores, values
<1>3. CASE call[t].tag \in DOMAIN event_queue /\ Inserted(t, event_queue[call[t].tag])
  <2>1. event_queue[call[t].tag] \in Nat
    BY <1>3, ListsAreLists DEF IInv, StoreInv
  <2>2. UNCHANGED event_queue
    BY <1>1 DEF stores
  <2>3. /\ ThreadInv' /\ PhaseInv' /\ WriterInv'
        /\ \A s \in Thread : pc[s] \in {"write", "grow"} => pc'[s] = pc[s] /\ call'[s] = call[s]
    BY <1>1, <1>3, <2>1, <2>2, InsertedInv
  <2>4. EntryInv'
    BY <1>1, <2>3, KeepEntries DEF IInv, stores
  <2>. QED
    BY <1>2, <2>3, <2>4 DEF IInv
<1>4. CASE Goto(t, "emplace") /\ UNCHANGED call
  <2>1. pc' = [pc EXCEPT ![t] = "emplace"] /\ UNCHANGED call
    BY <1>4 DEF Goto
  <2>2. ThreadInv'
    BY <1>1, <2>1 DEF IInv, ThreadInv, locks, Locked, Busy
  <2>3. pc'[t] = "emplace" /\ \A s \in Thread : s # t => pc'[s] = pc[s]
    BY <2>1 DEF IInv, ThreadInv
  <2>4. PhaseInv'
    BY <1>1, <2>1, <2>3, Threads DEF IInv, PhaseInv, Locked, Busy, progress, locks
  <2>5. WriterInv' /\ EntryInv'
    BY <1>1, <2>1, <2>3, KeepEntries, KeepWriters DEF IInv, stores
  <2>. QED
    BY <1>2, <2>2, <2>4, <2>5 DEF IInv
<1>. QED
  BY <1>3, <1>4 DEF Find

(* Taking from the pool, which is filled when it is empty.                 *)
LEMMA FilledFacts ==
  ASSUME StoreInv, SchedulerInv, ListsOwnedOnce
  PROVE  LET pool == Filled.pool
             all == Filled.lists
         IN  /\ all \in Seq(ActionList) /\ DOMAIN lists \subseteq DOMAIN all
             /\ DOMAIN all \subseteq Nat /\ 0 \notin DOMAIN all
             /\ \A l \in DOMAIN lists : all[l] = lists[l]
             /\ \A l \in DOMAIN all \ DOMAIN lists : all[l] = NewList
             /\ pool \in Seq(DOMAIN all) /\ pool # <<>> /\ IsInjective(pool)
             /\ Range(pool) \cap Range(event_queue) = {} /\ triggered_actions \notin Range(pool)
             /\ DOMAIN all = Range(pool) \cup Range(event_queue) \cup ({triggered_actions} \ {0})
<1>1. Len(lists) \in Nat /\ DOMAIN lists = 1..Len(lists)
  BY ListsAreLists
<1>2. CASE action_list_pool = <<>>
  <2>. DEFINE n == action_list_pool_increment
              made == lists \o [i \in 1..n |-> NewList]
              new == [i \in 1..n |-> Len(lists) + i]
  <2>1. Filled.pool = new /\ Filled.lists = made
    BY <1>2 DEF Filled
  <2>2. /\ made \in Seq(ActionList) /\ DOMAIN made = 1..(Len(lists) + n)
        /\ \A l \in DOMAIN lists : made[l] = lists[l]
        /\ \A l \in DOMAIN made \ DOMAIN lists : made[l] = NewList
        /\ new \in Seq(DOMAIN made) /\ new # <<>> /\ IsInjective(new)
        /\ Range(new) = DOMAIN made \ DOMAIN lists
    BY MadeLists
  <2>3. n \in Nat
    BY BoundsAssumption
  <2>4. DOMAIN lists \subseteq DOMAIN made /\ DOMAIN made \subseteq Nat /\ 0 \notin DOMAIN made
    BY <1>1, <2>2, <2>3
  <2>5. Range(action_list_pool) = {}
    <3>1. DOMAIN action_list_pool = 1..Len(action_list_pool) /\ Len(action_list_pool) = 0
      BY <1>2, LenProperties, EmptySeq DEF StoreInv
    <3>. QED
      BY <3>1 DEF Range
  <2>. HIDE DEF n, made, new
  <2>6. /\ DOMAIN lists = Range(event_queue) \cup ({triggered_actions} \ {0})
        /\ triggered_actions \in DOMAIN lists \cup {0}
    BY <2>5 DEF ListsOwnedOnce, SchedulerInv
  <2>. QED
    BY <2>1, <2>2, <2>4, <2>6
<1>3. CASE action_list_pool # <<>>
  BY <1>1, <1>3 DEF Filled, StoreInv, ListsOwnedOnce
<1>. QED
  BY <1>2, <1>3

LEMMA EmplaceInv == ASSUME IInv, NEW t \in Thread, Emplace(t) PROVE IInv'
<1>. DEFINE pool == Filled.pool
            all == Filled.lists
<1>1. pc[t] = "emplace" /\ lists' = all /\ UNCHANGED <<progress, values, locks>>
  BY DEF Emplace
<1>2. /\ all \in Seq(ActionList) /\ DOMAIN lists \subseteq DOMAIN all
      /\ DOMAIN all \subseteq Nat /\ 0 \notin DOMAIN all
      /\ \A l \in DOMAIN lists : all[l] = lists[l]
      /\ \A l \in DOMAIN all \ DOMAIN lists : all[l] = NewList
      /\ pool \in Seq(DOMAIN all) /\ pool # <<>> /\ IsInjective(pool)
      /\ Range(pool) \cap Range(event_queue) = {} /\ triggered_actions \notin Range(pool)
      /\ DOMAIN all = Range(pool) \cup Range(event_queue) \cup ({triggered_actions} \ {0})
  BY FilledFacts DEF IInv
<1>. HIDE DEF pool, all
<1>3. SchedulerInv' /\ ValueInv'
  BY <1>1, <1>2 DEF IInv, SchedulerInv, ValueInv, progress, values
<1>4. ASSUME \A s \in Thread : pc[s] \in {"write", "grow"} => pc'[s] = pc[s] /\ call'[s] = call[s]
      PROVE  EntryInv'
  <2>1. SUFFICES ASSUME NEW l \in DOMAIN all, NEW i \in 0..(all[l].write_pos - 1)
                 PROVE  WrittenAt(l, i)' \/ WriterAt(l, i)'
    BY <1>1 DEF EntryInv
  <2>2. CASE l \in DOMAIN lists
    <3>1. lists'[l] = lists[l] /\ i \in 0..(lists[l].write_pos - 1)
      BY <2>2, <1>1, <1>2
    <3>2. WrittenAt(l, i) \/ WriterAt(l, i)
      BY <2>2, <3>1 DEF IInv, EntryInv
    <3>3. WrittenAt(l, i) => WrittenAt(l, i)'
      BY <3>1 DEF WrittenAt
    <3>4. WriterAt(l, i) => WriterAt(l, i)'
      BY <1>4 DEF WriterAt
    <3>. QED
      BY <3>2, <3>3, <3>4
  <2>3. CASE l \notin DOMAIN lists
    <3>1. all[l].write_pos = 0
      BY <2>3, <1>2, NewListType
    <3>. QED
      BY <3>1
  <2>. QED
    BY <2>2, <2>3
<1>5. /\ event_queue \in [DOMAIN event_queue -> DOMAIN lists] /\ DOMAIN event_queue \subseteq Tag
      /\ IsInjective(event_queue) /\ triggered_actions \notin Range(event_queue)
      /\ UNCHANGED triggered_actions /\ call[t].tag \in Tag
  BY <1>1, CallTypes DEF IInv, StoreInv, ListsOwnedOnce, progress
<1>6. CASE call[t].tag \notin DOMAIN event_queue /\ EmplaceLast(t, pool)
  <2>. DEFINE back == pool[Len(pool)]
              front == SubSeq(pool, 1, Len(pool) - 1)
              tag == call[t].tag
  <2>1. /\ Inserted(t, back) /\ action_list_pool' = front
        /\ event_queue' = [x \in DOMAIN event_queue \cup {tag} |-> IF x = tag THEN back ELSE event_queue[x]]
    BY <1>6 DEF EmplaceLast
  <2>2. /\ Len(pool) \in DOMAIN pool /\ back \in DOMAIN all /\ front \in Seq(DOMAIN all)
        /\ IsInjective(front) /\ Range(front) = Range(pool) \ {back}
    BY <1>2, RangeOfFront
  <2>3. back \in Range(pool)
    BY <2>2 DEF Range
  <2>. HIDE DEF back, front
  <2>4. IsInjective(event_queue') /\ Range(event_queue') = Range(event_queue) \cup {back}
    <3>1. back \notin Range(event_queue)
      BY <2>3, <1>2
    <3>. QED
      BY <2>1, <3>1, <1>5, <1>6, RangeOfAdded
  <2>5. StoreInv'
    BY <2>1, <2>2, <1>1, <1>2, <1>5 DEF StoreInv
  <2>6. ListsOwnedOnce'
    <3>1. IsInjective(action_list_pool)' /\ Range(action_list_pool)' = Range(pool) \ {back}
      BY <2>1, <2>2
    <3>2. IsInjective(event_queue)' /\ Range(event_queue)' = Range(event_queue) \cup {back}
      BY <2>4
    <3>3. (DOMAIN lists)' = Range(pool) \cup Range(event_queue) \cup ({triggered_actions} \ {0})
      BY <1>1, <1>2
    <3>. QED
      BY <3>1, <3>2, <3>3, <2>3, <1>2, <1>5 DEF ListsOwnedOnce
  <2>7. /\ ThreadInv' /\ PhaseInv' /\ WriterInv'
        /\ \A s \in Thread : pc[s] \in {"write", "grow"} => pc'[s] = pc[s] /\ call'[s] = call[s]
    <3>1. /\ back \in Nat /\ tag \in DOMAIN event_queue' /\ event_queue'[tag] = back
          /\ \A x \in DOMAIN event_queue : x \in DOMAIN event_queue' /\ event_queue'[x] = event_queue[x]
      BY <2>1, <2>2, <1>2, <1>6
    <3>. QED
      BY <2>1, <3>1, <1>1, InsertedInv
  <2>. QED
    BY <1>3, <1>4, <2>5, <2>6, <2>7 DEF IInv
<1>7. CASE /\ call[t].tag \in DOMAIN event_queue /\ Inserted(t, event_queue[call[t].tag])
           /\ action_list_pool' = pool /\ UNCHANGED event_queue
  <2>1. StoreInv'
    BY <1>7, <1>1, <1>2, <1>5 DEF StoreInv
  <2>2. ListsOwnedOnce'
    BY <1>7, <1>1, <1>2, <1>5 DEF ListsOwnedOnce
  <2>3. event_queue[call[t].tag] \in Nat
    BY <1>7, <1>2, <1>5
  <2>4. /\ ThreadInv' /\ PhaseInv' /\ WriterInv'
        /\ \A s \in Thread : pc[s] \in {"write", "grow"} => pc'[s] = pc[s] /\ call'[s] = call[s]
    BY <1>7, <2>3, <1>1, InsertedInv
  <2>. QED
    BY <1>3, <1>4, <2>1, <2>2, <2>4 DEF IInv
<1>. QED
  BY <1>6, <1>7 DEF Emplace, pool

-----------------------------------------------------------------------------
(* push_back() *)

LEMMA WriterList ==
  ASSUME IInv, NEW t \in Thread, pc[t] \in {"push_back", "write", "grow"}
  PROVE  /\ call[t].list \in DOMAIN lists /\ call[t].action \in Action /\ call[t].pos \in Nat
         /\ lists[call[t].list] \in ActionList
BY ListsAreLists, CallTypes DEF IInv, WriterInv, StoreInv

LEMMA ChangeList ==
  ASSUME IInv, NEW l \in DOMAIN lists, NEW list \in ActionList, lists' = [lists EXCEPT ![l] = list],
         UNCHANGED <<event_queue, action_list_pool, triggered_actions>>
  PROVE  /\ StoreInv' /\ ListsOwnedOnce' /\ DOMAIN lists' = DOMAIN lists
         /\ \A k \in DOMAIN lists : lists'[k] = IF k = l THEN list ELSE lists[k]
<1>1. lists \in Seq(ActionList) /\ l \in 1..Len(lists) /\ DOMAIN lists = 1..Len(lists)
  BY ListsAreLists DEF IInv, StoreInv
<1>2. /\ lists' \in Seq(ActionList) /\ Len(lists') = Len(lists)
      /\ \A k \in 1..Len(lists) : lists'[k] = IF k = l THEN list ELSE lists[k]
  BY <1>1, ExceptSeq
<1>3. DOMAIN lists' = DOMAIN lists
  BY <1>1, <1>2, LenProperties
<1>4. StoreInv'
  BY <1>2, <1>3 DEF IInv, StoreInv
<1>5. ListsOwnedOnce'
  BY <1>3 DEF IInv, ListsOwnedOnce
<1>. QED
  BY <1>1, <1>2, <1>3, <1>4, <1>5

LEMMA WriterStep ==
  ASSUME IInv, NEW t \in Thread, pc[t] \in {"push_back", "write", "grow"},
         NEW l \in {"write", "grow", "unlock", "value"}, Goto(t, l), l = "unlock" => t \notin Worker,
         NEW pos \in Nat, call' = [call EXCEPT ![t].pos = pos],
         UNCHANGED <<progress, event_queue, values, locks>>, DOMAIN lists' = DOMAIN lists
  PROVE  /\ ThreadInv' /\ PhaseInv' /\ WriterInv' /\ SchedulerInv' /\ ValueInv'
         /\ pc'[t] = l /\ call'[t].pos = pos /\ call'[t].list = call[t].list
         /\ \A s \in Thread : s # t => pc'[s] = pc[s] /\ call'[s] = call[s]
<1>1. pc' = [pc EXCEPT ![t] = l] /\ l \in Locked \cup {"value"}
  BY DEF Goto, Locked, Busy
<1>2. ThreadInv'
  BY <1>1, CallTypes DEF IInv, ThreadInv, locks
<1>3. /\ pc'[t] = l /\ \A s \in Thread : s # t => pc'[s] = pc[s] /\ call'[s] = call[s]
      /\ call'[t].pos = pos /\ call'[t].list = call[t].list /\ call'[t].action = call[t].action
      /\ call'[t].tag = call[t].tag
  BY <1>1 DEF IInv, ThreadInv
<1>4. PhaseInv'
  <2>1. ASSUME NEW w \in Worker
        PROVE  /\ pc'[w] \notin {"lock", "unlock"}
               /\ pc'[w] # "idle" => scheduler' = "react" /\ call'[w].action \in Action
    <3>1. CASE w = t
      BY <3>1, <1>3 DEF IInv, PhaseInv, progress
    <3>2. CASE w # t
      BY <3>2, <1>3, Threads DEF IInv, PhaseInv, progress
    <3>. QED
      BY <3>1, <3>2
  <2>2. ASSUME NEW s \in Other, pc'[s] \in Locked PROVE scheduling_mutex' = s
    <3>1. pc[s] \in Locked
      BY <2>2, <1>3, Threads DEF Locked, Busy
    <3>. QED
      BY <3>1 DEF IInv, PhaseInv, locks
  <2>. QED
    BY <2>1, <2>2 DEF PhaseInv
<1>5. WriterInv'
  BY <1>3 DEF IInv, WriterInv
<1>6. SchedulerInv' /\ ValueInv'
  BY DEF IInv, SchedulerInv, ValueInv, progress, values
<1>. QED
  BY <1>2, <1>3, <1>4, <1>5, <1>6

LEMMA ReserveInv == ASSUME IInv, NEW t \in Thread, Reserve(t) PROVE IInv'
<1>. DEFINE l == call[t].list
            pos == lists[l].write_pos
            list == [lists[l] EXCEPT !.write_pos = pos + 1]
<1>1. /\ pc[t] = "push_back" /\ Goto(t, "write") /\ call' = [call EXCEPT ![t].pos = pos]
      /\ lists' = [lists EXCEPT ![l] = list]
      /\ UNCHANGED <<progress, event_queue, values, locks>> /\ UNCHANGED action_list_pool
  BY DEF Reserve
<1>2. l \in DOMAIN lists /\ lists[l] \in ActionList
  BY <1>1, WriterList
<1>3. /\ pos \in Nat /\ list \in ActionList /\ list.write_pos = pos + 1
      /\ list.vector_size = lists[l].vector_size /\ list.vector = lists[l].vector
  <2>1. /\ pos \in Nat /\ lists[l].vector_size \in Nat
        /\ lists[l].vector \in [0..(lists[l].vector_size - 1) -> Action \cup {NoAction}]
        /\ list = [write_pos |-> pos + 1, vector_size |-> lists[l].vector_size, vector |-> lists[l].vector]
    BY <1>2, ListFields, ChangedFields
  <2>2. pos + 1 \in Nat
    BY <2>1
  <2>. HIDE DEF list, pos
  <2>3. list \in ActionList
    BY <2>1, <2>2, ListOfFields
  <2>. QED
    BY <2>1, <2>3
<1>. HIDE DEF list, pos, l
<1>4. /\ StoreInv' /\ ListsOwnedOnce' /\ DOMAIN lists' = DOMAIN lists
      /\ \A k \in DOMAIN lists : lists'[k] = IF k = l THEN list ELSE lists[k]
  BY <1>1, <1>2, <1>3, ChangeList DEF progress
<1>5. /\ ThreadInv' /\ PhaseInv' /\ WriterInv' /\ SchedulerInv' /\ ValueInv'
      /\ pc'[t] = "write" /\ call'[t].pos = pos /\ call'[t].list = l
      /\ \A s \in Thread : s # t => pc'[s] = pc[s] /\ call'[s] = call[s]
  BY <1>1, <1>3, <1>4, WriterStep DEF l
<1>6. EntryInv'
  <2>1. SUFFICES ASSUME NEW k \in DOMAIN lists, NEW i \in 0..(lists'[k].write_pos - 1)
                 PROVE  WrittenAt(k, i)' \/ WriterAt(k, i)'
    BY <1>4 DEF EntryInv
  <2>2. CASE k = l /\ i = pos
    BY <2>2, <1>5 DEF WriterAt
  <2>3. CASE ~(k = l /\ i = pos)
    <3>1. i \in 0..(lists[k].write_pos - 1)
      BY <2>3, <1>3, <1>4 DEF pos
    <3>2. WrittenAt(k, i) \/ WriterAt(k, i)
      BY <3>1 DEF IInv, EntryInv
    <3>3. WrittenAt(k, i) => WrittenAt(k, i)'
      BY <1>3, <1>4 DEF WrittenAt
    <3>4. WriterAt(k, i) => WriterAt(k, i)'
      BY <1>1, <1>5 DEF WriterAt
    <3>. QED
      BY <3>2, <3>3, <3>4
  <2>. QED
    BY <2>2, <2>3
<1>. QED
  BY <1>4, <1>5, <1>6 DEF IInv

LEMMA WrittenStep ==
  ASSUME IInv, NEW t \in Thread, pc[t] \in {"push_back", "write", "grow"}, Written(t), UNCHANGED call,
         UNCHANGED <<progress, event_queue, values, locks>>, DOMAIN lists' = DOMAIN lists
  PROVE  /\ ThreadInv' /\ PhaseInv' /\ WriterInv' /\ SchedulerInv' /\ ValueInv'
         /\ \A s \in Thread : s # t => pc'[s] = pc[s] /\ call'[s] = call[s]
<1>1. call' = [call EXCEPT ![t].pos = call[t].pos] /\ call[t].pos \in Nat
  BY CallTypes DEF IInv, ThreadInv
<1>2. CASE scheduling_mutex = t /\ Goto(t, "unlock")
  <2>1. t \notin Worker
    BY <1>2, Threads DEF IInv, ThreadInv
  <2>. QED
    BY <1>1, <1>2, <2>1, WriterStep
<1>3. CASE Goto(t, "value")
  BY <1>1, <1>3, WriterStep
<1>. QED
  BY <1>2, <1>3 DEF Written

(* The entry of t is written, and no other is lost.                        *)
LEMMA WriteList ==
  ASSUME IInv, NEW t \in Thread, pc[t] \in {"write", "grow"}, Written(t), UNCHANGED call,
         UNCHANGED <<progress, event_queue, values, locks>>, UNCHANGED action_list_pool,
         NEW list \in ActionList, lists' = [lists EXCEPT ![call[t].list] = list],
         list.write_pos = lists[call[t].list].write_pos,
         lists[call[t].list].vector_size <= list.vector_size, call[t].pos < list.vector_size,
         list.vector[call[t].pos] = call[t].action,
         \A i \in 0..(lists[call[t].list].vector_size - 1) :
           i # call[t].pos => list.vector[i] = lists[call[t].list].vector[i]
  PROVE  IInv'
<1>. DEFINE l == call[t].list
<1>1. /\ l \in DOMAIN lists /\ lists[l] \in ActionList /\ call[t].action \in Action /\ call[t].pos \in Nat
  BY WriterList
<1>. HIDE DEF l
<1>4. /\ StoreInv' /\ ListsOwnedOnce' /\ DOMAIN lists' = DOMAIN lists
      /\ \A k \in DOMAIN lists : lists'[k] = IF k = l THEN list ELSE lists[k]
  BY <1>1, ChangeList DEF l, progress
<1>5. /\ ThreadInv' /\ PhaseInv' /\ WriterInv' /\ SchedulerInv' /\ ValueInv'
      /\ \A s \in Thread : s # t => pc'[s] = pc[s] /\ call'[s] = call[s]
  BY <1>4, WrittenStep
<1>6. lists[l].vector_size \in Nat /\ list.vector_size \in Nat
  BY <1>1, ListFields
<1>7. EntryInv'
  <2>1. SUFFICES ASSUME NEW k \in DOMAIN lists, NEW i \in 0..(lists'[k].write_pos - 1)
                 PROVE  WrittenAt(k, i)' \/ WriterAt(k, i)'
    BY <1>4 DEF EntryInv
  <2>2. CASE k = l /\ i = call[t].pos
    BY <2>2, <1>1, <1>4 DEF WrittenAt, l
  <2>3. CASE ~(k = l /\ i = call[t].pos)
    <3>1. i \in 0..(lists[k].write_pos - 1)
      BY <1>4 DEF l
    <3>2. WrittenAt(k, i) \/ WriterAt(k, i)
      BY <3>1 DEF IInv, EntryInv
    <3>3. WrittenAt(k, i) => WrittenAt(k, i)'
      <4>1. CASE k = l
        <5>1. ASSUME WrittenAt(k, i)
              PROVE  i \in 0..(lists[l].vector_size - 1) /\ lists[l].vector[i] \in Action
          BY <5>1, <4>1, <1>6 DEF WrittenAt
        <5>. QED
          BY <5>1, <4>1, <2>3, <1>4, <1>6 DEF WrittenAt, l
      <4>2. CASE k # l
        BY <4>2, <1>4 DEF WrittenAt
      <4>. QED
        BY <4>1, <4>2
    <3>4. WriterAt(k, i) => WriterAt(k, i)'
      BY <2>3, <1>5 DEF WriterAt, l
    <3>. QED
      BY <3>2, <3>3, <3>4
  <2>. QED
    BY <2>2, <2>3
<1>. QED
  BY <1>4, <1>5, <1>7 DEF IInv

(* Write() and Grow() put a list with the entry of t in the place of the   *)
(* old one.                                                                *)
Writes(t, list) ==
  /\ pc[t] \in {"write", "grow"} /\ Written(t) /\ UNCHANGED call
  /\ UNCHANGED <<progress, event_queue, values, locks>> /\ UNCHANGED action_list_pool
  /\ lists' = [lists EXCEPT ![call[t].list] = list]
  /\ list.write_pos = lists[call[t].list].write_pos
  /\ lists[call[t].list].vector_size <= list.vector_size /\ call[t].pos < list.vector_size
  /\ list.vector[call[t].pos] = call[t].action
  /\ \A i \in 0..(lists[call[t].list].vector_size - 1) :
       i # call[t].pos => list.vector[i] = lists[call[t].list].vector[i]

LEMMA WriteWrites ==
  ASSUME IInv, NEW t \in Thread, Write(t), ~(Goto(t, "grow") /\ UNCHANGED lists)
  PROVE  \E list \in ActionList : Writes(t, list)
<1>. DEFINE l == call[t].list
            pos == call[t].pos
            old == lists[l]
<1>1. /\ pc[t] = "write" /\ UNCHANGED call
      /\ UNCHANGED <<progress, event_queue, values, locks>> /\ UNCHANGED action_list_pool
  BY DEF Write
<1>2. /\ l \in DOMAIN lists /\ old \in ActionList /\ call[t].action \in Action /\ pos \in Nat
  BY <1>1, WriterList
<1>3. /\ old.write_pos \in Nat /\ old.vector_size \in Nat
      /\ old.vector \in [0..(old.vector_size - 1) -> Action \cup {NoAction}]
      /\ old = [write_pos |-> old.write_pos, vector_size |-> old.vector_size, vector |-> old.vector]
  BY <1>2, ListFields
<1>4. pos < old.vector_size /\ Written(t) /\ lists' = [lists EXCEPT ![l].vector[pos] = call[t].action]
  BY DEF Write
<1>. DEFINE v == [old.vector EXCEPT ![pos] = call[t].action]
            list == [write_pos |-> old.write_pos, vector_size |-> old.vector_size, vector |-> v]
<1>5. v \in [0..(old.vector_size - 1) -> Action \cup {NoAction}]
  BY <1>2, <1>3
<1>6. list \in ActionList
  BY <1>5, <1>3, ListOfFields
<1>7. v[pos] = call[t].action /\ \A i \in 0..(old.vector_size - 1) : i # pos => v[i] = old.vector[i]
  BY <1>2, <1>3, <1>4
<1>8. lists' = [lists EXCEPT ![l] = list]
  <2>1. lists' = [lists EXCEPT ![l] = [@ EXCEPT !.vector = v]]
    BY <1>4
  <2>2. [old EXCEPT !.vector = v] = list
    BY <1>2, ChangedFields
  <2>. QED
    BY <2>1, <2>2
<1>9. /\ list.write_pos = old.write_pos /\ list.vector_size = old.vector_size /\ list.vector = v
  OBVIOUS
<1>. HIDE DEF list, v
<1>10. /\ old.vector_size <= list.vector_size /\ pos < list.vector_size
       /\ list.vector[pos] = call[t].action
       /\ \A i \in 0..(old.vector_size - 1) : i # pos => list.vector[i] = old.vector[i]
  BY <1>3, <1>4, <1>7, <1>9
<1>11. Writes(t, list)
  BY <1>1, <1>4, <1>8, <1>9, <1>10 DEF Writes
<1>. QED
  BY <1>6, <1>11

LEMMA GrowWrites == ASSUME IInv, NEW t \in Thread, Grow(t) PROVE \E list \in ActionList : Writes(t, list)
<1>. DEFINE l == call[t].list
            pos == call[t].pos
            old == lists[l]
            size == IF pos < old.vector_size THEN old.vector_size ELSE pos - (pos % size_increment) + size_increment
            resized == [i \in 0..(size - 1) |-> IF i < old.vector_size THEN old.vector[i] ELSE NoAction]
            v == [resized EXCEPT ![pos] = call[t].action]
            list == [write_pos |-> old.write_pos, vector_size |-> size, vector |-> v]
<1>1. /\ pc[t] = "grow" /\ UNCHANGED call /\ Written(t)
      /\ UNCHANGED <<progress, event_queue, values, locks>> /\ UNCHANGED action_list_pool
      /\ lists' = [lists EXCEPT ![l] = list]
  BY DEF Grow
<1>2. /\ l \in DOMAIN lists /\ old \in ActionList /\ call[t].action \in Action /\ pos \in Nat
  BY <1>1, WriterList
<1>3. /\ old.write_pos \in Nat /\ old.vector_size \in Nat
      /\ old.vector \in [0..(old.vector_size - 1) -> Action \cup {NoAction}]
      /\ old = [write_pos |-> old.write_pos, vector_size |-> old.vector_size, vector |-> old.vector]
  BY <1>2, ListFields
<1>4. size \in Nat /\ old.vector_size <= size /\ pos < size
  <2>1. size_increment \in Nat \ {0}
    BY BoundsAssumption
  <2>. DEFINE rest == pos % size_increment
  <2>2. rest \in 0..(size_increment - 1) /\ rest <= pos
    BY <2>1, <1>2
  <2>3. size = IF pos < old.vector_size THEN old.vector_size ELSE pos - rest + size_increment
    OBVIOUS
  <2>. HIDE DEF rest, size
  <2>. QED
    BY <2>1, <2>2, <2>3, <1>2, <1>3
<1>. HIDE DEF size
<1>6. resized \in [0..(size - 1) -> Action \cup {NoAction}]
  <2>1. ASSUME NEW i \in 0..(size - 1)
        PROVE  (IF i < old.vector_size THEN old.vector[i] ELSE NoAction) \in Action \cup {NoAction}
    BY <1>3
  <2>. QED
    BY <2>1
<1>7. v \in [0..(size - 1) -> Action \cup {NoAction}] /\ v[pos] = call[t].action
  BY <1>2, <1>4, <1>6
<1>8. \A i \in 0..(old.vector_size - 1) : i # pos => v[i] = old.vector[i]
  BY <1>3, <1>4
<1>9. list \in ActionList
  BY <1>3, <1>4, <1>7, ListOfFields
<1>10. list.write_pos = old.write_pos /\ list.vector_size = size /\ list.vector = v
  OBVIOUS
<1>. HIDE DEF list, v, resized
<1>11. Writes(t, list)
  BY <1>1, <1>4, <1>7, <1>8, <1>10 DEF Writes
<1>. QED
  BY <1>9, <1>11

LEMMA WriteInv == ASSUME IInv, NEW t \in Thread, Write(t) PROVE IInv'
<1>. DEFINE l == call[t].list
            pos == call[t].pos
<1>1. /\ pc[t] = "write" /\ UNCHANGED call
      /\ UNCHANGED <<progress, event_queue, values, locks>> /\ UNCHANGED action_list_pool
  BY DEF Write
<1>2. /\ l \in DOMAIN lists /\ call[t].action \in Action /\ pos \in Nat
  BY <1>1, WriterList
<1>3. CASE ~(Goto(t, "grow") /\ UNCHANGED lists)
  BY <1>3, WriteWrites, WriteList DEF Writes
<1>4. CASE Goto(t, "grow") /\ UNCHANGED lists
  <2>1. call' = [call EXCEPT ![t].pos = pos]
    BY <1>1 DEF IInv, ThreadInv
  <2>2. /\ ThreadInv' /\ PhaseInv' /\ WriterInv' /\ SchedulerInv' /\ ValueInv' /\ pc'[t] = "grow"
        /\ \A s \in Thread : s # t => pc'[s] = pc[s] /\ call'[s] = call[s]
    BY <1>1, <1>2, <1>4, <2>1, WriterStep
  <2>3. StoreInv' /\ ListsOwnedOnce'
    BY <1>1, <1>4 DEF IInv, StoreInv, ListsOwnedOnce, progress
  <2>4. ASSUME NEW k, NEW i, WriterAt(k, i) PROVE WriterAt(k, i)'
    BY <2>4, <1>1, <2>2 DEF WriterAt
  <2>5. EntryInv'
    BY <1>4, <2>4 DEF IInv, EntryInv, WrittenAt
  <2>. QED
    BY <2>2, <2>3, <2>5 DEF IInv
<1>. QED
  BY <1>3, <1>4 DEF Write

LEMMA GrowInv == ASSUME IInv, NEW t \in Thread, Grow(t) PROVE IInv'
BY GrowWrites, WriteList DEF Writes

-----------------------------------------------------------------------------
(* Steps of the scheduler *)

(* While the scheduler has its mutex, and before and after reactions       *)
(* execute, no thread refers to a list.                                    *)
LEMMA NobodyInserts ==
  ASSUME IInv, scheduling_mutex = NoOne, scheduler # "react"
  PROVE  \A t \in Thread : pc[t] \notin {"push_back", "write", "grow"}
<1>1. ASSUME NEW t \in Worker PROVE pc[t] = "idle"
  BY DEF IInv, PhaseInv
<1>2. ASSUME NEW t \in Other PROVE pc[t] \notin Locked
  BY Threads DEF IInv, PhaseInv
<1>. QED
  BY <1>1, <1>2, Threads DEF Locked, Busy

(* A step of the scheduler that does not end or begin reactions.           *)
LEMMA SchedulerStep ==
  ASSUME IInv, UNCHANGED <<pc, call, locks>>, scheduler # "react"
  PROVE  ThreadInv' /\ PhaseInv'
BY DEF IInv, ThreadInv, PhaseInv, locks

LEMMA EarlyTags ==
  ASSUME NEW D \in SUBSET Tag
  PROVE  D \subseteq Nat /\ Cardinality(D) \in Nat
<1>1. Tag \subseteq Nat /\ IsFiniteSet(Tag)
  BY FS_Interval, BoundsAssumption DEF Tag
<1>2. IsFiniteSet(D)
  BY <1>1, FS_Subset
<1>. QED
  BY <1>1, <1>2, FS_CardinalityType

LEMMA StartInv == ASSUME IInv, Start PROVE IInv'
<1>. DEFINE early == {tag \in DOMAIN event_queue : tag < start_tag}
<1>1. /\ scheduler = "start" /\ scheduling_mutex = NoOne /\ logical_time' = start_tag - 1
      /\ scheduler' = "next"
      /\ event_queue' = [tag \in DOMAIN event_queue \ early |-> event_queue[tag]]
      /\ UNCHANGED <<pc, call, locks>> /\ UNCHANGED <<triggered_actions, next_setup, lists, values>>
  BY DEF Start
<1>2. PICK order \in [1..Cardinality(early) -> early] :
        /\ Range(order) = early
        /\ \A i, j \in DOMAIN order : i < j => order[i] < order[j]
        /\ action_list_pool' = action_list_pool \o [i \in DOMAIN order |-> event_queue[order[i]]]
  BY DEF Start
<1>3. /\ early \subseteq DOMAIN event_queue /\ early \subseteq Nat /\ Cardinality(early) \in Nat
  <2>1. early \in SUBSET Tag
    BY DEF IInv, StoreInv
  <2>. HIDE DEF early
  <2>2. early \subseteq Nat /\ Cardinality(early) \in Nat
    BY <2>1, EarlyTags
  <2>. QED
    BY <2>2 DEF early
<1>4. /\ event_queue \in [DOMAIN event_queue -> DOMAIN lists] /\ DOMAIN event_queue \subseteq Tag
      /\ action_list_pool \in Seq(DOMAIN lists)
      /\ IsInjective(action_list_pool) /\ IsInjective(event_queue)
      /\ Range(action_list_pool) \cap Range(event_queue) = {}
  BY DEF IInv, StoreInv, ListsOwnedOnce
<1>. HIDE DEF early
<1>. DEFINE discarded == [i \in DOMAIN order |-> event_queue[order[i]]]
            n == Cardinality(early)
<1>5. discarded \in [1..n -> DOMAIN lists] /\ DOMAIN order = 1..n
  BY <1>2, <1>3, <1>4
<1>6. discarded \in Seq(DOMAIN lists)
  BY <1>3, <1>5, SeqDef
<1>7. IsInjective(discarded)
  <2>1. ASSUME NEW i \in 1..n, NEW j \in 1..n, i < j PROVE discarded[i] # discarded[j]
    <3>1. order[i] \in early /\ order[j] \in early /\ order[i] < order[j]
      BY <2>1, <1>2, <1>5
    <3>2. order[i] # order[j]
      BY <3>1, <1>3
    <3>. QED
      BY <3>1, <3>2, <1>3, <1>4, <1>5 DEF IsInjective
  <2>. HIDE DEF discarded
  <2>2. ASSUME NEW i \in 1..n, NEW j \in 1..n, discarded[i] = discarded[j] PROVE i = j
    <3>1. i \in Nat /\ j \in Nat
      BY <1>3
    <3>. QED
      BY <2>1, <2>2, <3>1
  <2>. QED
    BY <2>2, <1>5 DEF IsInjective
<1>8. Range(discarded) = {event_queue[tag] : tag \in early}
  BY <1>2, <1>5 DEF Range
<1>. HIDE DEF discarded
<1>9. IsInjective(event_queue') /\ Range(event_queue') = Range(event_queue) \ {event_queue[tag] : tag \in early}
  BY <1>1, <1>3, <1>4, RangeOfRemaining
<1>10. Range(discarded) \subseteq Range(event_queue)
  BY <1>8, <1>3 DEF Range
<1>11. /\ action_list_pool' \in Seq(DOMAIN lists) /\ IsInjective(action_list_pool')
       /\ Range(action_list_pool') = Range(action_list_pool) \cup Range(discarded)
  <2>1. action_list_pool' = action_list_pool \o discarded
    BY <1>2 DEF discarded
  <2>2. Range(action_list_pool) \cap Range(discarded) = {}
    BY <1>4, <1>10
  <2>. QED
    BY <2>1, <2>2, <1>4, <1>6, <1>7, RangeOfConcat
<1>12. StoreInv'
  <2>1. lists' \in Seq(ActionList) /\ lists' = lists
    BY <1>1 DEF IInv, StoreInv
  <2>2. DOMAIN event_queue' \subseteq Tag /\ event_queue' \in [DOMAIN event_queue' -> DOMAIN lists]
    BY <1>1, <1>4
  <2>. QED
    BY <2>1, <2>2, <1>11 DEF StoreInv
<1>13. ListsOwnedOnce'
  <2>1. Range(action_list_pool)' = Range(action_list_pool) \cup Range(discarded)
    BY <1>11
  <2>2. Range(event_queue)' = Range(event_queue) \ Range(discarded)
    BY <1>8, <1>9
  <2>3. IsInjective(action_list_pool)' /\ IsInjective(event_queue)'
    BY <1>9, <1>11
  <2>4. triggered_actions' = triggered_actions /\ (DOMAIN lists)' = DOMAIN lists
    BY <1>1
  <2>. QED
    BY <2>1, <2>2, <2>3, <2>4, <1>4, <1>10 DEF IInv, ListsOwnedOnce
<1>14. SchedulerInv' /\ ValueInv'
  BY <1>1, BoundsAssumption DEF IInv, SchedulerInv, ValueInv, values, Tag
<1>15. ThreadInv' /\ PhaseInv'
  BY <1>1, SchedulerStep
<1>16. \A t \in Thread : pc[t] \notin {"push_back", "write", "grow"}
  BY <1>1, NobodyInserts
<1>17. WriterInv' /\ EntryInv'
  BY <1>1, <1>16, KeepEntries DEF IInv, WriterInv
<1>. QED
  BY <1>12, <1>13, <1>14, <1>15, <1>17 DEF IInv

LEMMA ReturnListFacts ==
  ASSUME IInv
  PROVE  /\ ReturnList \in Seq(DOMAIN lists) /\ IsInjective(ReturnList)
         /\ Range(ReturnList) = Range(action_list_pool) \cup ({triggered_actions} \ {0})
<1>1. /\ action_list_pool \in Seq(DOMAIN lists) /\ IsInjective(action_list_pool)
      /\ triggered_actions \notin Range(action_list_pool) /\ triggered_actions \in DOMAIN lists \cup {0}
  BY DEF IInv, StoreInv, ListsOwnedOnce, SchedulerInv
<1>2. CASE triggered_actions = 0
  BY <1>1, <1>2 DEF ReturnList
<1>3. CASE triggered_actions # 0
  BY <1>1, <1>3, RangeOfAppend DEF ReturnList
<1>. QED
  BY <1>2, <1>3

LEMMA ExtractInv == ASSUME IInv, Extract PROVE IInv'
<1>1. /\ scheduler = "next" /\ scheduling_mutex = NoOne /\ action_list_pool' = ReturnList /\ next_setup' = 0
      /\ UNCHANGED <<pc, call, locks>> /\ UNCHANGED lists /\ UNCHANGED values
  BY DEF Extract
<1>2. /\ ReturnList \in Seq(DOMAIN lists) /\ IsInjective(ReturnList)
      /\ Range(ReturnList) = Range(action_list_pool) \cup ({triggered_actions} \ {0})
  BY ReturnListFacts
<1>3. ThreadInv' /\ PhaseInv'
  BY <1>1, SchedulerStep
<1>4. \A t \in Thread : pc[t] \notin {"push_back", "write", "grow"}
  BY <1>1, NobodyInserts
<1>5. WriterInv' /\ EntryInv'
  BY <1>1, <1>4, KeepEntries DEF IInv, WriterInv
<1>6. ValueInv'
  BY <1>1 DEF IInv, ValueInv, values
<1>7. /\ event_queue \in [DOMAIN event_queue -> DOMAIN lists] /\ DOMAIN event_queue \subseteq Tag
      /\ lists \in Seq(ActionList) /\ Tag \subseteq Nat
  BY EarlyTags DEF IInv, StoreInv
<1>8. /\ IsInjective(event_queue)
      /\ Range(action_list_pool) \cap Range(event_queue) = {}
      /\ triggered_actions \notin Range(action_list_pool) \cup Range(event_queue)
      /\ DOMAIN lists = Range(action_list_pool) \cup Range(event_queue) \cup ({triggered_actions} \ {0})
      /\ 0 \notin DOMAIN lists
  BY ListsAreLists DEF IInv, ListsOwnedOnce
<1>9. CASE DOMAIN event_queue = {}
  <2>1. triggered_actions' = 0 /\ UNCHANGED <<event_queue, logical_time, scheduler>>
    BY <1>9 DEF Extract
  <2>2. StoreInv'
    BY <2>1, <1>1, <1>2, <1>7 DEF StoreInv
  <2>3. SchedulerInv'
    BY <2>1, <1>1 DEF IInv, SchedulerInv
  <2>4. ListsOwnedOnce'
    BY <2>1, <1>1, <1>2, <1>8 DEF ListsOwnedOnce
  <2>. QED
    BY <2>2, <2>3, <2>4, <1>3, <1>5, <1>6 DEF IInv
<1>10. CASE DOMAIN event_queue # {}
  <2>. DEFINE tag == Min(DOMAIN event_queue)
  <2>1. tag \in DOMAIN event_queue
    <3>1. DOMAIN event_queue \in SUBSET Nat
      BY <1>7
    <3>. QED
      BY <1>10, <3>1, MinimumExists
  <2>2. /\ triggered_actions' = event_queue[tag] /\ event_queue' = Remaining(tag) /\ logical_time' = tag
        /\ scheduler' \in {"next", "setup"}
    BY <1>10 DEF Extract
  <2>. HIDE DEF tag
  <2>3. event_queue' = [t \in DOMAIN event_queue \ {tag} |-> event_queue[t]]
    BY <2>2 DEF Remaining
  <2>4. IsInjective(event_queue') /\ Range(event_queue') = Range(event_queue) \ {event_queue[tag]}
    <3>1. /\ IsInjective(event_queue')
          /\ Range(event_queue') = Range(event_queue) \ {event_queue[t] : t \in {tag}}
      BY <2>1, <2>3, <1>8, RangeOfRemaining
    <3>. QED
      BY <3>1
  <2>5. event_queue[tag] \in Range(event_queue) /\ event_queue[tag] \in DOMAIN lists /\ event_queue[tag] # 0
    BY <2>1, <1>7, <1>8 DEF Range
  <2>6. StoreInv'
    BY <2>3, <1>1, <1>2, <1>7 DEF StoreInv
  <2>7. SchedulerInv'
    BY <2>1, <2>2, <2>5, <1>1, <1>7 DEF SchedulerInv
  <2>8. ListsOwnedOnce'
    <3>1. Range(action_list_pool)' = Range(action_list_pool) \cup ({triggered_actions} \ {0})
      BY <1>1, <1>2
    <3>2. IsInjective(action_list_pool)' /\ IsInjective(event_queue)'
      BY <1>1, <1>2, <2>4
    <3>3. Range(event_queue)' = Range(event_queue) \ {event_queue[tag]}
      BY <2>4
    <3>4. triggered_actions' = event_queue[tag] /\ (DOMAIN lists)' = DOMAIN lists
      BY <2>2, <1>1
    <3>. QED
      BY <3>1, <3>2, <3>3, <3>4, <2>5, <1>8 DEF ListsOwnedOnce
  <2>. QED
    BY <2>6, <2>7, <2>8, <1>3, <1>5, <1>6 DEF IInv
<1>. QED
  BY <1>9, <1>10

(* The list that is processed has no writer, so all its entries are        *)
(* actions.                                                                *)
LEMMA TriggeredIsAction ==
  ASSUME IInv, scheduler = "setup", next_setup < lists[triggered_actions].write_pos
  PROVE  Triggered \in Action
<1>1. triggered_actions \in DOMAIN lists /\ lists[triggered_actions] \in ActionList /\ next_setup \in Nat
  BY ListsAreLists DEF IInv, SchedulerInv
<1>2. next_setup \in 0..(lists[triggered_actions].write_pos - 1)
  BY <1>1, ListFields
<1>3. ~WriterAt(triggered_actions, next_setup)
  <2>1. ASSUME NEW t \in Thread, pc[t] \in {"write", "grow"}, call[t].list = triggered_actions
        PROVE  FALSE
    <3>1. triggered_actions \in Range(event_queue)
      BY <2>1 DEF IInv, WriterInv, Range
    <3>. QED
      BY <3>1 DEF IInv, ListsOwnedOnce
  <2>. QED
    BY <2>1 DEF WriterAt
<1>4. WrittenAt(triggered_actions, next_setup)
  BY <1>1, <1>2, <1>3 DEF IInv, EntryInv
<1>. QED
  BY <1>4 DEF WrittenAt, Triggered

LEMMA SetupInv == ASSUME IInv, Setup PROVE IInv'
<1>1. /\ scheduler = "setup" /\ next_setup < lists[triggered_actions].write_pos
      /\ next_setup' = next_setup + 1
      /\ UNCHANGED <<pc, call, locks>> /\ UNCHANGED <<scheduler, logical_time, triggered_actions, stores>>
  BY DEF Setup
<1>2. Triggered \in Action
  BY <1>1, TriggeredIsAction
<1>3. ValueInv'
  <2>1. CASE UNCHANGED values
    BY <2>1 DEF IInv, ValueInv, values
  <2>2. CASE /\ events' = [events EXCEPT ![Triggered] = @ \ {Min(@)}]
             /\ present' = present \cup {Triggered}
    <3>1. events[Triggered] \ {Min(events[Triggered])} \in SUBSET Tag
      BY <1>2 DEF IInv, ValueInv
    <3>. QED
      BY <2>2, <3>1, <1>2 DEF IInv, ValueInv
  <2>. QED
    BY <2>1, <2>2 DEF Setup
<1>4. ThreadInv' /\ PhaseInv'
  BY <1>1, SchedulerStep
<1>5. StoreInv' /\ SchedulerInv' /\ ListsOwnedOnce'
  BY <1>1 DEF IInv, StoreInv, SchedulerInv, ListsOwnedOnce, stores
<1>6. WriterInv' /\ EntryInv'
  BY <1>1, KeepEntries, KeepWriters DEF IInv, stores
<1>. QED
  BY <1>3, <1>4, <1>5, <1>6 DEF IInv

LEMMA EndSetupInv == ASSUME IInv, EndSetup PROVE IInv'
<1>1. /\ scheduler = "setup" /\ scheduler' = "react" /\ UNCHANGED <<pc, call, locks>>
      /\ UNCHANGED <<logical_time, triggered_actions, next_setup, stores, values>>
  BY DEF EndSetup
<1>2. ThreadInv' /\ PhaseInv'
  BY <1>1, SchedulerStep
<1>3. StoreInv' /\ SchedulerInv' /\ ListsOwnedOnce' /\ ValueInv'
  BY <1>1 DEF IInv, StoreInv, SchedulerInv, ListsOwnedOnce, ValueInv, stores, values
<1>4. WriterInv' /\ EntryInv'
  BY <1>1, KeepEntries, KeepWriters DEF IInv, stores
<1>. QED
  BY <1>2, <1>3, <1>4 DEF IInv

LEMMA CleanupInv == ASSUME IInv, Cleanup PROVE IInv'
<1>. DEFINE l == triggered_actions
            list == [lists[l] EXCEPT !.write_pos = 0]
<1>1. /\ scheduler = "react" /\ \A w \in Worker : pc[w] = "idle"
      /\ present' = {} /\ lists' = [lists EXCEPT ![l] = list] /\ scheduler' = "next"
      /\ UNCHANGED <<pc, call, logical_time, triggered_actions, next_setup, event_queue, action_list_pool,
                     events, locks>>
  BY DEF Cleanup
<1>2. l \in DOMAIN lists /\ lists[l] \in ActionList
  BY <1>1, ListsAreLists DEF IInv, SchedulerInv
<1>3. list \in ActionList /\ list.write_pos = 0
  <2>1. /\ list = [write_pos |-> 0, vector_size |-> lists[l].vector_size, vector |-> lists[l].vector]
        /\ lists[l].vector_size \in Nat
        /\ lists[l].vector \in [0..(lists[l].vector_size - 1) -> Action \cup {NoAction}]
    BY <1>2, ListFields, ChangedFields
  <2>. HIDE DEF list, l
  <2>2. list \in ActionList
    BY <2>1, ListOfFields
  <2>. QED
    BY <2>1, <2>2
<1>. HIDE DEF list
<1>4. /\ StoreInv' /\ ListsOwnedOnce' /\ DOMAIN lists' = DOMAIN lists
      /\ \A k \in DOMAIN lists : lists'[k] = IF k = l THEN list ELSE lists[k]
  BY <1>1, <1>2, <1>3, ChangeList
<1>5. ThreadInv' /\ PhaseInv'
  BY <1>1 DEF IInv, ThreadInv, PhaseInv, locks
<1>6. SchedulerInv' /\ ValueInv'
  BY <1>1, <1>4 DEF IInv, SchedulerInv, ValueInv
<1>7. WriterInv'
  BY <1>1, KeepWriters DEF IInv
<1>8. EntryInv'
  <2>1. SUFFICES ASSUME NEW k \in DOMAIN lists, NEW i \in 0..(lists'[k].write_pos - 1)
                 PROVE  WrittenAt(k, i)' \/ WriterAt(k, i)'
    BY <1>4 DEF EntryInv
  <2>2. k # l
    BY <1>3, <1>4
  <2>3. lists'[k] = lists[k]
    BY <2>2, <1>4
  <2>4. WrittenAt(k, i) \/ WriterAt(k, i)
    BY <2>3 DEF IInv, EntryInv
  <2>5. (WrittenAt(k, i) => WrittenAt(k, i)') /\ (WriterAt(k, i) => WriterAt(k, i)')
    BY <2>3, <1>1 DEF WrittenAt, WriterAt
  <2>. QED
    BY <2>4, <2>5
<1>. QED
  BY <1>4, <1>5, <1>6, <1>7, <1>8 DEF IInv

-----------------------------------------------------------------------------
(* The theorems *)

LEMMA NextInv == ASSUME IInv, [Next]_vars PROVE IInv'
<1>1. CASE UNCHANGED vars
  <2>1. UNCHANGED <<pc, call, scheduler, logical_time, triggered_actions, next_setup, event_queue,
                    action_list_pool, lists, events, present, scheduling_mutex, mutex_events>>
    BY <1>1 DEF vars, progress, stores, values, locks
  <2>. QED
    BY <2>1 DEF IInv, ThreadInv, PhaseInv, StoreInv, SchedulerInv, ValueInv, ListsOwnedOnce,
                WriterInv, EntryInv, WrittenAt, WriterAt
<1>2. ASSUME NEW t \in Thread, Proceed(t) PROVE IInv'
  BY <1>2, LockInv, FindInv, EmplaceInv, ReserveInv, WriteInv, GrowInv, UnlockInv, ValueStepInv DEF Proceed
<1>3. CASE Process
  BY <1>3, ExtractInv, SetupInv, EndSetupInv DEF Process
<1>4. CASE Next
  BY <1>2, <1>3, <1>4, ScheduleInv, StartInv, CleanupInv DEF Next
<1>. QED
  BY <1>1, <1>4

LEMMA IInvHolds == Spec => []IInv
<1>1. IInv /\ [Next]_vars => IInv'
  BY NextInv
<1>. QED
  BY InitInv, <1>1, PTL DEF Spec

(* Every variable keeps its type, for any number of threads: the entry     *)
(* that Action::setup() is called on is an action that some thread has     *)
(* finished writing, never a null pointer or a position another thread     *)
(* still fills (safe_vector.hh:29-52, scheduler.cc:424).                   *)
THEOREM TypeCorrect == Spec => []TypeOK
<1>1. IInv => TypeOK
  <2>1. ASSUME StoreInv
        PROVE  \A l \in DOMAIN lists :
                 /\ lists[l].write_pos \in Nat /\ lists[l].vector_size \in Nat
                 /\ lists[l].vector \in [0..(lists[l].vector_size - 1) -> Action \cup {NoAction}]
    BY <2>1, ListsAreLists, ListFields
  <2>2. ASSUME StoreInv, SchedulerInv PROVE triggered_actions \in Nat
    BY <2>2, ListsAreLists DEF SchedulerInv
  <2>3. ASSUME ThreadInv PROVE scheduling_mutex \in Thread \cup {NoOne}
    BY <2>3, Threads DEF ThreadInv
  <2>. QED
    BY <2>1, <2>2, <2>3 DEF IInv, TypeOK, ThreadInv, StoreInv, SchedulerInv, ValueInv, Locked, Busy
<1>. QED
  BY IInvHolds, <1>1, PTL

(* Each list is in one place, for any number of threads that insert at any *)
(* tags, whoever wins the race for a tag and however often the pool is     *)
(* filled (scheduler.cc:142-190, 327-331).                                 *)
THEOREM ListsAreOwned == Spec => []ListsOwnedOnce
<1>1. IInv => ListsOwnedOnce
  BY DEF IInv
<1>. QED
  BY IInvHolds, <1>1, PTL

-----------------------------------------------------------------------------
(* Values.  An action is committed for a tag from the step that writes its *)
(* entry until it is set up; its value is stored in between.               *)
Pending(a, tag) ==
  \E t \in Thread : pc[t] \in {"unlock", "value"} /\ call[t].action = a /\ call[t].tag = tag
Committed(a, tag) == tag \in events[a] \/ Pending(a, tag)
Entry(l, i, a) ==
  /\ i \in 0..(lists[l].write_pos - 1) /\ i < lists[l].vector_size /\ lists[l].vector[i] = a
  /\ ~WriterAt(l, i)

CallInv ==
  /\ \A t \in Thread : pc[t] # "idle" /\ call[t].action \in Action =>
       /\ t \in Worker \/ (call[t].action \in PhysicalAction /\ mutex_events[call[t].action] = t)
       /\ scheduler = "start" => start_tag <= call[t].tag
  /\ \A t \in Thread : pc[t] \in Busy /\ scheduler # "start" => logical_time < call[t].tag
  /\ scheduler = "start" => \A a \in Action : \A tag \in events[a] : start_tag <= tag

FutureInv == scheduler # "start" => \A tag \in DOMAIN event_queue : logical_time < tag

PositionInv ==
  /\ \A t \in Thread : pc[t] \in {"write", "grow"} => call[t].pos < lists[call[t].list].write_pos
  /\ \A s, t \in Thread :
       /\ pc[s] \in {"write", "grow"} /\ pc[t] \in {"write", "grow"}
       /\ call[s].list = call[t].list /\ call[s].pos = call[t].pos
       => s = t

CleanInv ==
  /\ \A l \in Range(action_list_pool) : lists[l].write_pos = 0
  /\ scheduler \in {"start", "next"} =>
       present = {} /\ (triggered_actions # 0 => lists[triggered_actions].write_pos = 0)

(* What is committed has an entry: in the queue, or to be set up.          *)
Queued(a, tag) == tag \in DOMAIN event_queue /\ \E i \in Nat : Entry(event_queue[tag], i, a)
ToSetUp(a, tag) ==
  /\ scheduler = "setup" /\ tag = logical_time /\ a \notin present
  /\ \E i \in Nat : next_setup <= i /\ Entry(triggered_actions, i, a)
CommittedInv == \A a \in Action, tag \in Tag : Committed(a, tag) => Queued(a, tag) \/ ToSetUp(a, tag)

(* What has an entry is committed.                                         *)
CommittedAt(l, i, tag) ==
  i < lists[l].vector_size /\ lists[l].vector[i] \in Action /\ Committed(lists[l].vector[i], tag)
QueuedInv ==
  \A tag \in DOMAIN event_queue : \A i \in 0..(lists[event_queue[tag]].write_pos - 1) :
    WriterAt(event_queue[tag], i) \/ CommittedAt(event_queue[tag], i, tag)
SetupCommitted ==
  scheduler = "setup" =>
    \A i \in 0..(lists[triggered_actions].write_pos - 1) : next_setup <= i =>
      lists[triggered_actions].vector[i] \in present \/ CommittedAt(triggered_actions, i, logical_time)

StorageInv == FutureInv /\ PositionInv /\ CleanInv /\ CommittedInv /\ QueuedInv /\ SetupCommitted
VInv == CallInv /\ StorageInv

LEMMA InitValues == ASSUME Init PROVE VInv
<1>1. DOMAIN event_queue = {} /\ scheduler = "start" /\ present = {} /\ triggered_actions = 0
      /\ \A t \in Thread : pc[t] = "idle"
  BY DEF Init
<1>2. \A a \in Action, tag \in Tag : ~Committed(a, tag)
  BY <1>1 DEF Init, Committed, Pending
<1>3. \A l \in Range(action_list_pool) : lists[l].write_pos = 0
  BY NewListType DEF Init, Range
<1>4. CallInv /\ PositionInv
  <2>1. \A a \in Action : events[a] = {}
    BY DEF Init
  <2>. QED
    BY <1>1, <2>1 DEF CallInv, PositionInv, Busy
<1>5. FutureInv /\ CleanInv /\ CommittedInv /\ QueuedInv /\ SetupCommitted
  BY <1>1, <1>2, <1>3 DEF FutureInv, CleanInv, CommittedInv, QueuedInv, SetupCommitted
<1>. QED
  BY <1>4, <1>5 DEF VInv, StorageInv

(* A step that leaves the lists, their writers and what is committed.      *)
LEMMA LocalStorage ==
  ASSUME StorageInv, UNCHANGED <<progress, stores, present>>,
         \A t \in Thread : pc'[t] \in {"write", "grow"} <=> pc[t] \in {"write", "grow"},
         \A t \in Thread : pc[t] \in {"write", "grow"} => call'[t] = call[t],
         \A a \in Action : \A tag : Committed(a, tag)' <=> Committed(a, tag)
  PROVE  StorageInv'
<1>1. UNCHANGED <<scheduler, logical_time, triggered_actions, next_setup, event_queue, action_list_pool, lists, present>>
  BY DEF progress, stores
<1>2. \A l, i : WriterAt(l, i)' <=> WriterAt(l, i)
  BY DEF WriterAt
<1>3. \A l, i, a : Entry(l, i, a)' <=> Entry(l, i, a)
  BY <1>1, <1>2 DEF Entry
<1>4. \A a \in Action, tag \in Tag : (Queued(a, tag) => Queued(a, tag)') /\ (ToSetUp(a, tag) => ToSetUp(a, tag)')
  BY <1>1, <1>3 DEF Queued, ToSetUp
<1>6. FutureInv' /\ CleanInv'
  BY <1>1 DEF StorageInv, FutureInv, CleanInv
<1>7. PositionInv'
  BY <1>1 DEF StorageInv, PositionInv
<1>8. CommittedInv'
  BY <1>4 DEF StorageInv, CommittedInv
<1>9. QueuedInv'
  <2>1. SUFFICES ASSUME NEW tag \in DOMAIN event_queue,
                        NEW i \in 0..(lists[event_queue[tag]].write_pos - 1)
                 PROVE  (WriterAt(event_queue[tag], i) \/ CommittedAt(event_queue[tag], i, tag))'
    BY <1>1 DEF QueuedInv
  <2>2. WriterAt(event_queue[tag], i) \/ CommittedAt(event_queue[tag], i, tag)
    BY DEF StorageInv, QueuedInv
  <2>3. WriterAt(event_queue[tag], i) => WriterAt(event_queue[tag], i)'
    BY <1>1, <1>2 DEF WriterAt
  <2>4. CommittedAt(event_queue[tag], i, tag) => CommittedAt(event_queue[tag], i, tag)'
    BY <1>1 DEF CommittedAt
  <2>. QED
    BY <2>2, <2>3, <2>4
<1>10. SetupCommitted'
  BY <1>1 DEF StorageInv, SetupCommitted, CommittedAt
<1>. QED
  BY <1>6, <1>7, <1>8, <1>9, <1>10 DEF StorageInv

LEMMA BeginValues ==
  ASSUME IInv, VInv, NEW t \in Thread, NEW a \in Action \cup {NoAction}, NEW tag \in Tag,
         NEW l \in {"find", "lock"}, Begin(t, a, tag, l),
         UNCHANGED <<progress, stores, values>>,
         l = "find" => scheduler = "react" /\ logical_time < tag,
         a \in Action =>
           /\ t \in Worker \/ (a \in PhysicalAction /\ mutex_events'[a] = t)
           /\ scheduler = "start" => start_tag <= tag,
         \A b \in PhysicalAction : mutex_events[b] # NoOne => mutex_events'[b] = mutex_events[b]
  PROVE  VInv'
<1>1. /\ pc[t] = "idle" /\ pc'[t] = l /\ call'[t].action = a /\ call'[t].tag = tag
      /\ \A s \in Thread : s # t => pc'[s] = pc[s] /\ call'[s] = call[s]
  BY DEF Begin, Goto, IInv, ThreadInv
<1>2. UNCHANGED <<scheduler, logical_time, events, present>>
  BY DEF progress, values
<1>3. CallInv'
  <2>1. ASSUME NEW s \in Thread, pc'[s] # "idle", call'[s].action \in Action
        PROVE  /\ \/ s \in Worker
                  \/ call'[s].action \in PhysicalAction /\ mutex_events'[call'[s].action] = s
               /\ scheduler' = "start" => start_tag <= call'[s].tag
    <3>1. CASE s = t
      BY <3>1, <2>1, <1>1, <1>2
    <3>2. CASE s # t
      <4>1. pc[s] # "idle" /\ call'[s] = call[s] /\ call[s].action \in Action
        BY <3>2, <2>1, <1>1
      <4>2. /\ s \in Worker \/ (call[s].action \in PhysicalAction /\ mutex_events[call[s].action] = s)
            /\ scheduler = "start" => start_tag <= call[s].tag
        BY <4>1 DEF VInv, CallInv
      <4>. QED
        BY <4>1, <4>2, <1>2, Threads
    <3>. QED
      BY <3>1, <3>2
  <2>2. ASSUME NEW s \in Thread, pc'[s] \in Busy, scheduler' # "start"
        PROVE  logical_time' < call'[s].tag
    <3>1. CASE s = t
      BY <3>1, <2>2, <1>1, <1>2 DEF Busy
    <3>2. CASE s # t
      BY <3>2, <2>2, <1>1, <1>2 DEF VInv, CallInv
    <3>. QED
      BY <3>1, <3>2
  <2>3. scheduler' = "start" => \A b \in Action : \A x \in events'[b] : start_tag <= x
    BY <1>2 DEF VInv, CallInv
  <2>. QED
    BY <2>1, <2>2, <2>3 DEF CallInv
<1>4. \A b : \A x : Pending(b, x)' <=> Pending(b, x)
  BY <1>1 DEF Pending
<1>5. \A b \in Action : \A x : Committed(b, x)' <=> Committed(b, x)
  BY <1>2, <1>4 DEF Committed
<1>6. StorageInv'
  BY <1>1, <1>2, <1>5, LocalStorage DEF VInv
<1>. QED
  BY <1>3, <1>6 DEF VInv

LEMMA ScheduleValues ==
  ASSUME IInv, VInv, ~EarlyActions, NEW tag \in Tag,
         \/ \E w \in Worker : ScheduleLogical(w, tag)
         \/ \E t \in Other : ScheduleEmpty(t, tag) \/ \E a \in PhysicalAction : SchedulePhysical(t, a, tag)
  PROVE  VInv'
<1>1. ASSUME NEW w \in Worker, ScheduleLogical(w, tag) PROVE VInv'
  <2>1. w \in Thread /\ logical_action[w] \in Action /\ UNCHANGED mutex_events
    BY <1>1, Threads DEF ScheduleLogical, locks
  <2>. QED
    BY <1>1, <2>1, BeginValues DEF ScheduleLogical
<1>2. ASSUME NEW t \in Other, ScheduleEmpty(t, tag) PROVE VInv'
  <2>1. t \in Thread /\ NoAction \notin Action /\ UNCHANGED mutex_events
    BY <1>2, Threads DEF ScheduleEmpty, locks
  <2>. QED
    BY <1>2, <2>1, BeginValues DEF ScheduleEmpty
<1>3. ASSUME NEW t \in Other, NEW a \in PhysicalAction, SchedulePhysical(t, a, tag) PROVE VInv'
  <2>1. t \in Thread /\ a \in Action
    BY Threads
  <2>2. /\ mutex_events[a] = NoOne /\ mutex_events' = [mutex_events EXCEPT ![a] = t]
        /\ scheduler = "start" => start_tag <= tag
    BY <1>3 DEF SchedulePhysical
  <2>3. mutex_events'[a] = t /\ \A b \in PhysicalAction : mutex_events[b] # NoOne => mutex_events'[b] = mutex_events[b]
    BY <2>2 DEF IInv, ThreadInv
  <2>. QED
    BY <1>3, <2>1, <2>2, <2>3, BeginValues DEF SchedulePhysical
<1>. QED
  BY <1>1, <1>2, <1>3

(* The calls of the other threads do not change; t may end its call.       *)
LEMMA CallStep ==
  ASSUME IInv, VInv, NEW t \in Thread, NEW l, Goto(t, l), l # "idle" => pc[t] # "idle",
         \A s \in Thread : call'[s].action = call[s].action /\ call'[s].tag = call[s].tag,
         UNCHANGED <<scheduler, logical_time>>,
         mutex_events' = mutex_events \/ (l = "idle" /\ mutex_events' = MutexesWithout(t)),
         l \in Busy /\ scheduler # "start" => logical_time < call[t].tag,
         \/ events' = events
         \/ pc[t] # "idle" /\ \A a \in Action : \A tag \in events'[a] :
                                tag \in events[a] \/ (a = call[t].action /\ tag = call[t].tag)
  PROVE  CallInv'
<1>1. pc'[t] = l /\ \A s \in Thread : s # t => pc'[s] = pc[s]
  BY DEF Goto, IInv, ThreadInv
<1>2. ASSUME NEW s \in Thread, pc'[s] # "idle", call'[s].action \in Action
      PROVE  /\ \/ s \in Worker
                \/ call'[s].action \in PhysicalAction /\ mutex_events'[call'[s].action] = s
             /\ scheduler' = "start" => start_tag <= call'[s].tag
  <2>1. pc[s] # "idle" /\ call[s].action \in Action
    BY <1>1, <1>2
  <2>2. /\ s \in Worker \/ (call[s].action \in PhysicalAction /\ mutex_events[call[s].action] = s)
        /\ scheduler = "start" => start_tag <= call[s].tag
    BY <2>1 DEF VInv, CallInv
  <2>3. ASSUME call[s].action \in PhysicalAction, mutex_events[call[s].action] = s
        PROVE  mutex_events'[call[s].action] = s
    <3>1. CASE mutex_events' = mutex_events
      BY <3>1, <2>3
    <3>2. CASE l = "idle" /\ mutex_events' = MutexesWithout(t)
      <4>1. s # t
        BY <3>2, <1>1, <1>2
      <4>. QED
        BY <3>2, <4>1, <2>3 DEF MutexesWithout
    <3>. QED
      BY <3>1, <3>2
  <2>. QED
    BY <2>2, <2>3
<1>3. ASSUME NEW s \in Thread, pc'[s] \in Busy, scheduler' # "start"
      PROVE  logical_time' < call'[s].tag
  BY <1>1, <1>3 DEF VInv, CallInv
<1>4. ASSUME NEW a \in Action, NEW tag \in events'[a], scheduler' = "start" PROVE start_tag <= tag
  <2>1. CASE tag \in events[a]
    BY <1>4, <2>1 DEF VInv, CallInv
  <2>2. CASE pc[t] # "idle" /\ a = call[t].action /\ tag = call[t].tag
    BY <1>4, <2>2 DEF VInv, CallInv
  <2>. QED
    BY <2>1, <2>2, <1>4
<1>. QED
  BY <1>2, <1>3, <1>4 DEF CallInv

LEMMA LockValues == ASSUME IInv, VInv, NEW t \in Thread, Lock(t) PROVE VInv'
<1>1. /\ pc[t] = "lock" /\ UNCHANGED <<call, progress, stores, values>>
      /\ UNCHANGED <<scheduler, logical_time, events, present>>
  BY DEF Lock, progress, values
<1>2. PICK l \in {"idle", "find"} :
        /\ Goto(t, l) /\ (l = "find" => ~(call[t].tag <= logical_time))
        /\ mutex_events' = mutex_events \/ (l = "idle" /\ mutex_events' = MutexesWithout(t))
  BY DEF Lock
<1>3. l \in Busy /\ scheduler # "start" => logical_time < call[t].tag
  <2>1. call[t].tag \in Nat /\ logical_time \in Nat
    BY CallTypes, EarlyTags DEF IInv, SchedulerInv
  <2>. QED
    BY <2>1, <1>2 DEF Busy
<1>4. CallInv'
  BY <1>1, <1>2, <1>3, CallStep
<1>5. pc'[t] = l /\ \A s \in Thread : s # t => pc'[s] = pc[s]
  BY <1>2 DEF Goto, IInv, ThreadInv
<1>6. \A b : \A x : Pending(b, x)' <=> Pending(b, x)
  BY <1>1, <1>5 DEF Pending
<1>7. \A b \in Action : \A x : Committed(b, x)' <=> Committed(b, x)
  BY <1>1, <1>6 DEF Committed
<1>8. StorageInv'
  BY <1>1, <1>5, <1>7, LocalStorage DEF VInv
<1>. QED
  BY <1>4, <1>8 DEF VInv

LEMMA UnlockValues == ASSUME IInv, VInv, NEW t \in Thread, Unlock(t) PROVE VInv'
<1>1. /\ pc[t] = "unlock" /\ UNCHANGED <<call, progress, stores, values, mutex_events>>
      /\ UNCHANGED <<scheduler, logical_time, events, present>>
  BY DEF Unlock, progress, values
<1>2. PICK l \in {"idle", "value"} : Goto(t, l) /\ (l = "idle" => call[t].action = NoAction)
  BY DEF Unlock
<1>3. CallInv'
  BY <1>1, <1>2, CallStep DEF Busy
<1>4. pc'[t] = l /\ \A s \in Thread : s # t => pc'[s] = pc[s]
  BY <1>2 DEF Goto, IInv, ThreadInv
<1>5. \A b \in Action : \A x : Pending(b, x)' <=> Pending(b, x)
  BY <1>1, <1>2, <1>4, Threads DEF Pending
<1>6. \A b \in Action : \A x : Committed(b, x)' <=> Committed(b, x)
  BY <1>1, <1>5 DEF Committed
<1>7. StorageInv'
  BY <1>1, <1>4, <1>6, LocalStorage DEF VInv
<1>. QED
  BY <1>3, <1>7 DEF VInv

LEMMA ValueValues == ASSUME IInv, VInv, NEW t \in Thread, Value(t) PROVE VInv'
<1>1. /\ pc[t] = "value" /\ Goto(t, "idle") /\ mutex_events' = MutexesWithout(t)
      /\ events' = [events EXCEPT ![call[t].action] = @ \cup {call[t].tag}]
      /\ UNCHANGED <<call, progress, stores, present>> /\ UNCHANGED <<scheduler, logical_time>>
  BY DEF Value, progress
<1>2. CallInv'
  <2>1. \A a \in Action : \A tag \in events'[a] :
          tag \in events[a] \/ (a = call[t].action /\ tag = call[t].tag)
    BY <1>1 DEF IInv, ValueInv
  <2>. QED
    BY <1>1, <2>1, CallStep DEF Busy
<1>3. pc'[t] = "idle" /\ \A s \in Thread : s # t => pc'[s] = pc[s]
  BY <1>1 DEF Goto, IInv, ThreadInv
<1>4. ASSUME NEW b \in Action, NEW x PROVE Committed(b, x)' <=> Committed(b, x)
  <2>1. x \in events'[b] <=> x \in events[b] \/ (b = call[t].action /\ x = call[t].tag)
    BY <1>1 DEF IInv, ValueInv
  <2>2. Pending(b, x) <=> Pending(b, x)' \/ (b = call[t].action /\ x = call[t].tag)
    BY <1>1, <1>3 DEF Pending
  <2>. QED
    BY <2>1, <2>2 DEF Committed
<1>5. StorageInv'
  BY <1>1, <1>3, <1>4, LocalStorage DEF VInv
<1>. QED
  BY <1>2, <1>5 DEF VInv

LEMMA FindValues == ASSUME IInv, VInv, NEW t \in Thread, Find(t) PROVE VInv'
<1>1. /\ pc[t] = "find" /\ UNCHANGED <<progress, stores, values, locks>>
      /\ UNCHANGED <<scheduler, logical_time, events, present, mutex_events>>
  BY DEF Find, progress, values, locks
<1>2. PICK l \in {"unlock", "push_back", "emplace"} :
        Goto(t, l) /\ (l = "unlock" => call[t].action = NoAction)
  BY DEF Find, Inserted
<1>3. \A s \in Thread : /\ call'[s].action = call[s].action /\ call'[s].tag = call[s].tag
                        /\ s # t => call'[s] = call[s]
  BY DEF Find, Inserted, IInv, ThreadInv
<1>4. CallInv'
  <2>1. l \in Busy /\ scheduler # "start" => logical_time < call[t].tag
    BY <1>1 DEF VInv, CallInv, Busy
  <2>. QED
    BY <1>1, <1>2, <1>3, <2>1, CallStep
<1>5. pc'[t] = l /\ \A s \in Thread : s # t => pc'[s] = pc[s]
  BY <1>2 DEF Goto, IInv, ThreadInv
<1>6. \A b \in Action : \A x : Pending(b, x)' <=> Pending(b, x)
  BY <1>1, <1>2, <1>3, <1>5, Threads DEF Pending
<1>7. \A b \in Action : \A x : Committed(b, x)' <=> Committed(b, x)
  BY <1>1, <1>6 DEF Committed
<1>8. StorageInv'
  BY <1>1, <1>3, <1>5, <1>7, LocalStorage DEF VInv
<1>. QED
  BY <1>4, <1>8 DEF VInv

LEMMA QueuedLists ==
  ASSUME StoreInv, NEW tag \in DOMAIN event_queue
  PROVE  /\ tag \in Tag /\ event_queue[tag] \in DOMAIN lists /\ event_queue[tag] \in Range(event_queue)
         /\ lists[event_queue[tag]].write_pos \in Nat
BY ListsAreLists, ListFields DEF StoreInv, Range

(* What Emplace does to the lists and to the queue.                        *)
LEMMA EmplaceLists ==
  ASSUME IInv, VInv, NEW t \in Thread, Emplace(t)
  PROVE  /\ \A l \in DOMAIN lists : l \in DOMAIN lists' /\ lists'[l] = lists[l]
         /\ \A x \in DOMAIN event_queue : x \in DOMAIN event_queue' /\ event_queue'[x] = event_queue[x]
         /\ \A x \in DOMAIN event_queue' :
              x \in DOMAIN event_queue \/ (x = call[t].tag /\ lists'[event_queue'[x]].write_pos = 0)
         /\ \A l \in Range(action_list_pool') : lists'[l].write_pos = 0
<1>. DEFINE pool == Filled.pool
            all == Filled.lists
            mine == call[t].tag
<1>1. lists' = all
  BY DEF Emplace
<1>2. /\ DOMAIN lists \subseteq DOMAIN all
      /\ \A l \in DOMAIN lists : all[l] = lists[l]
      /\ pool \in Seq(DOMAIN all) /\ pool # <<>> /\ IsInjective(pool)
      /\ \A l \in Range(pool) : all[l].write_pos = 0
  <2>1. \A l \in Range(pool) : l \in DOMAIN lists => l \in Range(action_list_pool)
    BY FilledFacts DEF IInv, ListsOwnedOnce
  <2>2. /\ DOMAIN lists \subseteq DOMAIN all
        /\ \A l \in DOMAIN lists : all[l] = lists[l]
        /\ \A l \in DOMAIN all \ DOMAIN lists : all[l] = NewList
        /\ pool \in Seq(DOMAIN all) /\ pool # <<>> /\ IsInjective(pool) /\ Range(pool) \subseteq DOMAIN all
    BY FilledFacts DEF IInv
  <2>. HIDE DEF pool, all
  <2>3. \A l \in Range(pool) : all[l].write_pos = 0
    BY <2>1, <2>2, NewListType DEF VInv, StorageInv, CleanInv
  <2>. QED
    BY <2>2, <2>3
<1>. HIDE DEF pool, all
<1>3. /\ \A x \in DOMAIN event_queue : x \in DOMAIN event_queue' /\ event_queue'[x] = event_queue[x]
      /\ \A x \in DOMAIN event_queue' :
           x \in DOMAIN event_queue \/ (x = mine /\ event_queue'[x] \in Range(pool))
      /\ Range(action_list_pool') \subseteq Range(pool)
  <2>1. CASE mine \notin DOMAIN event_queue /\ EmplaceLast(t, pool)
    <3>1. /\ action_list_pool' = SubSeq(pool, 1, Len(pool) - 1)
          /\ event_queue' = [x \in DOMAIN event_queue \cup {mine} |->
                               IF x = mine THEN pool[Len(pool)] ELSE event_queue[x]]
      BY <2>1 DEF EmplaceLast
    <3>2. pool[Len(pool)] \in Range(pool) /\ Range(action_list_pool') \subseteq Range(pool)
      BY <3>1, <1>2, RangeOfFront DEF Range
    <3>. QED
      BY <3>1, <3>2, <2>1
  <2>2. CASE action_list_pool' = pool /\ UNCHANGED event_queue
    BY <2>2
  <2>. QED
    BY <2>1, <2>2 DEF Emplace, pool
<1>. QED
  BY <1>1, <1>2, <1>3

LEMMA EmplaceValues == ASSUME IInv, IInv', VInv, NEW t \in Thread, Emplace(t) PROVE VInv'
<1>. DEFINE mine == call[t].tag
<1>1. /\ pc[t] = "emplace" /\ UNCHANGED <<progress, values, locks>>
      /\ UNCHANGED <<scheduler, logical_time, triggered_actions, next_setup, events, present, mutex_events>>
  BY DEF Emplace, progress, values, locks
<1>2. /\ \A k \in DOMAIN lists : k \in DOMAIN lists' /\ lists'[k] = lists[k]
      /\ \A x \in DOMAIN event_queue : x \in DOMAIN event_queue' /\ event_queue'[x] = event_queue[x]
      /\ \A x \in DOMAIN event_queue' :
           x \in DOMAIN event_queue \/ (x = mine /\ lists'[event_queue'[x]].write_pos = 0)
      /\ \A k \in Range(action_list_pool') : lists'[k].write_pos = 0
      /\ mine \in Tag
  BY EmplaceLists, CallTypes DEF IInv
<1>3. PICK l \in {"unlock", "push_back"} : Goto(t, l) /\ (l = "unlock" => call[t].action = NoAction)
  BY DEF Emplace, EmplaceLast, Inserted
<1>4. \A s \in Thread : /\ call'[s].action = call[s].action /\ call'[s].tag = call[s].tag
                        /\ s # t => call'[s] = call[s]
  BY DEF Emplace, EmplaceLast, Inserted, IInv, ThreadInv
<1>5. pc'[t] = l /\ \A s \in Thread : s # t => pc'[s] = pc[s]
  BY <1>3 DEF Goto, IInv, ThreadInv
<1>6. scheduler # "start" => logical_time < mine
  BY <1>1 DEF VInv, CallInv, Busy
<1>7. CallInv'
  BY <1>1, <1>3, <1>4, <1>6, CallStep
<1>8. \A b \in Action : \A x : Committed(b, x)' <=> Committed(b, x)
  <2>1. \A b \in Action : \A x : Pending(b, x)' <=> Pending(b, x)
    BY <1>1, <1>3, <1>4, <1>5, Threads DEF Pending
  <2>. QED
    BY <1>1, <2>1 DEF Committed
<1>9. \A k, i : WriterAt(k, i)' <=> WriterAt(k, i)
  BY <1>1, <1>3, <1>4, <1>5 DEF WriterAt
<1>10. ASSUME NEW k \in DOMAIN lists PROVE \A i, a : Entry(k, i, a)' <=> Entry(k, i, a)
  BY <1>1, <1>2, <1>9, <1>10 DEF Entry
<1>11. FutureInv'
  BY <1>1, <1>2, <1>6 DEF VInv, StorageInv, FutureInv
<1>12. PositionInv'
  <2>1. \A s \in Thread : pc'[s] \in {"write", "grow"} =>
          /\ pc[s] = pc'[s] /\ call'[s] = call[s] /\ call[s].list \in DOMAIN lists
    BY <1>1, <1>3, <1>4, <1>5, WriterList
  <2>. QED
    BY <2>1, <1>1, <1>2 DEF VInv, StorageInv, PositionInv
<1>13. CleanInv'
  <2>1. \A k \in Range(action_list_pool)' : lists'[k].write_pos = 0
    BY <1>1, <1>2
  <2>2. triggered_actions # 0 => lists'[triggered_actions] = lists[triggered_actions]
    BY <1>1, <1>2 DEF IInv, SchedulerInv
  <2>. QED
    BY <1>1, <2>1, <2>2 DEF VInv, StorageInv, CleanInv
<1>14. CommittedInv'
  <2>1. SUFFICES ASSUME NEW a \in Action, NEW tag \in Tag, Committed(a, tag)
                 PROVE  (Queued(a, tag) \/ ToSetUp(a, tag))'
    BY <1>8 DEF CommittedInv
  <2>2. CASE Queued(a, tag)
    <3>1. /\ tag \in DOMAIN event_queue /\ event_queue[tag] \in DOMAIN lists
          /\ tag \in DOMAIN event_queue' /\ event_queue'[tag] = event_queue[tag]
      BY <2>2, <1>2, QueuedLists DEF Queued, IInv
    <3>2. PICK i \in Nat : Entry(event_queue[tag], i, a)
      BY <2>2 DEF Queued
    <3>3. Entry(event_queue[tag], i, a)'
      <4>1. \A k \in DOMAIN lists : k = event_queue'[tag] => Entry(k, i, a)'
        BY <3>1, <3>2, <1>10
      <4>. QED
        BY <4>1, <3>1 DEF Entry, WriterAt
    <3>. QED
      BY <3>1, <3>3 DEF Queued
  <2>3. CASE ToSetUp(a, tag)
    <3>1. triggered_actions \in DOMAIN lists
      BY <2>3 DEF ToSetUp, IInv, SchedulerInv
    <3>2. \A i : Entry(triggered_actions, i, a) => Entry(triggered_actions, i, a)'
      BY <1>1, <1>2, <1>9, <3>1 DEF Entry, WriterAt
    <3>. QED
      BY <2>3, <3>2, <1>1 DEF ToSetUp
  <2>. QED
    BY <2>1, <2>2, <2>3 DEF VInv, StorageInv, CommittedInv
<1>15. QueuedInv'
  <2>1. SUFFICES ASSUME NEW tag \in DOMAIN event_queue',
                        NEW i \in 0..(lists'[event_queue'[tag]].write_pos - 1)
                 PROVE  (WriterAt(event_queue[tag], i) \/ CommittedAt(event_queue[tag], i, tag))'
    BY DEF QueuedInv
  <2>2. tag \in DOMAIN event_queue /\ event_queue'[tag] = event_queue[tag]
    BY <1>1, <1>2
  <2>3. event_queue[tag] \in DOMAIN lists /\ lists'[event_queue[tag]] = lists[event_queue[tag]]
    BY <1>1, <1>2, <2>2, QueuedLists DEF IInv
  <2>4. WriterAt(event_queue[tag], i) \/ CommittedAt(event_queue[tag], i, tag)
    BY <2>1, <2>2, <2>3 DEF VInv, StorageInv, QueuedInv
  <2>5. WriterAt(event_queue[tag], i) => WriterAt(event_queue[tag], i)'
    BY <2>2, <1>1, <1>3, <1>4, <1>5 DEF WriterAt
  <2>6. CommittedAt(event_queue[tag], i, tag) => CommittedAt(event_queue[tag], i, tag)'
    BY <2>2, <2>3, <1>8 DEF CommittedAt
  <2>. QED
    BY <2>4, <2>5, <2>6
<1>16. SetupCommitted'
  <2>1. scheduler = "setup" => lists'[triggered_actions] = lists[triggered_actions]
    BY <1>1, <1>2 DEF IInv, SchedulerInv
  <2>. QED
    BY <2>1, <1>1, <1>8 DEF VInv, StorageInv, SetupCommitted, CommittedAt
<1>. QED
  BY <1>7, <1>11, <1>12, <1>13, <1>14, <1>15, <1>16 DEF VInv, StorageInv

(* A writer's list is in the queue, at the tag of its call only.           *)
LEMMA WriterTag ==
  ASSUME IInv, NEW t \in Thread, pc[t] \in {"push_back", "write", "grow"}
  PROVE  /\ call[t].tag \in DOMAIN event_queue /\ call[t].list = event_queue[call[t].tag]
         /\ \A tag \in DOMAIN event_queue : event_queue[tag] = call[t].list => tag = call[t].tag
         /\ call[t].list \notin Range(action_list_pool) /\ call[t].list # triggered_actions
<1>1. call[t].tag \in DOMAIN event_queue /\ call[t].list = event_queue[call[t].tag]
  BY DEF IInv, WriterInv
<1>2. call[t].list \in Range(event_queue)
  BY <1>1 DEF Range
<1>. QED
  BY <1>1, <1>2 DEF IInv, ListsOwnedOnce, IsInjective

LEMMA ReserveValues == ASSUME IInv, VInv, NEW t \in Thread, Reserve(t) PROVE VInv'
<1>. DEFINE l == call[t].list
            end == lists[l].write_pos
            list == [write_pos |-> end + 1, vector_size |-> lists[l].vector_size, vector |-> lists[l].vector]
<1>1. /\ pc[t] = "push_back" /\ Goto(t, "write") /\ call' = [call EXCEPT ![t].pos = end]
      /\ UNCHANGED <<progress, event_queue, action_list_pool, values, locks>>
      /\ UNCHANGED <<scheduler, logical_time, triggered_actions, next_setup, events, present, mutex_events>>
  BY DEF Reserve, progress, values, locks
<1>2. l \in DOMAIN lists /\ lists[l] \in ActionList /\ end \in Nat
  BY <1>1, WriterList, ListFields
<1>3. DOMAIN lists' = DOMAIN lists /\ \A k \in DOMAIN lists : lists'[k] = IF k = l THEN list ELSE lists[k]
  <2>1. lists' = [lists EXCEPT ![l].write_pos = end + 1]
    BY DEF Reserve
  <2>2. [lists[l] EXCEPT !.write_pos = end + 1] = list
    BY <1>2, ChangedFields
  <2>. QED
    BY <2>1, <2>2
<1>4. /\ \A k \in DOMAIN lists : /\ lists'[k].vector_size = lists[k].vector_size
                                 /\ lists'[k].vector = lists[k].vector
                                 /\ k # l => lists'[k] = lists[k]
      /\ lists'[l].write_pos = end + 1
  BY <1>2, <1>3
<1>5. /\ pc'[t] = "write" /\ call'[t].pos = end /\ call'[t].list = l
      /\ \A s \in Thread : s # t => pc'[s] = pc[s] /\ call'[s] = call[s]
      /\ \A s \in Thread : call'[s].action = call[s].action /\ call'[s].tag = call[s].tag
  BY <1>1 DEF Goto, IInv, ThreadInv
<1>6. /\ call[t].tag \in DOMAIN event_queue /\ l = event_queue[call[t].tag]
      /\ \A tag \in DOMAIN event_queue : event_queue[tag] = l => tag = call[t].tag
      /\ l \notin Range(action_list_pool) /\ l # triggered_actions
  BY <1>1, WriterTag
<1>. HIDE DEF list, l, end
<1>7. CallInv'
  <2>1. scheduler # "start" => logical_time < call[t].tag
    BY <1>1 DEF VInv, CallInv, Busy
  <2>. QED
    BY <1>1, <1>5, <2>1, CallStep
<1>8. \A b \in Action : \A x : Committed(b, x)' <=> Committed(b, x)
  <2>1. \A b \in Action : \A x : Pending(b, x)' <=> Pending(b, x)
    BY <1>1, <1>5 DEF Pending
  <2>. QED
    BY <1>1, <2>1 DEF Committed
<1>9. /\ \A k, i : WriterAt(k, i) => WriterAt(k, i)'
      /\ \A k, i : WriterAt(k, i)' => WriterAt(k, i) \/ (k = l /\ i = end)
  BY <1>1, <1>5 DEF WriterAt
<1>10. ASSUME NEW k \in DOMAIN lists, NEW i \in Nat, NEW a, Entry(k, i, a) PROVE Entry(k, i, a)'
  <2>1. i \in 0..(lists'[k].write_pos - 1) /\ ~(k = l /\ i = end)
    BY <1>10, <1>2, <1>4 DEF Entry, end
  <2>. QED
    BY <2>1, <1>4, <1>9, <1>10 DEF Entry
<1>11. FutureInv'
  BY <1>1 DEF VInv, StorageInv, FutureInv
<1>12. PositionInv'
  <2>1. ASSUME NEW s \in Thread, pc'[s] \in {"write", "grow"}
        PROVE  /\ call'[s].pos < lists'[call'[s].list].write_pos
               /\ s # t => /\ pc[s] \in {"write", "grow"} /\ call'[s] = call[s]
                           /\ call[s].list = l => call[s].pos < end
    <3>1. CASE s = t
      BY <3>1, <1>2, <1>4, <1>5
    <3>2. CASE s # t
      <4>1. /\ pc[s] \in {"write", "grow"} /\ call'[s] = call[s] /\ call[s].list \in DOMAIN lists
            /\ call[s].pos \in Nat /\ call[s].pos < lists[call[s].list].write_pos
        BY <3>2, <2>1, <1>5, WriterList DEF VInv, StorageInv, PositionInv
      <4>. QED
        BY <4>1, <1>2, <1>4 DEF end
    <3>. QED
      BY <3>1, <3>2
  <2>2. ASSUME NEW r \in Thread, NEW s \in Thread, pc'[r] \in {"write", "grow"}, pc'[s] \in {"write", "grow"},
               call'[r].list = call'[s].list, call'[r].pos = call'[s].pos
        PROVE  r = s
    <3>1. CASE r = t \/ s = t
      BY <3>1, <2>1, <2>2, <1>2, <1>5
    <3>2. CASE r # t /\ s # t
      BY <3>2, <2>1, <2>2 DEF VInv, StorageInv, PositionInv
    <3>. QED
      BY <3>1, <3>2
  <2>. QED
    BY <2>1, <2>2 DEF PositionInv
<1>13. CleanInv'
  <2>1. \A k \in Range(action_list_pool) : k \in DOMAIN lists /\ lists'[k] = lists[k]
    BY <1>4, <1>6 DEF IInv, ListsOwnedOnce
  <2>2. triggered_actions # 0 => lists'[triggered_actions] = lists[triggered_actions]
    BY <1>4, <1>6 DEF IInv, SchedulerInv
  <2>. QED
    BY <2>1, <2>2, <1>1 DEF VInv, StorageInv, CleanInv
<1>14. CommittedInv'
  <2>1. SUFFICES ASSUME NEW a \in Action, NEW tag \in Tag, Committed(a, tag)
                 PROVE  (Queued(a, tag) \/ ToSetUp(a, tag))'
    BY <1>8 DEF CommittedInv
  <2>2. CASE Queued(a, tag)
    <3>1. PICK i \in Nat : Entry(event_queue[tag], i, a)
      BY <2>2 DEF Queued
    <3>2. event_queue[tag] \in DOMAIN lists /\ tag \in DOMAIN event_queue
      BY <2>2, QueuedLists DEF Queued, IInv
    <3>3. \A k \in DOMAIN lists : k = event_queue'[tag] => Entry(k, i, a)'
      BY <3>1, <3>2, <1>1, <1>10
    <3>4. Entry(event_queue[tag], i, a)'
      BY <3>2, <3>3, <1>1 DEF Entry, WriterAt
    <3>. QED
      BY <3>2, <3>4, <1>1 DEF Queued
  <2>3. CASE ToSetUp(a, tag)
    <3>1. triggered_actions \in DOMAIN lists
      BY <2>3 DEF ToSetUp, IInv, SchedulerInv
    <3>2. PICK i \in Nat : next_setup <= i /\ Entry(triggered_actions, i, a)
      BY <2>3 DEF ToSetUp
    <3>3. \A k \in DOMAIN lists : k = triggered_actions => Entry(k, i, a)'
      BY <3>2, <1>10
    <3>4. Entry(triggered_actions, i, a)'
      BY <3>1, <3>3, <1>1 DEF Entry, WriterAt
    <3>. QED
      BY <2>3, <3>2, <3>4, <1>1 DEF ToSetUp
  <2>. QED
    BY <2>1, <2>2, <2>3 DEF VInv, StorageInv, CommittedInv
<1>15. QueuedInv'
  <2>1. SUFFICES ASSUME NEW tag \in DOMAIN event_queue, NEW i \in 0..(lists'[event_queue[tag]].write_pos - 1)
                 PROVE  (WriterAt(event_queue[tag], i) \/ CommittedAt(event_queue[tag], i, tag))'
    BY <1>1 DEF QueuedInv
  <2>2. event_queue[tag] \in DOMAIN lists /\ event_queue' = event_queue
    BY <1>1, QueuedLists DEF IInv
  <2>3. CASE event_queue[tag] = l /\ i = end
    BY <2>2, <2>3, <1>5 DEF WriterAt
  <2>4. CASE ~(event_queue[tag] = l /\ i = end)
    <3>1. i \in 0..(lists[event_queue[tag]].write_pos - 1)
      BY <2>2, <2>4, <1>2, <1>4 DEF end
    <3>2. WriterAt(event_queue[tag], i) \/ CommittedAt(event_queue[tag], i, tag)
      BY <3>1 DEF VInv, StorageInv, QueuedInv
    <3>3. WriterAt(event_queue[tag], i) => WriterAt(event_queue[tag], i)'
      BY <2>2, <1>1, <1>5 DEF WriterAt
    <3>4. CommittedAt(event_queue[tag], i, tag) => CommittedAt(event_queue[tag], i, tag)'
      BY <2>2, <1>4, <1>8 DEF CommittedAt
    <3>. QED
      BY <3>2, <3>3, <3>4
  <2>. QED
    BY <2>3, <2>4
<1>16. SetupCommitted'
  <2>1. scheduler = "setup" => lists'[triggered_actions] = lists[triggered_actions]
    BY <1>4, <1>6 DEF IInv, SchedulerInv
  <2>. QED
    BY <2>1, <1>1, <1>8 DEF VInv, StorageInv, SetupCommitted, CommittedAt
<1>. QED
  BY <1>7, <1>11, <1>12, <1>13, <1>14, <1>15, <1>16 DEF VInv, StorageInv

LEMMA WritesValues ==
  ASSUME IInv, VInv, NEW t \in Thread, NEW list \in ActionList, Writes(t, list)
  PROVE  VInv'
<1>. DEFINE l == call[t].list
            pos == call[t].pos
<1>1. /\ pc[t] \in {"write", "grow"} /\ UNCHANGED call
      /\ UNCHANGED <<progress, event_queue, action_list_pool, values, locks>>
      /\ UNCHANGED <<scheduler, logical_time, triggered_actions, next_setup, events, present, mutex_events>>
      /\ lists' = [lists EXCEPT ![l] = list] /\ list.write_pos = lists[l].write_pos
      /\ lists[l].vector_size <= list.vector_size /\ pos < list.vector_size
      /\ list.vector[pos] = call[t].action
      /\ \A i \in 0..(lists[l].vector_size - 1) : i # pos => list.vector[i] = lists[l].vector[i]
  BY DEF Writes, progress, values, locks
<1>2. /\ l \in DOMAIN lists /\ lists[l] \in ActionList /\ call[t].action \in Action /\ pos \in Nat
      /\ lists[l].write_pos \in Nat /\ lists[l].vector_size \in Nat /\ list.vector_size \in Nat
      /\ pos < lists[l].write_pos
  BY <1>1, WriterList, ListFields DEF VInv, StorageInv, PositionInv
<1>3. /\ call[t].tag \in DOMAIN event_queue /\ l = event_queue[call[t].tag]
      /\ \A tag \in DOMAIN event_queue : event_queue[tag] = l => tag = call[t].tag
      /\ l \notin Range(action_list_pool) /\ l # triggered_actions
  BY <1>1, WriterTag
<1>4. PICK next \in {"unlock", "value"} : Goto(t, next)
  BY DEF Writes, Written
<1>5. pc'[t] = next /\ \A s \in Thread : s # t => pc'[s] = pc[s]
  BY <1>4 DEF Goto, IInv, ThreadInv
<1>6. DOMAIN lists' = DOMAIN lists /\ \A k \in DOMAIN lists : lists'[k] = IF k = l THEN list ELSE lists[k]
  BY <1>1, <1>2
<1>. HIDE DEF l, pos
<1>7. CallInv'
  BY <1>1, <1>4, CallStep DEF Busy
<1>8. \A b \in Action : \A x : Committed(b, x)' <=> Committed(b, x) \/ (b = call[t].action /\ x = call[t].tag)
  <2>1. \A b \in Action : \A x : Pending(b, x)' <=> Pending(b, x) \/ (b = call[t].action /\ x = call[t].tag)
    BY <1>1, <1>5 DEF Pending
  <2>. QED
    BY <1>1, <2>1 DEF Committed
<1>9. /\ \A k, i : WriterAt(k, i)' => WriterAt(k, i)
      /\ \A k, i : WriterAt(k, i) => WriterAt(k, i)' \/ (k = l /\ i = pos)
      /\ WriterAt(l, pos) /\ \A k, i : k = l /\ i = pos => ~WriterAt(k, i)'
  <2>1. \A s \in Thread : s # t /\ pc[s] \in {"write", "grow"} /\ call[s].list = l => call[s].pos # pos
    BY <1>1 DEF VInv, StorageInv, PositionInv, l, pos
  <2>2. \A k, i : k = l /\ i = pos => ~WriterAt(k, i)'
    BY <2>1, <1>1, <1>5 DEF WriterAt, l, pos
  <2>. QED
    BY <2>2, <1>1, <1>5 DEF WriterAt, l, pos
<1>10. ASSUME NEW k \in DOMAIN lists, NEW i \in Nat, NEW a, Entry(k, i, a) PROVE Entry(k, i, a)'
  <2>1. ~WriterAt(k, i)' /\ ~(k = l /\ i = pos)
    BY <1>9, <1>10 DEF Entry
  <2>2. CASE k = l
    <3>1. /\ i \in 0..(lists[l].write_pos - 1) /\ i < lists[l].vector_size /\ lists[l].vector[i] = a
          /\ i \in 0..(lists[l].vector_size - 1) /\ i # pos
      BY <2>1, <2>2, <1>2, <1>10 DEF Entry
    <3>2. list.vector[i] = a /\ i < list.vector_size
      BY <3>1, <1>1, <1>2
    <3>. QED
      BY <3>1, <3>2, <2>1, <2>2, <1>1, <1>6 DEF Entry
  <2>3. CASE k # l
    BY <2>1, <2>3, <1>6, <1>10 DEF Entry
  <2>. QED
    BY <2>2, <2>3
<1>11. FutureInv'
  BY <1>1 DEF VInv, StorageInv, FutureInv
<1>12. PositionInv'
  <2>1. \A s \in Thread : pc'[s] \in {"write", "grow"} =>
          /\ pc[s] \in {"write", "grow"} /\ call[s].list \in DOMAIN lists
          /\ lists'[call[s].list].write_pos = lists[call[s].list].write_pos
    BY <1>1, <1>5, <1>6, WriterList
  <2>. QED
    BY <2>1, <1>1 DEF VInv, StorageInv, PositionInv
<1>13. CleanInv'
  <2>1. \A k \in Range(action_list_pool) : lists'[k] = lists[k]
    BY <1>3, <1>6 DEF IInv, ListsOwnedOnce
  <2>2. triggered_actions # 0 => lists'[triggered_actions] = lists[triggered_actions]
    BY <1>3, <1>6 DEF IInv, SchedulerInv
  <2>. QED
    BY <2>1, <2>2, <1>1 DEF VInv, StorageInv, CleanInv
<1>14. CommittedInv'
  <2>1. SUFFICES ASSUME NEW a \in Action, NEW tag \in Tag, Committed(a, tag)'
                 PROVE  (Queued(a, tag) \/ ToSetUp(a, tag))'
    BY DEF CommittedInv
  <2>2. CASE a = call[t].action /\ tag = call[t].tag
    <3>1. /\ pos \in 0..(lists'[l].write_pos - 1) /\ pos < lists'[l].vector_size /\ lists'[l].vector[pos] = a
      BY <2>2, <1>1, <1>2, <1>6
    <3>2. \A k, i : k = l /\ i = pos => Entry(k, i, a)'
      BY <3>1, <1>9 DEF Entry
    <3>3. tag \in DOMAIN event_queue' /\ event_queue'[tag] = l
      BY <2>2, <1>1, <1>3
    <3>4. \A i : i = pos => Entry(event_queue[tag], i, a)'
      BY <3>2, <3>3 DEF Entry, WriterAt
    <3>5. PICK i \in Nat : i = pos
      BY <1>2
    <3>. QED
      BY <3>3, <3>4, <3>5 DEF Queued
  <2>3. CASE Queued(a, tag)
    <3>1. PICK i \in Nat : Entry(event_queue[tag], i, a)
      BY <2>3 DEF Queued
    <3>2. event_queue[tag] \in DOMAIN lists /\ tag \in DOMAIN event_queue
      BY <2>3, QueuedLists DEF Queued, IInv
    <3>3. \A k \in DOMAIN lists : k = event_queue'[tag] => Entry(k, i, a)'
      BY <3>1, <3>2, <1>1, <1>10
    <3>4. Entry(event_queue[tag], i, a)'
      BY <3>2, <3>3, <1>1 DEF Entry, WriterAt
    <3>. QED
      BY <3>2, <3>4, <1>1 DEF Queued
  <2>4. CASE ToSetUp(a, tag)
    <3>1. triggered_actions \in DOMAIN lists
      BY <2>4 DEF ToSetUp, IInv, SchedulerInv
    <3>2. PICK i \in Nat : next_setup <= i /\ Entry(triggered_actions, i, a)
      BY <2>4 DEF ToSetUp
    <3>3. \A k \in DOMAIN lists : k = triggered_actions => Entry(k, i, a)'
      BY <3>2, <1>10
    <3>4. Entry(triggered_actions, i, a)'
      BY <3>1, <3>3, <1>1 DEF Entry, WriterAt
    <3>. QED
      BY <2>4, <3>2, <3>4, <1>1 DEF ToSetUp
  <2>. QED
    BY <2>1, <2>2, <2>3, <2>4, <1>8 DEF VInv, StorageInv, CommittedInv
<1>15. QueuedInv'
  <2>1. SUFFICES ASSUME NEW tag \in DOMAIN event_queue, NEW i \in 0..(lists'[event_queue[tag]].write_pos - 1)
                 PROVE  (WriterAt(event_queue[tag], i) \/ CommittedAt(event_queue[tag], i, tag))'
    BY <1>1 DEF QueuedInv
  <2>2. event_queue[tag] \in DOMAIN lists /\ event_queue' = event_queue
    BY <1>1, QueuedLists DEF IInv
  <2>3. CASE event_queue[tag] = l /\ i = pos
    <3>1. tag = call[t].tag /\ lists'[l] = list
      BY <2>3, <1>2, <1>3, <1>6
    <3>2. \A k : k = event_queue'[tag] => CommittedAt(k, i, tag)'
      BY <2>2, <2>3, <3>1, <1>1, <1>2, <1>8 DEF CommittedAt
    <3>. QED
      BY <3>2, <2>2 DEF CommittedAt
  <2>4. CASE ~(event_queue[tag] = l /\ i = pos)
    <3>1. i \in 0..(lists[event_queue[tag]].write_pos - 1)
      BY <2>2, <1>1, <1>6
    <3>2. WriterAt(event_queue[tag], i) \/ CommittedAt(event_queue[tag], i, tag)
      BY <3>1 DEF VInv, StorageInv, QueuedInv
    <3>3. WriterAt(event_queue[tag], i) => WriterAt(event_queue[tag], i)'
      BY <2>2, <2>4, <1>1, <1>5 DEF WriterAt, l, pos
    <3>4. CommittedAt(event_queue[tag], i, tag) => CommittedAt(event_queue[tag], i, tag)'
      <4>1. CASE event_queue[tag] = l
        <5>1. ASSUME CommittedAt(event_queue[tag], i, tag)
              PROVE  i < list.vector_size /\ list.vector[i] = lists[l].vector[i]
          <6>1. i \in 0..(lists[l].vector_size - 1) /\ i # pos
            BY <5>1, <4>1, <2>4, <1>2 DEF CommittedAt
          <6>. QED
            BY <6>1, <1>1, <1>2
        <5>. QED
          BY <5>1, <4>1, <2>2, <1>6, <1>8 DEF CommittedAt
      <4>2. CASE event_queue[tag] # l
        BY <4>2, <2>2, <1>6, <1>8 DEF CommittedAt
      <4>. QED
        BY <4>1, <4>2
    <3>. QED
      BY <3>2, <3>3, <3>4
  <2>. QED
    BY <2>3, <2>4
<1>16. SetupCommitted'
  <2>1. scheduler = "setup" => lists'[triggered_actions] = lists[triggered_actions]
    BY <1>3, <1>6 DEF IInv, SchedulerInv
  <2>. QED
    BY <2>1, <1>1, <1>8 DEF VInv, StorageInv, SetupCommitted, CommittedAt
<1>. QED
  BY <1>7, <1>11, <1>12, <1>13, <1>14, <1>15, <1>16 DEF VInv, StorageInv

LEMMA WriteValues == ASSUME IInv, VInv, NEW t \in Thread, Write(t) PROVE VInv'
<1>1. CASE ~(Goto(t, "grow") /\ UNCHANGED lists)
  BY <1>1, WriteWrites, WritesValues
<1>2. CASE Goto(t, "grow") /\ UNCHANGED lists
  <2>1. /\ pc[t] = "write" /\ UNCHANGED call /\ UNCHANGED <<progress, stores, present>>
        /\ UNCHANGED <<scheduler, logical_time, events, mutex_events>>
    BY <1>2 DEF Write, progress, values, stores, locks
  <2>2. pc'[t] = "grow" /\ \A s \in Thread : s # t => pc'[s] = pc[s]
    BY <1>2 DEF Goto, IInv, ThreadInv
  <2>3. CallInv'
    <3>1. scheduler # "start" => logical_time < call[t].tag
      BY <2>1 DEF VInv, CallInv, Busy
    <3>. QED
      BY <1>2, <2>1, <3>1, CallStep
  <2>4. \A b \in Action : \A x : Committed(b, x)' <=> Committed(b, x)
    <3>1. \A b \in Action : \A x : Pending(b, x)' <=> Pending(b, x)
      BY <2>1, <2>2 DEF Pending
    <3>. QED
      BY <2>1, <3>1 DEF Committed
  <2>5. StorageInv'
    BY <2>1, <2>2, <2>4, LocalStorage DEF VInv
  <2>. QED
    BY <2>3, <2>5 DEF VInv
<1>. QED
  BY <1>1, <1>2

LEMMA GrowValues == ASSUME IInv, VInv, NEW t \in Thread, Grow(t) PROVE VInv'
BY GrowWrites, WritesValues

-----------------------------------------------------------------------------
(* Values: the steps of the scheduler *)

(* A step of the scheduler that leaves the lists and what is committed,    *)
(* while no thread writes.                                                 *)
LEMMA KeepStorage ==
  ASSUME UNCHANGED <<pc, call, lists>>
  PROVE  /\ \A l, i : WriterAt(l, i)' <=> WriterAt(l, i)
         /\ \A l, i, a : Entry(l, i, a)' <=> Entry(l, i, a)
<1>1. \A l, i : WriterAt(l, i)' <=> WriterAt(l, i)
  BY DEF WriterAt
<1>. QED
  BY <1>1 DEF Entry

LEMMA NobodyWrites ==
  ASSUME IInv, scheduling_mutex = NoOne, scheduler # "react"
  PROVE  /\ \A t \in Thread : pc[t] \notin Busy
         /\ \A l, i : ~WriterAt(l, i)
<1>1. ASSUME NEW t \in Worker PROVE pc[t] = "idle"
  BY DEF IInv, PhaseInv
<1>2. ASSUME NEW t \in Other PROVE pc[t] \notin Locked
  BY Threads DEF IInv, PhaseInv
<1>3. \A t \in Thread : pc[t] \notin Busy
  BY <1>1, <1>2, Threads DEF Locked, Busy
<1>. QED
  BY <1>3 DEF WriterAt, Busy

LEMMA CommittedEarly ==
  ASSUME VInv, scheduler = "start", NEW a \in Action, NEW tag, Committed(a, tag)
  PROVE  start_tag <= tag
<1>1. CASE tag \in events[a]
  BY <1>1 DEF VInv, CallInv
<1>2. CASE Pending(a, tag)
  BY <1>2 DEF VInv, CallInv, Pending
<1>. QED
  BY <1>1, <1>2 DEF Committed

LEMMA StartValues == ASSUME IInv, VInv, Start PROVE VInv'
<1>. DEFINE early == {tag \in DOMAIN event_queue : tag < start_tag}
<1>1. /\ scheduler = "start" /\ scheduling_mutex = NoOne /\ logical_time' = start_tag - 1 /\ scheduler' = "next"
      /\ event_queue' = [tag \in DOMAIN event_queue \ early |-> event_queue[tag]]
      /\ UNCHANGED <<pc, call, lists>> /\ UNCHANGED <<triggered_actions, next_setup, events, present, mutex_events>>
  BY DEF Start, values, locks
<1>2. \A l \in Range(action_list_pool') : l \in Range(action_list_pool) \/ \E tag \in early : l = event_queue[tag]
  <2>1. PICK order \in [1..Cardinality(early) -> early] :
          action_list_pool' = action_list_pool \o [i \in DOMAIN order |-> event_queue[order[i]]]
    BY DEF Start
  <2>. DEFINE n == Cardinality(early)
              discarded == [i \in DOMAIN order |-> event_queue[order[i]]]
  <2>2. early \in SUBSET Tag /\ event_queue \in [DOMAIN event_queue -> DOMAIN lists]
    BY DEF IInv, StoreInv
  <2>3. n \in Nat
    <3>. HIDE DEF early
    <3>. QED
      BY <2>2, EarlyTags
  <2>4. discarded \in [1..n -> DOMAIN lists] /\ \A i \in 1..n : \E tag \in early : discarded[i] = event_queue[tag]
    BY <2>1, <2>2
  <2>5. discarded \in Seq(DOMAIN lists) /\ Len(discarded) = n
    <3>. HIDE DEF n, discarded
    <3>1. discarded \in Seq(DOMAIN lists)
      BY <2>3, <2>4, SeqDef
    <3>. QED
      BY <2>3, <2>4, <3>1, LenProperties
  <2>6. action_list_pool \in Seq(DOMAIN lists)
    BY DEF IInv, StoreInv
  <2>. HIDE DEF n, discarded, early
  <2>7. action_list_pool' = action_list_pool \o discarded
    BY <2>1 DEF discarded
  <2>8. /\ Len(action_list_pool) \in Nat /\ DOMAIN action_list_pool = 1..Len(action_list_pool)
        /\ action_list_pool' \in Seq(DOMAIN lists) /\ Len(action_list_pool') = Len(action_list_pool) + n
        /\ \A i \in 1..(Len(action_list_pool) + n) :
             action_list_pool'[i] = IF i <= Len(action_list_pool) THEN action_list_pool[i]
                                    ELSE discarded[i - Len(action_list_pool)]
    BY <2>5, <2>6, <2>7, ConcatProperties, LenProperties
  <2>9. DOMAIN action_list_pool' = 1..(Len(action_list_pool) + n)
    BY <2>8, LenProperties
  <2>10. ASSUME NEW i \in DOMAIN action_list_pool'
         PROVE  \/ action_list_pool'[i] \in Range(action_list_pool)
                \/ \E tag \in early : action_list_pool'[i] = event_queue[tag]
    <3>1. CASE i <= Len(action_list_pool)
      BY <3>1, <2>8, <2>9 DEF Range
    <3>2. CASE ~(i <= Len(action_list_pool))
      <4>1. i - Len(action_list_pool) \in 1..n
        BY <3>2, <2>3, <2>8, <2>9
      <4>. QED
        BY <3>2, <4>1, <2>4, <2>8, <2>9
    <3>. QED
      BY <3>1, <3>2
  <2>. QED
    BY <2>10 DEF Range
<1>3. \A x \in DOMAIN event_queue' : /\ x \in DOMAIN event_queue /\ event_queue'[x] = event_queue[x]
                                     /\ x \in Nat /\ start_tag <= x
  <2>1. ASSUME NEW x \in DOMAIN event_queue' PROVE x \in Nat
    BY <1>1, QueuedLists, EarlyTags DEF IInv
  <2>. QED
    BY <1>1, <2>1, BoundsAssumption DEF Tag
<1>4. \A x \in DOMAIN event_queue : start_tag <= x => x \in DOMAIN event_queue' /\ event_queue'[x] = event_queue[x]
  BY <1>1, QueuedLists, EarlyTags, BoundsAssumption DEF IInv, Tag
<1>5. (\A t \in Thread : pc[t] \notin Busy) /\ (\A l, i : ~WriterAt(l, i))
  BY <1>1, NobodyWrites
<1>6. \A x \in early : lists[event_queue[x]].write_pos = 0
  <2>1. ASSUME NEW x \in early, lists[event_queue[x]].write_pos # 0 PROVE FALSE
    <3>1. x \in DOMAIN event_queue /\ x \in Nat /\ lists[event_queue[x]].write_pos \in Nat
      BY QueuedLists, EarlyTags DEF IInv
    <3>2. 0 \in 0..(lists[event_queue[x]].write_pos - 1)
      BY <2>1, <3>1
    <3>3. CommittedAt(event_queue[x], 0, x)
      BY <3>1, <3>2, <1>5 DEF VInv, StorageInv, QueuedInv
    <3>4. start_tag <= x
      BY <3>3, <1>1, CommittedEarly DEF CommittedAt
    <3>. QED
      BY <3>1, <3>4, BoundsAssumption DEF Tag
  <2>. QED
    BY <2>1
<1>. HIDE DEF early
<1>7. CallInv'
  BY <1>1, <1>5 DEF VInv, CallInv
<1>8. \A b \in Action : \A x : Committed(b, x)' <=> Committed(b, x)
  BY <1>1 DEF Committed, Pending
<1>9. FutureInv'
  <2>1. start_tag \in Nat
    BY BoundsAssumption DEF Tag
  <2>. QED
    BY <1>1, <1>3, <2>1 DEF FutureInv
<1>10. PositionInv'
  BY <1>1, <1>5 DEF PositionInv, Busy
<1>11. CleanInv'
  BY <1>1, <1>2, <1>6 DEF VInv, StorageInv, CleanInv
<1>12. CommittedInv'
  <2>1. SUFFICES ASSUME NEW a \in Action, NEW tag \in Tag, Committed(a, tag)
                 PROVE  (Queued(a, tag) \/ ToSetUp(a, tag))'
    BY <1>8 DEF CommittedInv
  <2>2. Queued(a, tag) /\ start_tag <= tag
    BY <2>1, <1>1, CommittedEarly DEF VInv, StorageInv, CommittedInv, ToSetUp
  <2>3. PICK i \in Nat : tag \in DOMAIN event_queue /\ Entry(event_queue[tag], i, a)
    BY <2>2 DEF Queued
  <2>4. tag \in DOMAIN event_queue' /\ event_queue'[tag] = event_queue[tag]
    BY <2>2, <2>3, <1>4
  <2>5. Entry(event_queue[tag], i, a)'
    BY <2>3, <2>4, <1>1 DEF Entry, WriterAt
  <2>. QED
    BY <2>4, <2>5 DEF Queued
<1>13. QueuedInv'
  <2>1. ASSUME NEW tag \in DOMAIN event_queue', NEW i \in 0..(lists[event_queue'[tag]].write_pos - 1)
        PROVE  CommittedAt(event_queue[tag], i, tag)'
    <3>1. CommittedAt(event_queue[tag], i, tag) /\ event_queue'[tag] = event_queue[tag]
      BY <2>1, <1>3, <1>5 DEF VInv, StorageInv, QueuedInv
    <3>. QED
      BY <3>1, <1>1, <1>8 DEF CommittedAt
  <2>. QED
    BY <2>1, <1>1 DEF QueuedInv
<1>14. SetupCommitted'
  BY <1>1 DEF SetupCommitted
<1>. QED
  BY <1>7, <1>9, <1>10, <1>11, <1>12, <1>13, <1>14 DEF VInv, StorageInv

LEMMA ExtractValues == ASSUME IInv, VInv, Extract PROVE VInv'
<1>1. /\ scheduler = "next" /\ scheduling_mutex = NoOne /\ action_list_pool' = ReturnList /\ next_setup' = 0
      /\ UNCHANGED <<pc, call, lists>> /\ UNCHANGED <<events, present, mutex_events>>
      /\ scheduler' \in {"next", "setup"}
  BY DEF Extract, values, locks
<1>2. (\A t \in Thread : pc[t] \notin Busy) /\ (\A l, i : ~WriterAt(l, i))
  BY <1>1, NobodyWrites
<1>3. \A b \in Action : \A x : Committed(b, x)' <=> Committed(b, x)
  BY <1>1 DEF Committed, Pending
<1>4. CallInv'
  BY <1>1, <1>2 DEF VInv, CallInv
<1>5. PositionInv'
  BY <1>1, <1>2 DEF PositionInv, Busy
<1>6. present = {} /\ \A l \in Range(action_list_pool') : lists[l].write_pos = 0
  BY <1>1, ReturnListFacts DEF VInv, StorageInv, CleanInv
<1>7. \A a \in Action, x \in Tag : Committed(a, x) => Queued(a, x)
  BY <1>1 DEF VInv, StorageInv, CommittedInv, ToSetUp
<1>8. CASE DOMAIN event_queue = {}
  <2>1. triggered_actions' = 0 /\ UNCHANGED <<event_queue, logical_time, scheduler>>
    BY <1>8 DEF Extract
  <2>2. FutureInv' /\ QueuedInv' /\ SetupCommitted' /\ CleanInv'
    BY <2>1, <1>1, <1>6, <1>8 DEF FutureInv, QueuedInv, SetupCommitted, CleanInv
  <2>3. CommittedInv'
    BY <1>3, <1>7, <1>8 DEF CommittedInv, Queued
  <2>. QED
    BY <2>2, <2>3, <1>4, <1>5 DEF VInv, StorageInv
<1>9. CASE DOMAIN event_queue # {}
  <2>. DEFINE first == Min(DOMAIN event_queue)
  <2>1. DOMAIN event_queue \in SUBSET Nat /\ DOMAIN event_queue \subseteq Tag
    BY EarlyTags DEF IInv, StoreInv
  <2>2. first \in DOMAIN event_queue /\ \A x \in DOMAIN event_queue : first <= x
    BY <1>9, <2>1, MinimumExists
  <2>3. /\ triggered_actions' = event_queue[first] /\ event_queue' = Remaining(first) /\ logical_time' = first
        /\ scheduler' = IF lists[event_queue[first]].write_pos = 0 THEN "next" ELSE "setup"
    BY <1>9 DEF Extract
  <2>. HIDE DEF first
  <2>4. /\ DOMAIN event_queue' = DOMAIN event_queue \ {first}
        /\ \A x \in DOMAIN event_queue' : event_queue'[x] = event_queue[x]
    BY <2>3 DEF Remaining
  <2>5. FutureInv'
    <3>1. ASSUME NEW x \in DOMAIN event_queue' PROVE first < x
      BY <2>1, <2>2, <2>4
    <3>. QED
      BY <3>1, <2>3 DEF FutureInv
  <2>6. CleanInv'
    BY <2>3, <1>1, <1>6 DEF CleanInv
  <2>7. CommittedInv'
    <3>1. SUFFICES ASSUME NEW a \in Action, NEW x \in Tag, Committed(a, x)
                   PROVE  (Queued(a, x) \/ ToSetUp(a, x))'
      BY <1>3 DEF CommittedInv
    <3>2. PICK i \in Nat : x \in DOMAIN event_queue /\ Entry(event_queue[x], i, a)
      BY <3>1, <1>7 DEF Queued
    <3>3. CASE x = first
      <4>1. lists[event_queue[first]].write_pos # 0
        BY <3>2, <3>3 DEF Entry
      <4>2. Entry(triggered_actions, i, a)'
        BY <3>2, <3>3, <2>3, <1>1 DEF Entry, WriterAt
      <4>. QED
        BY <4>1, <4>2, <3>3, <2>3, <1>1, <1>6 DEF ToSetUp
    <3>4. CASE x # first
      <4>1. x \in DOMAIN event_queue' /\ event_queue'[x] = event_queue[x]
        BY <3>2, <3>4, <2>4
      <4>2. Entry(event_queue[x], i, a)'
        BY <3>2, <4>1, <1>1 DEF Entry, WriterAt
      <4>. QED
        BY <4>1, <4>2 DEF Queued
    <3>. QED
      BY <3>3, <3>4
  <2>8. \A x \in DOMAIN event_queue : \A i \in 0..(lists[event_queue[x]].write_pos - 1) :
          CommittedAt(event_queue[x], i, x)
    BY <1>2 DEF VInv, StorageInv, QueuedInv
  <2>9. QueuedInv'
    <3>1. ASSUME NEW x \in DOMAIN event_queue', NEW i \in 0..(lists[event_queue'[x]].write_pos - 1)
          PROVE  CommittedAt(event_queue[x], i, x)'
      <4>1. CommittedAt(event_queue[x], i, x) /\ event_queue'[x] = event_queue[x]
        BY <3>1, <2>4, <2>8
      <4>. QED
        BY <4>1, <1>1, <1>3 DEF CommittedAt
    <3>. QED
      BY <3>1, <1>1 DEF QueuedInv
  <2>10. SetupCommitted'
    <3>1. ASSUME NEW i \in 0..(lists[event_queue[first]].write_pos - 1)
          PROVE  CommittedAt(triggered_actions, i, logical_time)'
      <4>1. CommittedAt(event_queue[first], i, first)
        BY <3>1, <2>2, <2>8
      <4>. QED
        BY <4>1, <2>3, <1>1, <1>3 DEF CommittedAt
    <3>. QED
      BY <3>1, <2>3, <1>1 DEF SetupCommitted
  <2>. QED
    BY <2>5, <2>6, <2>7, <2>9, <2>10, <1>4, <1>5 DEF VInv, StorageInv
<1>. QED
  BY <1>8, <1>9

(* An action that is set up has a value at the current tag, and none at an *)
(* earlier one, unless a thread still holds its mutex to store the value.  *)
LEMMA ValueOfSetup ==
  ASSUME IInv, VInv, scheduler = "setup", next_setup < lists[triggered_actions].write_pos,
         Triggered \notin present, ~(Triggered \in PhysicalAction /\ mutex_events[Triggered] # NoOne)
  PROVE  /\ Triggered \in Action /\ ~Pending(Triggered, logical_time)
         /\ logical_time \in events[Triggered] /\ Min(events[Triggered]) = logical_time
<1>1. Triggered \in Action
  BY TriggeredIsAction
<1>2. CommittedAt(triggered_actions, next_setup, logical_time)
  <2>1. triggered_actions \in DOMAIN lists /\ lists[triggered_actions] \in ActionList /\ next_setup \in Nat
    BY ListsAreLists DEF IInv, SchedulerInv
  <2>2. next_setup \in 0..(lists[triggered_actions].write_pos - 1) /\ next_setup <= next_setup
    BY <2>1, ListFields
  <2>. QED
    BY <2>2 DEF VInv, StorageInv, SetupCommitted, Triggered
<1>3. ~Pending(Triggered, logical_time)
  <2>1. ASSUME NEW t \in Thread, pc[t] \in {"unlock", "value"}, call[t].action = Triggered PROVE FALSE
    <3>1. t \notin Worker
      BY <2>1 DEF IInv, PhaseInv
    <3>2. Triggered \in PhysicalAction /\ mutex_events[Triggered] = t
      BY <2>1, <3>1, <1>1 DEF VInv, CallInv
    <3>. QED
      BY <3>2, Threads
  <2>. QED
    BY <2>1 DEF Pending
<1>4. logical_time \in events[Triggered]
  BY <1>2, <1>3 DEF CommittedAt, Committed, Triggered
<1>5. events[Triggered] \in SUBSET Tag
  BY <1>1 DEF IInv, ValueInv
<1>6. events[Triggered] \in SUBSET Nat
  BY <1>5, EarlyTags
<1>7. ASSUME NEW x \in events[Triggered] PROVE logical_time <= x
  <2>1. Queued(Triggered, x) \/ ToSetUp(Triggered, x)
    BY <1>1, <1>5 DEF VInv, StorageInv, CommittedInv, Committed
  <2>2. logical_time \in Nat /\ x \in Nat
    BY <1>6 DEF IInv, SchedulerInv
  <2>. QED
    BY <2>1, <2>2 DEF Queued, ToSetUp, VInv, StorageInv, FutureInv
<1>. DEFINE first == Min(events[Triggered])
<1>8. first \in events[Triggered] /\ first <= logical_time
  BY <1>4, <1>6, MinimumExists
<1>. HIDE DEF first
<1>9. first = logical_time
  BY <1>4, <1>6, <1>7, <1>8
<1>. QED
  BY <1>1, <1>3, <1>4, <1>9 DEF first

LEMMA SetupValues == ASSUME IInv, VInv, Setup PROVE VInv'
<1>. DEFINE it == Triggered
<1>1. /\ scheduler = "setup" /\ next_setup < lists[triggered_actions].write_pos
      /\ next_setup' = next_setup + 1 /\ next_setup \in Nat
      /\ UNCHANGED <<pc, call, lists>>
      /\ UNCHANGED <<scheduler, logical_time, triggered_actions, event_queue, action_list_pool, mutex_events>>
  BY DEF Setup, stores, locks, IInv, SchedulerInv
<1>2. it \in Action /\ it = lists[triggered_actions].vector[next_setup]
  BY <1>1, TriggeredIsAction DEF Triggered
<1>3. /\ present' = present \cup {it}
      /\ \A b \in Action : events'[b] \subseteq events[b]
      /\ \A b \in Action : \A x :
           Committed(b, x)' <=> Committed(b, x) /\ ~(b = it /\ x = logical_time /\ it \notin present)
  <2>1. CASE it \in present /\ UNCHANGED values
    <3>1. UNCHANGED <<events, present>>
      BY <2>1 DEF values
    <3>. QED
      BY <2>1, <3>1, <1>1 DEF Committed, Pending
  <2>2. CASE /\ it \notin present
             /\ it \in PhysicalAction => mutex_events[it] = NoOne
             /\ events' = [events EXCEPT ![it] = @ \ {Min(@)}]
             /\ present' = present \cup {it}
    <3>1. ~Pending(it, logical_time) /\ Min(events[it]) = logical_time
      BY <2>2, <1>1, ValueOfSetup
    <3>2. events \in [Action -> SUBSET Tag]
      BY DEF IInv, ValueInv
    <3>3. \A b \in Action : events'[b] = IF b = it THEN events[b] \ {logical_time} ELSE events[b]
      <4>. HIDE DEF it
      <4>. QED
        BY <2>2, <3>1, <3>2, <1>2
    <3>4. \A b, x : Pending(b, x)' <=> Pending(b, x)
      BY <1>1 DEF Pending
    <3>. HIDE DEF it
    <3>5. \A b \in Action : \A x :
            Committed(b, x)' <=> Committed(b, x) /\ ~(b = it /\ x = logical_time)
      BY <3>1, <3>3, <3>4 DEF Committed
    <3>. QED
      BY <2>2, <3>3, <3>5
  <2>. QED
    BY <2>1, <2>2 DEF Setup
<1>. HIDE DEF it
<1>4. CallInv'
  BY <1>1, <1>3 DEF VInv, CallInv
<1>5. FutureInv' /\ PositionInv'
  BY <1>1 DEF VInv, StorageInv, FutureInv, PositionInv
<1>6. CleanInv'
  BY <1>1 DEF VInv, StorageInv, CleanInv
<1>7. CommittedInv'
  <2>1. SUFFICES ASSUME NEW a \in Action, NEW tag \in Tag, Committed(a, tag)'
                 PROVE  (Queued(a, tag) \/ ToSetUp(a, tag))'
    BY DEF CommittedInv
  <2>2. Committed(a, tag) /\ ~(a = it /\ tag = logical_time /\ it \notin present)
    BY <2>1, <1>3
  <2>3. CASE Queued(a, tag)
    BY <2>3, <1>1 DEF Queued, Entry, WriterAt
  <2>4. CASE ToSetUp(a, tag)
    <3>1. PICK i \in Nat : next_setup <= i /\ Entry(triggered_actions, i, a)
      BY <2>4 DEF ToSetUp
    <3>2. tag = logical_time /\ a \notin present /\ a # it
      BY <2>2, <2>4 DEF ToSetUp
    <3>3. i # next_setup
      BY <3>1, <3>2, <1>2 DEF Entry
    <3>4. next_setup' <= i
      BY <3>1, <3>3, <1>1
    <3>5. Entry(triggered_actions, i, a)'
      BY <3>1, <1>1 DEF Entry, WriterAt
    <3>. QED
      BY <3>2, <3>4, <3>5, <1>1, <1>3 DEF ToSetUp
  <2>. QED
    BY <2>2, <2>3, <2>4 DEF VInv, StorageInv, CommittedInv
<1>8. QueuedInv'
  <2>1. ASSUME NEW tag \in DOMAIN event_queue, NEW i \in 0..(lists[event_queue[tag]].write_pos - 1)
        PROVE  (WriterAt(event_queue[tag], i) \/ CommittedAt(event_queue[tag], i, tag))'
    <3>1. WriterAt(event_queue[tag], i) \/ CommittedAt(event_queue[tag], i, tag)
      BY DEF VInv, StorageInv, QueuedInv
    <3>2. logical_time \in Nat /\ logical_time < tag
      BY <1>1 DEF VInv, StorageInv, FutureInv, IInv, SchedulerInv
    <3>3. CommittedAt(event_queue[tag], i, tag) => CommittedAt(event_queue[tag], i, tag)'
      BY <3>2, <1>1, <1>3 DEF CommittedAt
    <3>4. WriterAt(event_queue[tag], i) => WriterAt(event_queue[tag], i)'
      BY <1>1 DEF WriterAt
    <3>. QED
      BY <3>1, <3>3, <3>4
  <2>. QED
    BY <2>1, <1>1 DEF QueuedInv
<1>9. SetupCommitted'
  <2>1. ASSUME NEW i \in 0..(lists[triggered_actions].write_pos - 1), next_setup + 1 <= i
        PROVE  lists[triggered_actions].vector[i] \in present' \/ CommittedAt(triggered_actions, i, logical_time)'
    <3>1. next_setup <= i
      BY <2>1, <1>1
    <3>2. lists[triggered_actions].vector[i] \in present \/ CommittedAt(triggered_actions, i, logical_time)
      BY <3>1, <1>1 DEF VInv, StorageInv, SetupCommitted
    <3>3. CASE lists[triggered_actions].vector[i] \in present \cup {it}
      BY <3>3, <1>3
    <3>4. CASE lists[triggered_actions].vector[i] \notin present \cup {it}
      BY <3>2, <3>4, <1>1, <1>3 DEF CommittedAt
    <3>. QED
      BY <3>3, <3>4
  <2>. QED
    BY <2>1, <1>1 DEF SetupCommitted
<1>. QED
  BY <1>4, <1>5, <1>6, <1>7, <1>8, <1>9 DEF VInv, StorageInv

LEMMA EndSetupValues == ASSUME IInv, VInv, EndSetup PROVE VInv'
<1>1. /\ scheduler = "setup" /\ next_setup = lists[triggered_actions].write_pos /\ scheduler' = "react"
      /\ UNCHANGED <<pc, call, lists>>
      /\ UNCHANGED <<logical_time, triggered_actions, next_setup, event_queue, action_list_pool, events, present,
                     mutex_events>>
  BY DEF EndSetup, stores, values, locks
<1>2. CallInv' /\ FutureInv' /\ PositionInv' /\ CleanInv' /\ SetupCommitted'
  BY <1>1 DEF VInv, StorageInv, CallInv, FutureInv, PositionInv, CleanInv, SetupCommitted
<1>3. \A b \in Action : \A x : Committed(b, x)' <=> Committed(b, x)
  BY <1>1 DEF Committed, Pending
<1>4. QueuedInv'
  BY <1>1, <1>3 DEF VInv, StorageInv, QueuedInv, CommittedAt, WriterAt
<1>5. \A a \in Action, tag \in Tag : ~ToSetUp(a, tag)
  <2>1. next_setup \in Nat
    BY DEF IInv, SchedulerInv
  <2>. QED
    BY <2>1, <1>1 DEF ToSetUp, Entry
<1>6. \A a \in Action, tag \in Tag : Queued(a, tag) => Queued(a, tag)'
  BY <1>1 DEF Queued, Entry, WriterAt
<1>7. CommittedInv'
  BY <1>3, <1>5, <1>6 DEF VInv, StorageInv, CommittedInv
<1>. QED
  BY <1>2, <1>4, <1>7 DEF VInv, StorageInv

LEMMA CleanupValues == ASSUME IInv, VInv, Cleanup PROVE VInv'
<1>. DEFINE list == [lists[triggered_actions] EXCEPT !.write_pos = 0]
<1>1. /\ scheduler = "react" /\ scheduler' = "next" /\ present' = {}
      /\ lists' = [lists EXCEPT ![triggered_actions] = list]
      /\ UNCHANGED <<pc, call>>
      /\ UNCHANGED <<logical_time, triggered_actions, next_setup, event_queue, action_list_pool, events, mutex_events>>
  BY DEF Cleanup, locks
<1>2. /\ triggered_actions \in DOMAIN lists /\ lists[triggered_actions] \in ActionList
      /\ triggered_actions \notin Range(action_list_pool) \cup Range(event_queue)
  BY <1>1, ListsAreLists DEF IInv, SchedulerInv, ListsOwnedOnce
<1>3. list.write_pos = 0
  BY <1>2, ChangedFields
<1>. HIDE DEF list
<1>4. /\ lists'[triggered_actions].write_pos = 0
      /\ \A k \in DOMAIN lists : k # triggered_actions => lists'[k] = lists[k]
  BY <1>1, <1>2, <1>3
<1>5. \A x \in DOMAIN event_queue : /\ event_queue[x] \in DOMAIN lists
                                     /\ lists'[event_queue[x]] = lists[event_queue[x]]
  BY <1>2, <1>4, QueuedLists DEF IInv
<1>6. \A b \in Action : \A x : Committed(b, x)' <=> Committed(b, x)
  BY <1>1 DEF Committed, Pending
<1>7. CallInv' /\ FutureInv' /\ SetupCommitted'
  BY <1>1 DEF VInv, StorageInv, CallInv, FutureInv, SetupCommitted
<1>8. PositionInv'
  <2>1. ASSUME NEW t \in Thread, pc[t] \in {"write", "grow"}
        PROVE  lists'[call[t].list] = lists[call[t].list]
    BY <2>1, <1>4, WriterTag, WriterList
  <2>. QED
    BY <2>1, <1>1 DEF VInv, StorageInv, PositionInv
<1>9. CleanInv'
  <2>1. \A k \in Range(action_list_pool) : k \in DOMAIN lists /\ k # triggered_actions
    BY <1>2 DEF IInv, ListsOwnedOnce
  <2>. QED
    BY <2>1, <1>1, <1>4 DEF VInv, StorageInv, CleanInv
<1>10. CommittedInv'
  <2>1. SUFFICES ASSUME NEW a \in Action, NEW tag \in Tag, Committed(a, tag) PROVE Queued(a, tag)'
    BY <1>6 DEF CommittedInv
  <2>2. PICK i \in Nat : tag \in DOMAIN event_queue /\ Entry(event_queue[tag], i, a)
    BY <2>1, <1>1 DEF VInv, StorageInv, CommittedInv, Queued, ToSetUp
  <2>3. Entry(event_queue[tag], i, a)'
    BY <2>2, <1>1, <1>5 DEF Entry, WriterAt
  <2>. QED
    BY <2>2, <2>3, <1>1 DEF Queued
<1>11. QueuedInv'
  <2>1. ASSUME NEW tag \in DOMAIN event_queue, NEW i \in 0..(lists'[event_queue[tag]].write_pos - 1)
        PROVE  (WriterAt(event_queue[tag], i) \/ CommittedAt(event_queue[tag], i, tag))'
    <3>1. WriterAt(event_queue[tag], i) \/ CommittedAt(event_queue[tag], i, tag)
      BY <2>1, <1>5 DEF VInv, StorageInv, QueuedInv
    <3>2. CommittedAt(event_queue[tag], i, tag) => CommittedAt(event_queue[tag], i, tag)'
      BY <1>1, <1>5, <1>6 DEF CommittedAt
    <3>3. WriterAt(event_queue[tag], i) => WriterAt(event_queue[tag], i)'
      BY <1>1 DEF WriterAt
    <3>. QED
      BY <3>1, <3>2, <3>3
  <2>. QED
    BY <2>1, <1>1 DEF QueuedInv
<1>. QED
  BY <1>7, <1>8, <1>9, <1>10, <1>11 DEF VInv, StorageInv

LEMMA NextValues == ASSUME IInv, IInv', VInv, ~EarlyActions, [Next]_vars PROVE VInv'
<1>1. CASE UNCHANGED vars
  <2>1. UNCHANGED <<pc, call, progress, stores, values, mutex_events>>
    BY <1>1 DEF vars, locks
  <2>2. UNCHANGED <<scheduler, logical_time, events, present>>
    BY <2>1 DEF progress, values
  <2>3. \A b \in Action : \A x : Committed(b, x)' <=> Committed(b, x)
    BY <2>1, <2>2 DEF Committed, Pending
  <2>4. CallInv'
    BY <2>1, <2>2 DEF VInv, CallInv
  <2>5. StorageInv'
    BY <2>1, <2>2, <2>3, LocalStorage DEF VInv
  <2>. QED
    BY <2>4, <2>5 DEF VInv
<1>2. ASSUME NEW t \in Thread, Proceed(t) PROVE VInv'
  BY <1>2, LockValues, FindValues, EmplaceValues, ReserveValues, WriteValues, GrowValues, UnlockValues,
     ValueValues DEF Proceed
<1>3. CASE Process
  BY <1>3, ExtractValues, SetupValues, EndSetupValues DEF Process
<1>4. CASE Next
  BY <1>2, <1>3, <1>4, ScheduleValues, StartValues, CleanupValues DEF Next
<1>. QED
  BY <1>1, <1>4

(* When an action is set up it has a value, and its first value is that of *)
(* the current tag, for any number of threads, actions and tags, although  *)
(* the event enters the queue before the value is stored                   *)
(* (action_impl.hh:29-44, 62-82, 87-100).  Actions scheduled for a tag     *)
(* before the start tag are excluded: their values stay behind.            *)
THEOREM ValuesArrive == ASSUME ~EarlyActions PROVE Spec => []ValuesAtTheirTag
<1>1. Init => VInv
  BY InitValues
<1>2. IInv /\ IInv' /\ VInv /\ [Next]_vars => VInv'
  BY NextValues
<1>3. IInv /\ VInv => ValuesAtTheirTag
  BY ValueOfSetup, ListsAreLists DEF ValuesAtTheirTag, IInv, ValueInv
<1>. QED
  BY IInvHolds, <1>1, <1>2, <1>3, PTL DEF Spec

-----------------------------------------------------------------------------
(* What the lists hold.  For a tag that has not been reached, an action    *)
(* was scheduled as often as there are calls on their way plus entries     *)
(* that are written; at the tag that is processed no call is left.         *)
Going(a, tag) == {t \in Thread : pc[t] \in Busy /\ call[t].action = a /\ call[t].tag = tag}
Placed(a, tag) == {i \in Nat : tag \in DOMAIN event_queue /\ Entry(event_queue[tag], i, a)}
Held(a, tag) ==
  /\ IsFiniteSet(Going(a, tag)) /\ IsFiniteSet(Placed(a, tag))
  /\ scheduled[tag][a] = Cardinality(Going(a, tag)) + Cardinality(Placed(a, tag))
HeldInv ==
  /\ scheduled \in [Tag -> [Action -> Nat]]
  /\ scheduler = "start" => logical_time = 0
  /\ \A a \in Action, tag \in Tag : logical_time < tag => Held(a, tag)
  /\ scheduler \in {"setup", "react"} =>
       logical_time \in Tag /\ HoldsScheduled(triggered_actions, logical_time)

LEMMA InitHeld == ASSUME Init PROVE HeldInv
<1>1. /\ DOMAIN event_queue = {} /\ scheduler = "start" /\ logical_time = 0
      /\ \A t \in Thread : pc[t] = "idle"
      /\ scheduled = [tag \in Tag |-> [a \in Action |-> 0]]
  BY DEF Init
<1>2. ASSUME NEW a \in Action, NEW tag \in Tag PROVE Held(a, tag)
  <2>1. Going(a, tag) = {} /\ Placed(a, tag) = {} /\ scheduled[tag][a] = 0
    BY <1>1 DEF Going, Placed, Busy
  <2>. QED
    BY <2>1, FS_EmptySet DEF Held
<1>. QED
  BY <1>1, <1>2 DEF HeldInv

(* A step without effect on the calls on their way and on the entries.     *)
LEMMA KeepHeld ==
  ASSUME HeldInv, UNCHANGED <<scheduler, logical_time, triggered_actions, scheduled>>,
         scheduler \in {"setup", "react"} => lists'[triggered_actions] = lists[triggered_actions],
         \A a \in Action, tag \in Tag : Going(a, tag)' = Going(a, tag) /\ Placed(a, tag)' = Placed(a, tag)
  PROVE  HeldInv'
<1>1. ASSUME NEW a \in Action, NEW tag \in Tag, logical_time < tag PROVE Held(a, tag)'
  <2>1. Held(a, tag)
    BY <1>1 DEF HeldInv
  <2>. QED
    BY <2>1 DEF Held
<1>2. scheduler \in {"setup", "react"} => logical_time \in Tag /\ HoldsScheduled(triggered_actions, logical_time)'
  BY DEF HeldInv, HoldsScheduled
<1>. QED
  BY <1>1, <1>2 DEF HeldInv

LEMMA KeepPlaced ==
  ASSUME UNCHANGED <<event_queue, lists>>,
         \A t \in Thread : pc'[t] \in {"write", "grow"} <=> pc[t] \in {"write", "grow"},
         \A t \in Thread : pc[t] \in {"write", "grow"} => call'[t] = call[t]
  PROVE  \A a, tag : Placed(a, tag)' = Placed(a, tag)
<1>1. \A l, i : WriterAt(l, i)' <=> WriterAt(l, i)
  BY DEF WriterAt
<1>2. \A l, i, a : Entry(l, i, a)' <=> Entry(l, i, a)
  BY <1>1 DEF Entry
<1>. QED
  BY <1>2 DEF Placed

(* An action is counted when its call passes the check of the tag.         *)
LEMMA PromiseHeld ==
  ASSUME HeldInv, NEW t \in Thread, NEW a \in Action, NEW tag \in Tag, pc[t] \notin Busy,
         Promise(a, tag), logical_time < tag, UNCHANGED <<progress, stores>>,
         pc'[t] = "find", call'[t].action = a, call'[t].tag = tag,
         \A s \in Thread : s # t => pc'[s] = pc[s] /\ call'[s] = call[s]
  PROVE  HeldInv'
<1>1. UNCHANGED <<scheduler, logical_time, triggered_actions, event_queue, lists>>
  BY DEF progress, stores
<1>2. scheduled \in [Tag -> [Action -> Nat]] /\ scheduled' = [scheduled EXCEPT ![tag][a] = @ + 1]
  BY DEF HeldInv, Promise
<1>3. /\ scheduled' \in [Tag -> [Action -> Nat]] /\ scheduled'[tag][a] = scheduled[tag][a] + 1
      /\ \A b \in Action, x \in Tag : ~(b = a /\ x = tag) => scheduled'[x][b] = scheduled[x][b]
  BY <1>2
<1>4. \A b, x : Placed(b, x)' = Placed(b, x)
  BY <1>1, KeepPlaced DEF Busy
<1>5. /\ t \notin Going(a, tag) /\ Going(a, tag)' = Going(a, tag) \cup {t}
      /\ \A b \in Action, x \in Tag : ~(b = a /\ x = tag) => Going(b, x)' = Going(b, x)
  BY DEF Going, Busy
<1>6. ASSUME NEW b \in Action, NEW x \in Tag, logical_time < x PROVE Held(b, x)'
  <2>1. Held(b, x)
    BY <1>6 DEF HeldInv
  <2>2. CASE b = a /\ x = tag
    <3>1. /\ IsFiniteSet(Going(a, tag)) /\ IsFiniteSet(Placed(a, tag))
          /\ scheduled[tag][a] = Cardinality(Going(a, tag)) + Cardinality(Placed(a, tag))
      BY <2>1, <2>2 DEF Held
    <3>2. /\ IsFiniteSet(Going(a, tag)') /\ Cardinality(Going(a, tag)') = Cardinality(Going(a, tag)) + 1
      BY <3>1, <1>5, FS_AddElement
    <3>3. Cardinality(Going(a, tag)) \in Nat /\ Cardinality(Placed(a, tag)) \in Nat
      BY <3>1, FS_CardinalityType
    <3>. QED
      BY <3>1, <3>2, <3>3, <2>2, <1>3, <1>4 DEF Held
  <2>3. CASE ~(b = a /\ x = tag)
    BY <2>1, <2>3, <1>3, <1>4, <1>5 DEF Held
  <2>. QED
    BY <2>2, <2>3
<1>7. scheduler \in {"setup", "react"} => logical_time \in Tag /\ HoldsScheduled(triggered_actions, logical_time)'
  <2>1. ASSUME scheduler \in {"setup", "react"}
        PROVE  logical_time \in Tag /\ HoldsScheduled(triggered_actions, logical_time)
    BY <2>1 DEF HeldInv
  <2>2. tag \in Nat /\ (logical_time \in Tag => logical_time # tag)
    BY DEF Tag
  <2>. QED
    BY <2>1, <2>2, <1>1, <1>3 DEF HoldsScheduled
<1>. QED
  BY <1>1, <1>3, <1>6, <1>7 DEF HeldInv

LEMMA ScheduleHeld ==
  ASSUME IInv, HeldInv, NEW tag \in Tag,
         \/ \E w \in Worker : ScheduleLogical(w, tag)
         \/ \E t \in Other : ScheduleEmpty(t, tag) \/ \E a \in PhysicalAction : SchedulePhysical(t, a, tag)
  PROVE  HeldInv'
<1>1. ASSUME NEW w \in Worker, ScheduleLogical(w, tag) PROVE HeldInv'
  <2>1. /\ w \in Thread /\ logical_action[w] \in Action /\ logical_time < tag
        /\ pc[w] = "idle" /\ Promise(logical_action[w], tag) /\ UNCHANGED <<progress, stores>>
    BY <1>1, Threads DEF ScheduleLogical, Begin
  <2>2. /\ pc'[w] = "find" /\ call'[w].action = logical_action[w] /\ call'[w].tag = tag
        /\ \A s \in Thread : s # w => pc'[s] = pc[s] /\ call'[s] = call[s]
    BY <1>1, <2>1 DEF ScheduleLogical, Begin, Goto, IInv, ThreadInv
  <2>3. pc[w] \notin Busy
    BY <2>1 DEF Busy
  <2>. QED
    BY <2>1, <2>2, <2>3, PromiseHeld
<1>2. ASSUME NEW t \in Other, NEW a, Begin(t, a, tag, "lock"), UNCHANGED <<progress, stores, scheduled>>
      PROVE  HeldInv'
  <2>1. /\ t \in Thread /\ pc[t] = "idle"
        /\ pc' = [pc EXCEPT ![t] = "lock"] /\ call' = [call EXCEPT ![t] = [@ EXCEPT !.action = a, !.tag = tag]]
    BY <1>2, Threads DEF Begin, Goto
  <2>2. pc'[t] = "lock" /\ \A s \in Thread : s # t => pc'[s] = pc[s] /\ call'[s] = call[s]
    BY <2>1 DEF IInv, ThreadInv
  <2>3. UNCHANGED <<scheduler, logical_time, triggered_actions, event_queue, lists>>
    BY <1>2 DEF progress, stores
  <2>4. \A b, x : Placed(b, x)' = Placed(b, x)
    BY <2>1, <2>2, <2>3, KeepPlaced
  <2>5. \A b, x : Going(b, x)' = Going(b, x)
    BY <2>1, <2>2 DEF Going, Busy
  <2>. QED
    BY <1>2, <2>3, <2>4, <2>5, KeepHeld
<1>. QED
  BY <1>1, <1>2 DEF ScheduleEmpty, SchedulePhysical

LEMMA LockHeld == ASSUME IInv, HeldInv, NEW t \in Thread, Lock(t) PROVE HeldInv'
<1>1. /\ pc[t] = "lock" /\ UNCHANGED call /\ UNCHANGED <<progress, stores>>
      /\ UNCHANGED <<scheduler, logical_time, triggered_actions, event_queue, lists>>
      /\ logical_time \in Nat /\ call[t].tag \in Tag /\ call[t].tag \in Nat
  BY CallTypes DEF Lock, progress, stores, IInv, SchedulerInv, Tag
<1>2. PICK l \in {"idle", "find"} : Goto(t, l)
  BY DEF Lock
<1>3. pc'[t] = l /\ \A s \in Thread : s # t => pc'[s] = pc[s]
  BY <1>2 DEF Goto, IInv, ThreadInv
<1>4. CASE call[t].tag <= logical_time \/ call[t].action = NoAction
  <2>1. UNCHANGED scheduled /\ (l = "find" => call[t].action \notin Action)
    <3>1. CASE call[t].tag <= logical_time
      BY <3>1, <1>1, <1>3 DEF Lock, Goto, IInv, ThreadInv
    <3>2. CASE ~(call[t].tag <= logical_time) /\ call[t].action = NoAction
      BY <3>2, Threads DEF Lock
    <3>. QED
      BY <3>1, <3>2, <1>4
  <2>2. \A b, x : Placed(b, x)' = Placed(b, x)
    BY <1>1, <1>3, KeepPlaced
  <2>3. \A b \in Action, x \in Tag : Going(b, x)' = Going(b, x)
    BY <2>1, <1>1, <1>3 DEF Going, Busy
  <2>. QED
    BY <2>1, <2>2, <2>3, <1>1, KeepHeld
<1>5. CASE ~(call[t].tag <= logical_time) /\ call[t].action # NoAction
  <2>1. Goto(t, "find") /\ Promise(call[t].action, call[t].tag) /\ call[t].action \in Action
    BY <1>5, CallTypes DEF Lock, IInv
  <2>2. pc'[t] = "find" /\ logical_time < call[t].tag /\ pc[t] \notin Busy
    BY <2>1, <1>1, <1>5 DEF Goto, IInv, ThreadInv, Busy
  <2>. QED
    BY <2>1, <2>2, <1>1, <1>3, PromiseHeld
<1>. QED
  BY <1>4, <1>5

(* A step of t that does not write and keeps its call on its way, or that  *)
(* was not on its way.                                                     *)
LEMMA LocalHeld ==
  ASSUME IInv, HeldInv, NEW t \in Thread, NEW l, Goto(t, l),
         pc[t] \notin {"write", "grow"} /\ l \notin {"write", "grow"},
         (pc[t] \in Busy <=> l \in Busy) \/ call[t].action = NoAction,
         \A s \in Thread : /\ s # t => call'[s] = call[s]
                           /\ call'[s].action = call[s].action /\ call'[s].tag = call[s].tag,
         UNCHANGED <<progress, scheduled>>, UNCHANGED <<event_queue, lists>>
  PROVE  HeldInv'
<1>1. UNCHANGED <<scheduler, logical_time, triggered_actions>>
  BY DEF progress
<1>2. pc'[t] = l /\ \A s \in Thread : s # t => pc'[s] = pc[s]
  BY DEF Goto, IInv, ThreadInv
<1>3. \A b, x : Placed(b, x)' = Placed(b, x)
  BY <1>2, KeepPlaced
<1>4. \A b \in Action, x \in Tag : Going(b, x)' = Going(b, x)
  BY <1>2, Threads DEF Going
<1>. QED
  BY <1>1, <1>3, <1>4, KeepHeld

LEMMA FindHeld == ASSUME IInv, HeldInv, NEW t \in Thread, Find(t) PROVE HeldInv'
<1>1. pc[t] = "find" /\ UNCHANGED <<progress, scheduled>> /\ UNCHANGED <<event_queue, lists>>
  BY DEF Find, stores, history
<1>2. PICK l \in {"unlock", "push_back", "emplace"} :
        Goto(t, l) /\ (l = "unlock" => call[t].action = NoAction)
  BY DEF Find, Inserted
<1>3. \A s \in Thread : /\ s # t => call'[s] = call[s]
                        /\ call'[s].action = call[s].action /\ call'[s].tag = call[s].tag
  BY DEF Find, Inserted, IInv, ThreadInv
<1>4. (pc[t] \in Busy <=> l \in Busy) \/ call[t].action = NoAction
  BY <1>1, <1>2 DEF Busy
<1>. QED
  BY <1>1, <1>2, <1>3, <1>4, LocalHeld

LEMMA LeaveHeld ==
  ASSUME IInv, HeldInv, NEW t \in Thread, Unlock(t) \/ Value(t)
  PROVE  HeldInv'
<1>1. /\ pc[t] \in {"unlock", "value"} /\ UNCHANGED call
      /\ UNCHANGED <<progress, scheduled>> /\ UNCHANGED <<event_queue, lists>>
  BY DEF Unlock, Value, stores, history
<1>2. PICK l \in {"idle", "value"} : Goto(t, l)
  BY DEF Unlock, Value
<1>3. pc[t] \in Busy <=> l \in Busy
  BY <1>1, <1>2 DEF Busy
<1>. QED
  BY <1>1, <1>2, <1>3, LocalHeld

(* A list that is put at a tag holds nothing.                              *)
LEMMA EmplaceHeld == ASSUME IInv, VInv, HeldInv, NEW t \in Thread, Emplace(t) PROVE HeldInv'
<1>1. /\ pc[t] = "emplace" /\ UNCHANGED <<progress, scheduled>>
      /\ UNCHANGED <<scheduler, logical_time, triggered_actions>>
  BY DEF Emplace, progress, history
<1>2. PICK l \in {"unlock", "push_back"} : Goto(t, l) /\ (l = "unlock" => call[t].action = NoAction)
  BY DEF Emplace, EmplaceLast, Inserted
<1>3. \A s \in Thread : /\ call'[s].action = call[s].action /\ call'[s].tag = call[s].tag
                        /\ s # t => call'[s] = call[s]
  BY DEF Emplace, EmplaceLast, Inserted, IInv, ThreadInv
<1>4. pc'[t] = l /\ \A s \in Thread : s # t => pc'[s] = pc[s]
  BY <1>2 DEF Goto, IInv, ThreadInv
<1>5. \A k, i : WriterAt(k, i)' <=> WriterAt(k, i)
  BY <1>1, <1>2, <1>3, <1>4 DEF WriterAt
<1>6. ASSUME NEW a \in Action, NEW tag \in Tag PROVE Placed(a, tag)' = Placed(a, tag)
  <2>1. CASE tag \in DOMAIN event_queue
    <3>1. /\ event_queue[tag] \in DOMAIN lists /\ tag \in DOMAIN event_queue'
          /\ event_queue'[tag] = event_queue[tag] /\ lists'[event_queue[tag]] = lists[event_queue[tag]]
      BY <2>1, EmplaceLists, QueuedLists DEF IInv
    <3>2. \A k, i : k = event_queue[tag] => (Entry(k, i, a)' <=> Entry(k, i, a))
      BY <3>1, <1>5 DEF Entry
    <3>3. \A i : Entry(event_queue[tag], i, a)' <=> Entry(event_queue[tag], i, a)
      BY <3>1, <3>2 DEF Entry, WriterAt
    <3>. QED
      BY <2>1, <3>1, <3>3 DEF Placed
  <2>2. CASE tag \notin DOMAIN event_queue
    <3>1. tag \in DOMAIN event_queue' => lists'[event_queue'[tag]].write_pos = 0
      BY <2>2, EmplaceLists
    <3>2. Placed(a, tag) = {} /\ Placed(a, tag)' = {}
      BY <2>2, <3>1 DEF Placed, Entry
    <3>. QED
      BY <3>2
  <2>. QED
    BY <2>1, <2>2
<1>7. \A b \in Action, x \in Tag : Going(b, x)' = Going(b, x)
  BY <1>1, <1>2, <1>3, <1>4, Threads DEF Going, Busy
<1>8. scheduler \in {"setup", "react"} => lists'[triggered_actions] = lists[triggered_actions]
  BY EmplaceLists DEF IInv, SchedulerInv
<1>. QED
  BY <1>1, <1>6, <1>7, <1>8, KeepHeld

(* A reserved position is no entry yet.                                    *)
LEMMA ReserveHeld == ASSUME IInv, HeldInv, NEW t \in Thread, Reserve(t) PROVE HeldInv'
<1>. DEFINE l == call[t].list
            end == lists[l].write_pos
            list == [write_pos |-> end + 1, vector_size |-> lists[l].vector_size, vector |-> lists[l].vector]
<1>1. /\ pc[t] = "push_back" /\ Goto(t, "write") /\ call' = [call EXCEPT ![t].pos = end]
      /\ UNCHANGED <<progress, event_queue, scheduled>>
      /\ UNCHANGED <<scheduler, logical_time, triggered_actions>>
  BY DEF Reserve, progress, history
<1>2. l \in DOMAIN lists /\ lists[l] \in ActionList /\ end \in Nat
  BY <1>1, WriterList, ListFields
<1>3. DOMAIN lists' = DOMAIN lists /\ \A k \in DOMAIN lists : lists'[k] = IF k = l THEN list ELSE lists[k]
  <2>1. lists' = [lists EXCEPT ![l].write_pos = end + 1]
    BY DEF Reserve
  <2>2. [lists[l] EXCEPT !.write_pos = end + 1] = list
    BY <1>2, ChangedFields
  <2>. QED
    BY <2>1, <2>2
<1>4. /\ \A k \in DOMAIN lists : /\ lists'[k].vector_size = lists[k].vector_size
                                 /\ lists'[k].vector = lists[k].vector
                                 /\ k # l => lists'[k] = lists[k]
      /\ lists'[l].write_pos = end + 1
  BY <1>2, <1>3
<1>5. /\ pc'[t] = "write" /\ call'[t].pos = end /\ call'[t].list = l
      /\ \A s \in Thread : s # t => pc'[s] = pc[s] /\ call'[s] = call[s]
      /\ \A s \in Thread : call'[s].action = call[s].action /\ call'[s].tag = call[s].tag
  BY <1>1 DEF Goto, IInv, ThreadInv
<1>6. l # triggered_actions
  BY <1>1, WriterTag
<1>. HIDE DEF list, l, end
<1>7. \A k, i : WriterAt(k, i)' <=> WriterAt(k, i) \/ (k = l /\ i = end)
  BY <1>1, <1>5 DEF WriterAt
<1>8. ASSUME NEW k \in DOMAIN lists, NEW i \in Nat, NEW a PROVE Entry(k, i, a)' <=> Entry(k, i, a)
  <2>1. CASE k = l /\ i = end
    BY <2>1, <1>2, <1>7 DEF Entry, end
  <2>2. CASE k = l /\ i # end
    <3>1. i \in 0..(lists'[k].write_pos - 1) <=> i \in 0..(lists[k].write_pos - 1)
      BY <2>2, <1>2, <1>4 DEF end
    <3>. QED
      BY <2>2, <3>1, <1>4, <1>7 DEF Entry
  <2>3. CASE k # l
    BY <2>3, <1>4, <1>7 DEF Entry
  <2>. QED
    BY <2>1, <2>2, <2>3
<1>9. ASSUME NEW a \in Action, NEW tag \in Tag PROVE Placed(a, tag)' = Placed(a, tag)
  <2>1. CASE tag \in DOMAIN event_queue
    <3>1. event_queue[tag] \in DOMAIN lists /\ event_queue'[tag] = event_queue[tag]
      BY <2>1, <1>1, QueuedLists DEF IInv
    <3>2. \A i \in Nat : \A k : k = event_queue[tag] => (Entry(k, i, a)' <=> Entry(k, i, a))
      BY <3>1, <1>8
    <3>3. \A i \in Nat : Entry(event_queue[tag], i, a)' <=> Entry(event_queue[tag], i, a)
      BY <3>1, <3>2 DEF Entry, WriterAt
    <3>. QED
      BY <2>1, <3>3, <1>1 DEF Placed
  <2>2. CASE tag \notin DOMAIN event_queue
    BY <2>2, <1>1 DEF Placed
  <2>. QED
    BY <2>1, <2>2
<1>10. \A b, x : Going(b, x)' = Going(b, x)
  BY <1>1, <1>5 DEF Going, Busy
<1>11. scheduler \in {"setup", "react"} => lists'[triggered_actions] = lists[triggered_actions]
  BY <1>4, <1>6 DEF IInv, SchedulerInv
<1>. QED
  BY <1>1, <1>9, <1>10, <1>11, KeepHeld

(* A call that is no longer on its way has left one entry, at a position   *)
(* of its own.                                                             *)
LEMMA WritesHeld ==
  ASSUME IInv, VInv, HeldInv, NEW t \in Thread, NEW list \in ActionList, Writes(t, list), UNCHANGED scheduled
  PROVE  HeldInv'
<1>. DEFINE l == call[t].list
            pos == call[t].pos
            mine == call[t].action
            at == call[t].tag
<1>1. /\ pc[t] \in {"write", "grow"} /\ UNCHANGED call /\ UNCHANGED event_queue
      /\ UNCHANGED <<scheduler, logical_time, triggered_actions>>
      /\ lists' = [lists EXCEPT ![l] = list] /\ list.write_pos = lists[l].write_pos
      /\ lists[l].vector_size <= list.vector_size /\ pos < list.vector_size
      /\ list.vector[pos] = mine
      /\ \A i \in 0..(lists[l].vector_size - 1) : i # pos => list.vector[i] = lists[l].vector[i]
  BY DEF Writes, progress
<1>2. /\ l \in DOMAIN lists /\ lists[l] \in ActionList /\ mine \in Action /\ pos \in Nat
      /\ lists[l].write_pos \in Nat /\ lists[l].vector_size \in Nat /\ list.vector_size \in Nat
      /\ pos < lists[l].write_pos
  BY <1>1, WriterList, ListFields DEF VInv, StorageInv, PositionInv
<1>3. /\ at \in DOMAIN event_queue /\ l = event_queue[at] /\ l # triggered_actions
      /\ \A tag \in DOMAIN event_queue : event_queue[tag] = l => tag = at
  BY <1>1, WriterTag
<1>4. PICK next \in {"unlock", "value"} : Goto(t, next)
  BY DEF Writes, Written
<1>5. pc'[t] = next /\ \A s \in Thread : s # t => pc'[s] = pc[s]
  BY <1>4 DEF Goto, IInv, ThreadInv
<1>6. DOMAIN lists' = DOMAIN lists /\ \A k \in DOMAIN lists : lists'[k] = IF k = l THEN list ELSE lists[k]
  BY <1>1, <1>2
<1>7. \A s \in Thread : s # t /\ pc[s] \in {"write", "grow"} /\ call[s].list = l => call[s].pos # pos
  BY <1>1 DEF VInv, StorageInv, PositionInv
<1>8. WriterAt(l, pos)
  BY <1>1 DEF WriterAt
<1>. HIDE DEF l, pos, mine, at
<1>9. \A k, i : WriterAt(k, i)' <=> WriterAt(k, i) /\ ~(k = l /\ i = pos)
  <2>1. \A k, i : k = l /\ i = pos => ~WriterAt(k, i)'
    BY <1>1, <1>5, <1>7 DEF WriterAt, l, pos
  <2>. QED
    BY <2>1, <1>1, <1>5 DEF WriterAt, l, pos
<1>10. ASSUME NEW k \in DOMAIN lists, NEW i \in Nat, NEW a
       PROVE  Entry(k, i, a)' <=> Entry(k, i, a) \/ (k = l /\ i = pos /\ a = mine)
  <2>1. CASE k # l
    BY <2>1, <1>6, <1>9 DEF Entry
  <2>2. CASE k = l /\ i = pos
    <3>1. pos \in 0..(lists'[l].write_pos - 1) /\ pos < lists'[l].vector_size /\ lists'[l].vector[pos] = mine
      BY <1>1, <1>2, <1>6
    <3>2. ~WriterAt(k, i)' /\ ~Entry(k, i, a)
      BY <2>2, <1>8, <1>9 DEF Entry
    <3>. QED
      BY <2>2, <3>1, <3>2 DEF Entry
  <2>3. CASE k = l /\ i # pos
    <3>1. (WriterAt(k, i)' <=> WriterAt(k, i)) /\ lists'[k] = list
      BY <2>3, <1>2, <1>6, <1>9
    <3>2. ASSUME i \in 0..(lists[l].write_pos - 1), ~WriterAt(k, i)
          PROVE  i < lists[l].vector_size
      BY <3>2, <2>3, <1>2 DEF IInv, EntryInv, WrittenAt
    <3>3. i < lists[l].vector_size => i < list.vector_size /\ list.vector[i] = lists[l].vector[i]
      <4>1. i < lists[l].vector_size => i \in 0..(lists[l].vector_size - 1)
        BY <1>2
      <4>. QED
        BY <4>1, <2>3, <1>1, <1>2
    <3>. QED
      BY <3>1, <3>2, <3>3, <2>3, <1>1 DEF Entry
  <2>. QED
    BY <2>1, <2>2, <2>3
<1>11. ASSUME NEW a \in Action, NEW tag \in Tag
       PROVE  Placed(a, tag)' = IF a = mine /\ tag = at THEN Placed(a, tag) \cup {pos} ELSE Placed(a, tag)
  <2>1. CASE tag \in DOMAIN event_queue
    <3>1. event_queue[tag] \in DOMAIN lists /\ event_queue'[tag] = event_queue[tag]
      BY <2>1, <1>1, QueuedLists DEF IInv
    <3>2. event_queue[tag] = l <=> tag = at
      BY <2>1, <1>3
    <3>3. \A i \in Nat : \A k : k = event_queue[tag] =>
            (Entry(k, i, a)' <=> Entry(k, i, a) \/ (tag = at /\ i = pos /\ a = mine))
      BY <3>1, <3>2, <1>10
    <3>4. \A i \in Nat : Entry(event_queue[tag], i, a)' <=>
            Entry(event_queue[tag], i, a) \/ (tag = at /\ i = pos /\ a = mine)
      BY <3>1, <3>3 DEF Entry, WriterAt
    <3>. QED
      BY <2>1, <3>4, <1>1, <1>2 DEF Placed
  <2>2. CASE tag \notin DOMAIN event_queue
    BY <2>2, <1>1, <1>3 DEF Placed
  <2>. QED
    BY <2>1, <2>2
<1>12. /\ t \in Going(mine, at) /\ pos \notin Placed(mine, at)
       /\ \A b, x : Going(b, x)' = IF b = mine /\ x = at THEN Going(b, x) \ {t} ELSE Going(b, x)
  <2>1. t \in Going(mine, at)
    BY <1>1 DEF Going, Busy, mine, at
  <2>2. pos \notin Placed(mine, at)
    BY <1>3, <1>8 DEF Placed, Entry
  <2>3. \A b, x : Going(b, x)' = IF b = mine /\ x = at THEN Going(b, x) \ {t} ELSE Going(b, x)
    BY <1>1, <1>4, <1>5 DEF Going, Busy, mine, at
  <2>. QED
    BY <2>1, <2>2, <2>3
<1>13. ASSUME NEW a \in Action, NEW tag \in Tag, logical_time < tag PROVE Held(a, tag)'
  <2>1. /\ IsFiniteSet(Going(a, tag)) /\ IsFiniteSet(Placed(a, tag))
        /\ scheduled[tag][a] = Cardinality(Going(a, tag)) + Cardinality(Placed(a, tag))
    BY <1>13 DEF HeldInv, Held
  <2>2. CASE a = mine /\ tag = at
    <3>1. /\ IsFiniteSet(Going(a, tag)') /\ Cardinality(Going(a, tag)') = Cardinality(Going(a, tag)) - 1
      BY <2>1, <2>2, <1>12, FS_RemoveElement
    <3>2. /\ IsFiniteSet(Placed(a, tag)') /\ Cardinality(Placed(a, tag)') = Cardinality(Placed(a, tag)) + 1
      BY <2>1, <2>2, <1>11, <1>12, FS_AddElement
    <3>3. Cardinality(Going(a, tag)) \in Nat /\ Cardinality(Placed(a, tag)) \in Nat
      BY <2>1, FS_CardinalityType
    <3>. QED
      BY <2>1, <3>1, <3>2, <3>3 DEF Held
  <2>3. CASE ~(a = mine /\ tag = at)
    BY <2>1, <2>3, <1>11, <1>12 DEF Held
  <2>. QED
    BY <2>2, <2>3
<1>14. scheduler \in {"setup", "react"} => lists'[triggered_actions] = lists[triggered_actions]
  BY <1>3, <1>6 DEF IInv, SchedulerInv
<1>. QED
  BY <1>1, <1>13, <1>14 DEF HeldInv, HoldsScheduled

LEMMA WriteHeld == ASSUME IInv, VInv, HeldInv, NEW t \in Thread, Write(t) \/ Grow(t) PROVE HeldInv'
<1>1. UNCHANGED scheduled
  BY DEF Write, Grow, history
<1>2. CASE \E list \in ActionList : Writes(t, list)
  BY <1>1, <1>2, WritesHeld
<1>3. CASE Write(t) /\ Goto(t, "grow") /\ UNCHANGED lists
  <2>1. /\ pc[t] = "write" /\ UNCHANGED call /\ UNCHANGED <<scheduler, logical_time, triggered_actions, event_queue>>
    BY <1>3 DEF Write, progress
  <2>2. pc'[t] = "grow" /\ \A s \in Thread : s # t => pc'[s] = pc[s]
    BY <1>3 DEF Goto, IInv, ThreadInv
  <2>3. \A b, x : Placed(b, x)' = Placed(b, x)
    BY <1>3, <2>1, <2>2, KeepPlaced
  <2>4. \A b, x : Going(b, x)' = Going(b, x)
    BY <2>1, <2>2 DEF Going, Busy
  <2>. QED
    BY <1>1, <1>3, <2>1, <2>3, <2>4, KeepHeld
<1>. QED
  BY <1>2, <1>3, WriteWrites, GrowWrites

(* The scheduler: no call is on its way when it takes a list.              *)
LEMMA NobodyGoes ==
  ASSUME IInv, scheduling_mutex = NoOne, scheduler # "react"
  PROVE  \A a, tag : Going(a, tag) = {}
BY NobodyWrites DEF Going

LEMMA WholeList ==
  ASSUME IInv, NEW tag \in DOMAIN event_queue, \A i : ~WriterAt(event_queue[tag], i), NEW a \in Action
  PROVE  Placed(a, tag) =
           {i \in 0..(lists[event_queue[tag]].write_pos - 1) : lists[event_queue[tag]].vector[i] = a}
<1>. DEFINE l == event_queue[tag]
<1>1. l \in DOMAIN lists /\ lists[l].write_pos \in Nat
  BY QueuedLists DEF IInv
<1>2. \A i \in 0..(lists[l].write_pos - 1) : i < lists[l].vector_size
  BY <1>1 DEF IInv, EntryInv, WrittenAt
<1>3. \A i \in 0..(lists[l].write_pos - 1) : i \in Nat
  BY <1>1
<1>. QED
  BY <1>2, <1>3 DEF Placed, Entry

LEMMA StartHeld == ASSUME IInv, VInv, HeldInv, Start PROVE HeldInv'
<1>. DEFINE early == {tag \in DOMAIN event_queue : tag < start_tag}
<1>1. /\ scheduler = "start" /\ scheduling_mutex = NoOne /\ logical_time' = start_tag - 1 /\ scheduler' = "next"
      /\ event_queue' = [tag \in DOMAIN event_queue \ early |-> event_queue[tag]]
      /\ UNCHANGED <<pc, call, lists>> /\ UNCHANGED scheduled
  BY DEF Start, history
<1>2. \A a, tag : Going(a, tag)' = Going(a, tag)
  BY <1>1 DEF Going
<1>3. \A l, i, a : Entry(l, i, a)' <=> Entry(l, i, a)
  BY <1>1, KeepStorage
<1>4. ASSUME NEW a \in Action, NEW tag \in Tag, start_tag - 1 < tag PROVE Held(a, tag)'
  <2>1. tag \in Nat \ {0} /\ start_tag \in Nat
    BY BoundsAssumption DEF Tag
  <2>2. Held(a, tag)
    BY <2>1, <1>1 DEF HeldInv
  <2>3. tag \notin early
    BY <2>1, <1>4
  <2>4. /\ tag \in DOMAIN event_queue' <=> tag \in DOMAIN event_queue
        /\ tag \in DOMAIN event_queue => event_queue'[tag] = event_queue[tag]
    BY <2>3, <1>1
  <2>5. tag \in DOMAIN event_queue => \A i : Entry(event_queue[tag], i, a)' <=> Entry(event_queue[tag], i, a)
    BY <2>4, <1>1 DEF Entry, WriterAt
  <2>6. Placed(a, tag)' = Placed(a, tag)
    BY <2>4, <2>5 DEF Placed
  <2>. QED
    BY <2>2, <2>6, <1>1, <1>2 DEF Held
<1>. QED
  BY <1>1, <1>4 DEF HeldInv

(* The list that is taken is complete.                                     *)
LEMMA ExtractHeld == ASSUME IInv, VInv, HeldInv, Extract PROVE HeldInv'
<1>1. /\ scheduler = "next" /\ scheduling_mutex = NoOne /\ UNCHANGED <<pc, call, lists>> /\ UNCHANGED scheduled
      /\ scheduler' \in {"next", "setup"}
  BY DEF Extract, history
<1>2. (\A l, i : ~WriterAt(l, i)) /\ \A a, tag : Going(a, tag) = {} /\ Going(a, tag)' = {}
  <2>1. \A a, tag : Going(a, tag)' = Going(a, tag)
    BY <1>1 DEF Going
  <2>. QED
    BY <2>1, <1>1, NobodyWrites, NobodyGoes
<1>3. CASE DOMAIN event_queue = {}
  <2>1. UNCHANGED <<event_queue, logical_time, scheduler>>
    BY <1>3 DEF Extract
  <2>2. \A a, tag : Placed(a, tag)' = Placed(a, tag)
    BY <2>1, <1>1, KeepPlaced
  <2>3. ASSUME NEW a \in Action, NEW tag \in Tag, logical_time < tag PROVE Held(a, tag)'
    BY <2>2, <2>3, <1>1, <1>2 DEF HeldInv, Held
  <2>. QED
    BY <2>1, <2>3, <1>1 DEF HeldInv
<1>4. CASE DOMAIN event_queue # {}
  <2>. DEFINE first == Min(DOMAIN event_queue)
  <2>1. DOMAIN event_queue \in SUBSET Nat /\ DOMAIN event_queue \subseteq Tag
    BY EarlyTags DEF IInv, StoreInv
  <2>2. first \in DOMAIN event_queue /\ first \in Tag /\ first \in Nat
    BY <1>4, <2>1, MinimumExists
  <2>3. /\ triggered_actions' = event_queue[first] /\ event_queue' = Remaining(first) /\ logical_time' = first
    BY <1>4 DEF Extract
  <2>. HIDE DEF first
  <2>4. /\ DOMAIN event_queue' = DOMAIN event_queue \ {first}
        /\ \A x \in DOMAIN event_queue' : event_queue'[x] = event_queue[x]
    BY <2>3 DEF Remaining
  <2>5. logical_time < first /\ logical_time \in Nat
    BY <2>2, <1>1 DEF VInv, StorageInv, FutureInv, IInv, SchedulerInv
  <2>6. ASSUME NEW a \in Action, NEW tag \in Tag, first < tag PROVE Held(a, tag)'
    <3>1. tag \in Nat /\ tag # first /\ logical_time < tag
      BY <2>2, <2>5, <2>6 DEF Tag
    <3>2. Held(a, tag)
      BY <3>1 DEF HeldInv
    <3>3. \A i : tag \in DOMAIN event_queue => (Entry(event_queue[tag], i, a)' <=> Entry(event_queue[tag], i, a))
      BY <3>1, <2>4, <1>1 DEF Entry, WriterAt
    <3>4. Placed(a, tag)' = Placed(a, tag)
      BY <3>1, <3>3, <2>4 DEF Placed
    <3>. QED
      BY <3>2, <3>4, <1>1, <1>2 DEF Held
  <2>7. HoldsScheduled(triggered_actions, logical_time)'
    <3>1. ASSUME NEW a \in Action
          PROVE  Cardinality({i \in 0..(lists[event_queue[first]].write_pos - 1) :
                                lists[event_queue[first]].vector[i] = a}) = scheduled[first][a]
      <4>1. Held(a, first)
        BY <2>2, <2>5 DEF HeldInv
      <4>2. Cardinality(Going(a, first)) = 0 /\ Cardinality(Placed(a, first)) \in Nat
        BY <4>1, <1>2, FS_EmptySet, FS_CardinalityType DEF Held
      <4>3. scheduled[first][a] = Cardinality(Placed(a, first))
        BY <4>1, <4>2 DEF Held
      <4>. QED
        BY <4>3, <2>2, <1>2, WholeList
    <3>. QED
      BY <3>1, <2>3, <1>1 DEF HoldsScheduled
  <2>. QED
    BY <2>2, <2>3, <2>6, <2>7, <1>1 DEF HeldInv
<1>. QED
  BY <1>3, <1>4

LEMMA SetupHeld == ASSUME IInv, HeldInv, Setup \/ EndSetup PROVE HeldInv'
<1>1. /\ scheduler = "setup" /\ scheduler' \in {"setup", "react"}
      /\ UNCHANGED <<pc, call, logical_time, triggered_actions, scheduled>> /\ UNCHANGED <<event_queue, lists>>
  BY DEF Setup, EndSetup, stores, history
<1>2. \A a, tag : Placed(a, tag)' = Placed(a, tag)
  BY <1>1, KeepPlaced
<1>3. \A a, tag : Going(a, tag)' = Going(a, tag)
  BY <1>1 DEF Going
<1>4. ASSUME NEW a \in Action, NEW tag \in Tag, logical_time < tag PROVE Held(a, tag)'
  BY <1>1, <1>2, <1>3, <1>4 DEF HeldInv, Held
<1>. QED
  BY <1>1, <1>4 DEF HeldInv, HoldsScheduled

LEMMA CleanupHeld == ASSUME IInv, HeldInv, Cleanup PROVE HeldInv'
<1>1. /\ scheduler = "react" /\ scheduler' = "next"
      /\ lists' = [lists EXCEPT ![triggered_actions].write_pos = 0]
      /\ UNCHANGED <<pc, call, event_queue>> /\ UNCHANGED <<logical_time, scheduled>>
  BY DEF Cleanup, history
<1>2. /\ triggered_actions \notin Range(event_queue)
      /\ \A k \in DOMAIN lists : k # triggered_actions => lists'[k] = lists[k]
  BY <1>1 DEF IInv, ListsOwnedOnce
<1>3. ASSUME NEW a \in Action, NEW tag \in Tag PROVE Placed(a, tag)' = Placed(a, tag)
  <2>1. CASE tag \in DOMAIN event_queue
    <3>1. lists'[event_queue[tag]] = lists[event_queue[tag]]
      BY <2>1, <1>2, QueuedLists DEF IInv
    <3>2. \A i : Entry(event_queue[tag], i, a)' <=> Entry(event_queue[tag], i, a)
      BY <3>1, <1>1 DEF Entry, WriterAt
    <3>. QED
      BY <3>2, <1>1 DEF Placed
  <2>2. CASE tag \notin DOMAIN event_queue
    BY <2>2, <1>1 DEF Placed
  <2>. QED
    BY <2>1, <2>2
<1>4. \A a, tag : Going(a, tag)' = Going(a, tag)
  BY <1>1 DEF Going
<1>5. ASSUME NEW a \in Action, NEW tag \in Tag, logical_time < tag PROVE Held(a, tag)'
  BY <1>1, <1>3, <1>4, <1>5 DEF HeldInv, Held
<1>. QED
  BY <1>1, <1>5 DEF HeldInv

LEMMA NextHeld == ASSUME IInv, VInv, HeldInv, [Next]_vars PROVE HeldInv'
<1>1. CASE UNCHANGED vars
  <2>1. UNCHANGED <<pc, call, scheduler, logical_time, triggered_actions, scheduled>>
        /\ UNCHANGED <<event_queue, lists>>
    BY <1>1 DEF vars, progress, stores, history
  <2>2. \A a, tag : Placed(a, tag)' = Placed(a, tag)
    BY <2>1, KeepPlaced
  <2>3. \A a, tag : Going(a, tag)' = Going(a, tag)
    BY <2>1 DEF Going
  <2>. QED
    BY <2>1, <2>2, <2>3, KeepHeld
<1>2. ASSUME NEW t \in Thread, Proceed(t) PROVE HeldInv'
  BY <1>2, LockHeld, FindHeld, EmplaceHeld, ReserveHeld, WriteHeld, LeaveHeld DEF Proceed
<1>3. CASE Process
  BY <1>3, ExtractHeld, SetupHeld DEF Process
<1>4. CASE Next
  BY <1>2, <1>3, <1>4, ScheduleHeld, StartHeld, CleanupHeld DEF Next
<1>. QED
  BY <1>1, <1>4

(* For any number of threads, actions and tags: when no call for a tag is  *)
(* on its way, its list holds each action as often as it was scheduled,    *)
(* and so does the list that is processed; no position is lost when two    *)
(* threads reserve, or when one of them grows the vector that the other    *)
(* writes (safe_vector.hh:29-48, scheduler.cc:142-190).  Actions scheduled *)
(* for a tag before the start tag are excluded: their lists go back to the *)
(* pool with their entries.                                                *)
THEOREM ListsAreComplete == ASSUME ~EarlyActions PROVE Spec => []ListsHoldScheduled
<1>1. Init => VInv /\ HeldInv
  BY InitValues, InitHeld
<1>2. IInv /\ IInv' /\ VInv /\ HeldInv /\ [Next]_vars => VInv' /\ HeldInv'
  BY NextValues, NextHeld
<1>3. ASSUME IInv, HeldInv PROVE ListsHoldScheduled
  <2>1. ASSUME NEW tag \in Tag, logical_time < tag, ~Inserting(tag), NEW a \in Action
        PROVE  IF tag \in DOMAIN event_queue
               THEN Cardinality({i \in 0..(lists[event_queue[tag]].write_pos - 1) :
                                   lists[event_queue[tag]].vector[i] = a}) = scheduled[tag][a]
               ELSE scheduled[tag][a] = 0
    <3>1. Going(a, tag) = {}
      BY <2>1 DEF Inserting, Going, Busy
    <3>2. Held(a, tag)
      BY <2>1, <1>3 DEF HeldInv
    <3>3. Cardinality(Going(a, tag)) = 0 /\ Cardinality(Placed(a, tag)) \in Nat
      BY <3>1, <3>2, FS_EmptySet, FS_CardinalityType DEF Held
    <3>4. scheduled[tag][a] = Cardinality(Placed(a, tag))
      BY <3>2, <3>3 DEF Held
    <3>5. CASE tag \in DOMAIN event_queue
      <4>1. ASSUME NEW i, WriterAt(event_queue[tag], i) PROVE FALSE
        <5>1. PICK t \in Thread : pc[t] \in {"write", "grow"} /\ call[t].list = event_queue[tag]
          BY <4>1 DEF WriterAt
        <5>2. call[t].tag = tag
          BY <5>1, <3>5, <1>3, WriterTag
        <5>. QED
          BY <5>1, <5>2, <2>1 DEF Inserting
      <4>. QED
        BY <4>1, <3>4, <3>5, <1>3, WholeList
    <3>6. CASE tag \notin DOMAIN event_queue
      <4>1. Placed(a, tag) = {}
        BY <3>6 DEF Placed
      <4>. QED
        BY <4>1, <3>4, <3>6, FS_EmptySet
    <3>. QED
      BY <3>5, <3>6
  <2>. QED
    BY <2>1, <1>3 DEF ListsHoldScheduled, HoldsScheduled, HeldInv
<1>. QED
  BY IInvHolds, <1>1, <1>2, <1>3, PTL DEF Spec

=============================================================================
