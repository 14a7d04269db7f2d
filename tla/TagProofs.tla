----------------------------- MODULE TagProofs ------------------------------
(***************************************************************************)
(* The algebra of tags, for every width of the microstep.                  *)
(***************************************************************************)
EXTENDS Tags, TLAPS

(* The order of tags is a strict total order. *)
LEMMA TagOrder ==
  ASSUME NEW a \in Tag, NEW b \in Tag, NEW c \in Tag
  PROVE  /\ ~(a \prec a)
         /\ a \prec b /\ b \prec c => a \prec c
         /\ a \preceq b <=> a \prec b \/ a = b
         /\ a \prec b /\ b \preceq c => a \prec c
         /\ a \preceq b /\ b \prec c => a \prec c
<1>1. ASSUME NEW x \in Tag, NEW y \in Tag, x.time = y.time, x.micro_step = y.micro_step
      PROVE  x = y
  BY <1>1 DEF Tag
<1>2. /\ a.time \in Int /\ b.time \in Int /\ c.time \in Int
      /\ a.micro_step \in Int /\ b.micro_step \in Int /\ c.micro_step \in Int
  BY MaxMicrostepAssumption DEF Tag, Microstep
<1>3. a \preceq b <=> a \prec b \/ a = b
  BY <1>1, <1>2 DEF \preceq, \prec, Less
<1>. QED
  BY <1>2, <1>3 DEF \preceq, \prec, Less

(* The operations return tags. *)
LEMMA TagTypes ==
  ASSUME NEW a \in Tag, NEW d \in Nat
  PROVE  /\ delay(a, d) \in Tag
         /\ decrement(a) \in Tag
         /\ subtract(a, d) \in Tag
<1>1. a.time \in Int /\ a.micro_step \in 0..MaxMicrostep
  BY DEF Tag, Microstep
<1>2. (a.micro_step + 1) % (MaxMicrostep + 1) \in 0..MaxMicrostep
  BY <1>1, MaxMicrostepAssumption
<1>3. decrement(a) \in Tag
  BY <1>1, MaxMicrostepAssumption DEF decrement, TagAt, Tag, Microstep
<1>. QED
  BY <1>1, <1>2, <1>3, MaxMicrostepAssumption DEF delay, subtract, TagAt, Tag, Microstep

(* A microstep that does not overflow is incremented without wrapping. *)
LEMMA DelayByZero ==
  ASSUME NEW a \in Tag, ~Overflows(a, 0)
  PROVE  delay(a, 0) = TagAt(a.time, a.micro_step + 1)
<1>1. a.micro_step + 1 \in 0..MaxMicrostep
  BY MaxMicrostepAssumption DEF Tag, Microstep, Overflows
<1>2. (a.micro_step + 1) % (MaxMicrostep + 1) = a.micro_step + 1
  BY <1>1, MaxMicrostepAssumption
<1>. QED
  BY <1>2 DEF delay

(* Nothing comes between a tag and its next microstep.                     *)
LEMMA DelayIsNext ==
  ASSUME NEW a \in Tag, NEW b \in Tag, ~Overflows(a, 0), a \prec b
  PROVE  delay(a, 0) \preceq b
BY DelayByZero DEF TagAt, Tag, Microstep, \prec, \preceq, Less

(* Tag::delay: an event scheduled with any delay lies in the future of the *)
(* tag that schedules it, unless the microstep overflows; this is what the *)
(* assertion in Scheduler::schedule_sync demands.                          *)
THEOREM DelayIsLater ==
  ASSUME NEW a \in Tag, NEW d \in Nat, ~Overflows(a, d)
  PROVE  a \prec delay(a, d)
<1>1. CASE d = 0
  BY <1>1, DelayByZero DEF TagAt, Tag, Microstep, \prec, Less
<1>2. CASE d # 0
  BY <1>2 DEF delay, TagAt, Tag, \prec, Less
<1>. QED
  BY <1>1, <1>2

(* Tag::decrement: the decremented tag is the last one before the tag.     *)
(* Scheduler::start puts the logical time there, so that exactly the tags  *)
(* before the start tag count as processed.                                *)
THEOREM DecrementIsPredecessor ==
  ASSUME NEW a \in Tag, NEW b \in Tag
  PROVE  b \preceq decrement(a) <=> b \prec a
<1>1. /\ a.time \in Int /\ b.time \in Int
      /\ a.micro_step \in 0..MaxMicrostep /\ b.micro_step \in 0..MaxMicrostep
  BY DEF Tag, Microstep
<1>2. CASE a.micro_step = 0
  <2>1. decrement(a) = TagAt(a.time - 1, MaxMicrostep)
    BY <1>2 DEF decrement
  <2>. QED
    BY <1>1, <1>2, <2>1, MaxMicrostepAssumption DEF TagAt, \preceq, \prec, Less
<1>3. CASE a.micro_step # 0
  <2>1. decrement(a) = TagAt(a.time, a.micro_step - 1)
    BY <1>3 DEF decrement
  <2>. QED
    BY <1>1, <1>3, <2>1 DEF TagAt, \preceq, \prec, Less
<1>. QED
  BY <1>2, <1>3

(* Tag::subtract is the upper adjoint of Tag::delay: an upstream tag can   *)
(* cause an event at or before a tag over a delayed enclave connection if  *)
(* and only if it is at or before the subtracted tag.  To wait for this    *)
(* tag, as DelayedEnclaveConnection::acquire_tag does, is therefore both   *)
(* sufficient and necessary.                                               *)
THEOREM SubtractIsAdjoint ==
  ASSUME NEW a \in Tag, NEW g \in Tag, NEW d \in Nat, ~Overflows(a, d)
  PROVE  delay(a, d) \preceq g <=> a \preceq subtract(g, d)
<1>1. /\ a.time \in Int /\ g.time \in Int
      /\ a.micro_step \in 0..MaxMicrostep /\ g.micro_step \in 0..MaxMicrostep
  BY DEF Tag, Microstep
<1>2. CASE d = 0
  <2>1. delay(a, d) = TagAt(a.time, a.micro_step + 1)
    BY <1>2, DelayByZero
  <2>2. delay(a, d) \preceq g <=> a \prec g
    BY <2>1, <1>1 DEF TagAt, \preceq, \prec, Less
  <2>3. a \preceq subtract(g, d) <=> a \prec g
    BY <1>2, DecrementIsPredecessor DEF subtract
  <2>. QED
    BY <2>2, <2>3
<1>3. CASE d # 0
  <2>1. delay(a, d) = TagAt(a.time + d, 0)
    BY <1>3 DEF delay
  <2>2. subtract(g, d) = TagAt(g.time - d, MaxMicrostep)
    BY <1>3 DEF subtract
  <2>. QED
    BY <2>1, <2>2, <1>1, MaxMicrostepAssumption DEF TagAt, \preceq, \prec, Less
<1>. QED
  BY <1>2, <1>3

(* Tag::delay keeps the order of tags: events sent in order over one       *)
(* connection arrive in order or at the same tag.                          *)
THEOREM DelayIsMonotone ==
  ASSUME NEW a \in Tag, NEW b \in Tag, NEW d \in Nat,
         ~Overflows(a, d), ~Overflows(b, d), a \preceq b
  PROVE  delay(a, d) \preceq delay(b, d)
<1>1. delay(a, d) \in Tag /\ delay(b, d) \in Tag
  BY TagTypes
<1>2. b \preceq subtract(delay(b, d), d)
  <2>1. delay(b, d) \preceq delay(b, d)
    BY <1>1, TagOrder
  <2>. QED
    BY <2>1, <1>1, SubtractIsAdjoint
<1>3. subtract(delay(b, d), d) \in Tag
  BY <1>1, TagTypes
<1>4. a \preceq subtract(delay(b, d), d)
  BY <1>2, <1>3, TagOrder
<1>. QED
  BY <1>1, <1>4, SubtractIsAdjoint

=============================================================================
