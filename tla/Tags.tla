-------------------------------- MODULE Tags --------------------------------
(***************************************************************************)
(* Tags: a time point and a microstep.  Every event of a reactor program   *)
(* has one.  LogicalTime, the time of a scheduler, has the same two fields *)
(* and is compared with tags in the same way.                              *)
(***************************************************************************)
EXTENDS Integers

CONSTANT MaxMicrostep    \* numeric_limits<mstep_t>::max()

ASSUME MaxMicrostepAssumption == MaxMicrostep \in Nat \ {0}

Microstep == 0..MaxMicrostep
Tag == [time : Int, micro_step : Microstep]

TagAt(time, micro_step) == [time |-> time, micro_step |-> micro_step]

Less_fault(a, b) ==    \* microsteps compared whatever the times
  a.time < b.time \/ a.micro_step < b.micro_step

(* operator< *)
Less(a, b) ==
  \/ a.time < b.time
  \/ a.time = b.time /\ a.micro_step < b.micro_step

(* operator< and operator<=; the latter is written !(lhs > rhs). *)
x \prec y == Less(x, y)
x \preceq y == ~(y \prec x)

from_physical_time(time) == TagAt(time, 0)

(* delay() validates that the microstep does not overflow.  Without the    *)
(* validation the sum wraps around.                                        *)
Overflows(tag, offset) == offset = 0 /\ tag.micro_step = MaxMicrostep

delay_fault(tag, offset) ==    \* the microstep is kept
  IF offset = 0
  THEN TagAt(tag.time, (tag.micro_step + 1) % (MaxMicrostep + 1))
  ELSE TagAt(tag.time + offset, tag.micro_step)

delay(tag, offset) ==
  IF offset = 0
  THEN TagAt(tag.time, (tag.micro_step + 1) % (MaxMicrostep + 1))
  ELSE TagAt(tag.time + offset, 0)

decrement_fault(tag) ==    \* the largest microstep forgotten
  IF tag.micro_step = 0
  THEN TagAt(tag.time - 1, 0)
  ELSE TagAt(tag.time, tag.micro_step - 1)

decrement(tag) ==
  IF tag.micro_step = 0
  THEN TagAt(tag.time - 1, MaxMicrostep)
  ELSE TagAt(tag.time, tag.micro_step - 1)

subtract_fault(tag, offset) ==    \* the microstep is kept
  IF offset = 0 THEN decrement(tag) ELSE TagAt(tag.time - offset, tag.micro_step)

subtract(tag, offset) ==
  IF offset = 0 THEN decrement(tag) ELSE TagAt(tag.time - offset, MaxMicrostep)

=============================================================================
