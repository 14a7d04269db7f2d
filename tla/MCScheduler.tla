---------------------------- MODULE MCScheduler -----------------------------
(***************************************************************************)
(* Small programs for TLC: one environment with a timer, a logical action, *)
(* a physical action and a shutdown trigger, or with some of them.         *)
(***************************************************************************)
EXTENDS Scheduler

CONSTANTS top, logical, physical, timer, shutdown

MCEnvironment == [a \in Action |-> top]
LateOffset == [t \in Timer |-> 1]
EveryOther == [t \in Timer |-> 2]
Once == [t \in Timer |-> 0]

NoTags == {}
TwoTags == {TagAt(1, 1), TagAt(2, 0)}
(* before the start, around the events of the environment, and at the end  *)
(* of a time point                                                         *)
AnyTags == {TagAt(0, 1), TagAt(1, 1), TagAt(2, 0), TagAt(2, MaxMicrostep), TagAt(3, 0)}

=============================================================================
