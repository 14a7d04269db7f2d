--------------------------- MODULE DiscreteEvents ---------------------------
(***************************************************************************)
(* What the scheduler of one environment promises: events lie in the       *)
(* future of the current tag; the time moves to the earliest pending tag;  *)
(* all actions with an event at this tag are then present together; and no *)
(* pending event is ever dropped, once the execution has begun.            *)
(***************************************************************************)
EXTENDS Tags

CONSTANTS
  Action,   \* the actions of the environment
  NoAction  \* marks an event that triggers none

VARIABLES
  now,      \* the current tag
  pending,  \* the events to come
  present   \* the actions with an event at the current tag

vars == <<now, pending, present>>

Event == [tag : Tag, action : Action \cup {NoAction}]

TypeOK ==
  /\ now \in Tag
  /\ pending \subseteq Event
  /\ present \subseteq Action

Future == {event \in Event : now \prec event.tag}

Init ==
  /\ now = TagAt(0, 0)
  /\ pending = {}
  /\ present = {}

(* The execution begins right before some tag; earlier events are void.    *)
Begin ==
  /\ now = TagAt(0, 0)
  /\ now' \in Tag
  /\ now \prec now'
  /\ pending' = {event \in pending : now' \prec event.tag}
  /\ UNCHANGED present

(* Any events of the future are scheduled; those present may cease to be.  *)
Schedule ==
  /\ pending \subseteq pending'
  /\ pending' \subseteq pending \cup Future
  /\ present' \in {present, {}}
  /\ UNCHANGED now

Advance ==
  /\ \E event \in pending :
       /\ \A other \in pending : event.tag \preceq other.tag
       /\ now' = event.tag
  /\ pending' = {event \in pending : event.tag # now'}
  /\ present' = {event.action : event \in pending \ pending'} \ {NoAction}

Next == Begin \/ Schedule \/ Advance

Spec == Init /\ [][Next]_vars

=============================================================================
