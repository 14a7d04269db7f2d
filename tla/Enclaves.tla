------------------------------ MODULE Enclaves ------------------------------
(***************************************************************************)
(* Environments whose schedulers run concurrently, coupled by enclave      *)
(* connections.  An event that a reaction sends over a connection comes to *)
(* the downstream environment at the tag of the reaction, or at a delayed  *)
(* one, so the downstream environment must not pass that tag before.  It   *)
(* acquires each tag from all its connections: a tag that the upstream     *)
(* environment has not released is requested by an empty event there.      *)
(*                                                                         *)
(* An action is what an environment does under the scheduling mutexes, or  *)
(* one call to another environment, which takes the mutex of that one.     *)
(* Each wake-up is preceded by a notification (see Scheduler), so that     *)
(* a wait ends when its condition holds.  The physical time is left out:   *)
(* waiting for it takes time, but changes nothing.                         *)
(***************************************************************************)
EXTENDS Tags, FiniteSets

CONSTANTS
  Env,
  Topologies,          \* sets of connections
  NoDelay,             \* the delay of an EnclaveConnection that is not a delayed one
  FirstEvents,         \* the sets of tags for which startup() may schedule timers
  KeepsRunning,        \* environments with a physical action
  ShutdownReactions,   \* environments with a shutdown trigger
  StartTime,
  Delay,               \* the delays that reactions give to logical actions
  MaxTime, MaxMicro    \* bounds: the tags of events that reactions schedule

Connection == UNION Topologies

ASSUME ConnectionAssumption ==
  Connection # {} /\ \A c \in Connection : c.source \in Env /\ c.target \in Env /\ c.delay \in Nat \cup {NoDelay}
ASSUME TimesAssumption ==
  /\ StartTime \in Nat \ {0} /\ NoDelay \notin Nat /\ Delay \subseteq Nat
  /\ FirstEvents \in [Env -> SUBSET SUBSET Tag]
  /\ MaxTime \in Nat /\ MaxMicro \in Nat /\ MaxMicro < MaxMicrostep

VARIABLES
  connections,         \* the topology
  pc,
  logical_time,
  events,              \* event_queue_: the tags with an action to trigger
  empty_events,        \*   and those with none
  t_next, asked,       \* local to next(): the tag, the connection being asked,
  to_ask,              \*   and those still to be asked
  granted,             \* the request for an empty event was refused
  stop, continue_execution,
  to_release,          \* the callbacks that release_current_tag has still to call
  released_time,       \* of the barrier of each connection
  crashed              \* a microstep has overflown, which ends the program

asking == <<t_next, asked, to_ask, granted>>
control == <<stop, continue_execution>>
releasing == <<to_release, released_time>>
vars == <<connections, pc, logical_time, events, empty_events, asking, control, releasing, crashed>>

Location == {"start", "loop", "request", "wait", "react", "release", "done"}
Inputs(e) == {c \in connections : c.target = e}
Outputs(e) == {c \in connections : c.source = e}
Goto(e, l) == pc' = [pc EXCEPT ![e] = l]
At(e, l) == pc[e] = l /\ ~crashed

start_tag == from_physical_time(StartTime)
Queue(e) == events[e] \cup empty_events[e]
IsNext(e, tag) == tag \in Queue(e) /\ \A other \in Queue(e) : tag \preceq other

(* Every enclave connection is an input action of its environment.         *)
run_forever(e) == e \in KeepsRunning \/ Inputs(e) # {}

(* An environment without a connection runs alone, which is the subject of *)
(* Scheduler; it is left out here.                                         *)
Init ==
  /\ connections \in Topologies
  /\ pc = [e \in Env |-> IF Inputs(e) \cup Outputs(e) = {} THEN "done" ELSE "start"]
  /\ logical_time = [e \in Env |-> TagAt(0, 0)]
  /\ events \in [Env -> {{}} \cup UNION {FirstEvents[e] : e \in Env}]
  /\ \A e \in Env : events[e] \in IF pc[e] = "done" THEN {{}} ELSE FirstEvents[e]
  /\ empty_events = [e \in Env |-> {}]
  /\ t_next = [e \in Env |-> TagAt(0, 0)]
  /\ asked = [e \in Env |-> CHOOSE c \in Connection : TRUE]
  /\ to_ask = [e \in Env |-> {}]
  /\ granted = [e \in Env |-> FALSE]
  /\ stop = [e \in Env |-> FALSE]
  /\ to_release = [e \in Env |-> {}]
  /\ released_time = [c \in Connection |-> TagAt(0, 0)]
  /\ continue_execution = [e \in Env |-> TRUE]
  /\ crashed = FALSE

-----------------------------------------------------------------------------
start_fault(e) ==    \* the microstep underflows
  /\ At(e, "start")
  /\ logical_time' = [logical_time EXCEPT ![e] = TagAt(StartTime, -1)]
  /\ empty_events' = [empty_events EXCEPT ![e] = {tag \in @ : decrement(start_tag) \prec tag}]
  /\ Goto(e, "release")
  /\ to_release' = [to_release EXCEPT ![e] = Outputs(e)]
  /\ UNCHANGED <<connections, events, asking, control, released_time, crashed>>

(* Scheduler::start.  Requests may have come before; they are answered by  *)
(* the first release.                                                      *)
start(e) ==
  /\ At(e, "start")
  /\ logical_time' = [logical_time EXCEPT ![e] = decrement(start_tag)]
  /\ events' = [events EXCEPT ![e] = {tag \in @ : decrement(start_tag) \prec tag}]
  /\ empty_events' = [empty_events EXCEPT ![e] = {tag \in @ : decrement(start_tag) \prec tag}]
  /\ Goto(e, "release")
  /\ to_release' = [to_release EXCEPT ![e] = Outputs(e)]
  /\ UNCHANGED <<connections, asking, control, released_time, crashed>>

(* release_current_tag: one callback after the other, without the mutex.   *)
ReleaseTag(e, c) ==
  /\ At(e, "release") /\ c \in to_release[e]
  /\ released_time' = [released_time EXCEPT ![c] = logical_time[e]]
  /\ to_release' = [to_release EXCEPT ![e] = @ \ {c}]
  /\ UNCHANGED <<connections, pc, logical_time, events, empty_events, asking, control, crashed>>

Released(e) ==
  /\ At(e, "release") /\ to_release[e] = {}
  /\ Goto(e, IF continue_execution[e] THEN "loop" ELSE "done")
  /\ UNCHANGED <<connections, logical_time, events, empty_events, asking, control, releasing, crashed>>

-----------------------------------------------------------------------------
(* Acquiring a tag *)

UpstreamTag_fault(c, tag) ==    \* the latest microstep is forgotten
  IF c.delay = NoDelay THEN tag ELSE TagAt(tag.time - c.delay, tag.micro_step)

(* The latest tag upstream that can cause an event at the tag.             *)
UpstreamTag(c, tag) == IF c.delay = NoDelay THEN tag ELSE subtract(tag, c.delay)

try_acquire_tag(c, tag) == UpstreamTag(c, tag) \preceq released_time[c]

(* The logical time advances; a tag that triggers nothing is released.     *)
Take(e, tag) ==
  /\ logical_time' = [logical_time EXCEPT ![e] = tag]
  /\ events' = [events EXCEPT ![e] = @ \ {tag}]
  /\ empty_events' = [empty_events EXCEPT ![e] = @ \ {tag}]
  /\ Goto(e, IF tag \in events[e] THEN "react" ELSE "release")
  /\ to_release' = [to_release EXCEPT ![e] = IF tag \in events[e] THEN {} ELSE Outputs(e)]
  /\ UNCHANGED released_time

(* The connections S have not been asked yet.  The first that does not     *)
(* grant the tag at once is asked by an empty event, for which the mutex   *)
(* is given up.                                                            *)
Acquire(e, tag, S) ==
  \/ /\ \A c \in S : try_acquire_tag(c, tag)
     /\ Take(e, tag)
     /\ UNCHANGED asking
  \/ \E c \in S :
       /\ ~try_acquire_tag(c, tag)
       /\ t_next' = [t_next EXCEPT ![e] = tag]
       /\ asked' = [asked EXCEPT ![e] = c]
       /\ to_ask' = [to_ask EXCEPT ![e] = S \ {c}]
       /\ Goto(e, "request")
       /\ UNCHANGED <<logical_time, events, empty_events, granted, releasing>>

(* An iteration of the loop in next().                                     *)
Select(e) ==
  /\ At(e, "loop") /\ ~stop[e]
  /\ \E tag \in Queue(e) : IsNext(e, tag) /\ Acquire(e, tag, Inputs(e))
  /\ UNCHANGED <<connections, control, crashed>>

Request_fault(e) ==    \* no empty event is inserted
  LET u == asked[e].source
      tag == UpstreamTag(asked[e], t_next[e])
  IN  /\ At(e, "request")
      /\ granted' = [granted EXCEPT ![e] = tag \prec logical_time[u]]
      /\ Goto(e, "wait")
      /\ UNCHANGED <<connections, logical_time, events, empty_events, t_next, asked, to_ask, control,
                     releasing, crashed>>

(* schedule_empty_async_at on the upstream scheduler.  It is refused when  *)
(* the tag is over there, and not necessary when it is being processed.    *)
Request(e) ==
  LET u == asked[e].source
      tag == UpstreamTag(asked[e], t_next[e])
  IN  /\ At(e, "request")
      /\ granted' = [granted EXCEPT ![e] = tag \prec logical_time[u]]
      /\ empty_events' = [empty_events EXCEPT ![u] = @ \cup IF logical_time[u] \prec tag THEN {tag} ELSE {}]
      /\ Goto(e, "wait")
      /\ UNCHANGED <<connections, logical_time, events, t_next, asked, to_ask, control,
                     releasing, crashed>>

(* The tag is granted, and the next connections are asked, or an earlier   *)
(* event has come, and next() starts over.                                 *)
Resume(e) ==
  /\ At(e, "wait")
  /\ \/ /\ ~IsNext(e, t_next[e])
        /\ Goto(e, "loop")
        /\ UNCHANGED <<logical_time, events, empty_events, asking, releasing>>
     \/ /\ IsNext(e, t_next[e])
        /\ granted[e] \/ try_acquire_tag(asked[e], t_next[e])
        /\ Acquire(e, t_next[e], to_ask[e])
  /\ UNCHANGED <<connections, control, crashed>>

-----------------------------------------------------------------------------
(* Reactions *)

SentTag(c, tag) == IF c.delay = NoDelay THEN tag ELSE delay(tag, c.delay)

(* A reaction sets a port that is upstream of c.  An event that is not in  *)
(* the future of the downstream environment is refused, which is asserted  *)
(* not to happen.                                                          *)
Send(e, c) ==
  LET tag == SentTag(c, logical_time[e])
  IN  /\ At(e, "react") /\ c \in Outputs(e)
      /\ tag.time <= MaxTime /\ (c.delay = 0 => logical_time[e].micro_step < MaxMicro)
      /\ IF logical_time[c.target] \prec tag
         THEN events' = [events EXCEPT ![c.target] = @ \cup {tag}]
         ELSE UNCHANGED events
      /\ UNCHANGED <<connections, pc, logical_time, empty_events, asking, control, releasing, crashed>>

(* A reaction schedules a logical action. *)
ScheduleSync(e, d) ==
  /\ At(e, "react")
  /\ logical_time[e].time + d <= MaxTime /\ (d = 0 => logical_time[e].micro_step < MaxMicro)
  /\ events' = [events EXCEPT ![e] = @ \cup {delay(logical_time[e], d)}]
  /\ UNCHANGED <<connections, pc, logical_time, empty_events, asking, control, releasing, crashed>>

(* The events of sync_shutdown. *)
ShutdownEvents(e) ==
  IF e \in ShutdownReactions /\ ~stop[e] THEN {delay(logical_time[e], 0)} ELSE {}

ReactionShutdown(e) ==
  /\ At(e, "react") /\ ~stop[e]
  /\ logical_time[e].micro_step <= MaxMicro
  /\ events' = [events EXCEPT ![e] = @ \cup ShutdownEvents(e)]
  /\ stop' = [stop EXCEPT ![e] = TRUE]
  /\ UNCHANGED <<connections, pc, logical_time, empty_events, asking, continue_execution, releasing, crashed>>

EndReactions(e) ==
  /\ At(e, "react")
  /\ Goto(e, "release")
  /\ to_release' = [to_release EXCEPT ![e] = Outputs(e)]
  /\ UNCHANGED <<connections, logical_time, events, empty_events, asking, control, released_time, crashed>>

-----------------------------------------------------------------------------
(* The end: on request, or when there is nothing left to do *)

Stopping(e) == At(e, "loop") /\ (stop[e] \/ (Queue(e) = {} /\ ~run_forever(e)))

(* One more microstep may be processed, which is not acquired first.       *)
Stop(e) ==
  LET next == delay(logical_time[e], 0)
      queued == events[e] \cup ShutdownEvents(e)
  IN  /\ Stopping(e) /\ ~Overflows(logical_time[e], 0)
      /\ stop' = [stop EXCEPT ![e] = TRUE]
      /\ continue_execution' = [continue_execution EXCEPT ![e] = FALSE]
      /\ IF next \in queued \cup empty_events[e]
         THEN /\ logical_time' = [logical_time EXCEPT ![e] = next]
              /\ events' = [events EXCEPT ![e] = queued \ {next}]
              /\ empty_events' = [empty_events EXCEPT ![e] = @ \ {next}]
              /\ Goto(e, IF next \in queued THEN "react" ELSE "loop")
              /\ UNCHANGED to_release
         ELSE /\ Goto(e, "release")
              /\ to_release' = [to_release EXCEPT ![e] = Outputs(e)]
              /\ UNCHANGED <<logical_time, events, empty_events>>
      /\ UNCHANGED <<connections, asking, released_time, crashed>>

StopCrash(e) ==
  /\ Stopping(e) /\ Overflows(logical_time[e], 0)
  /\ crashed' = TRUE
  /\ UNCHANGED <<connections, pc, logical_time, events, empty_events, asking, control, releasing>>

Step(e) ==
  \/ start(e) \/ Released(e) \/ Select(e) \/ Request(e) \/ Resume(e)
  \/ EndReactions(e) \/ Stop(e) \/ StopCrash(e)
  \/ \E c \in connections : ReleaseTag(e, c)

Next ==
  \E e \in Env :
    \/ Step(e)
    \/ ReactionShutdown(e)
    \/ \E c \in connections : Send(e, c)
    \/ \E d \in Delay : ScheduleSync(e, d)

Spec == Init /\ [][Next]_vars
FairSpec == Spec /\ \A e \in Env : WF_vars(Step(e))

-----------------------------------------------------------------------------
(* Every variable keeps its type: microsteps stay within their width.      *)
TypeOK ==
  /\ connections \in Topologies
  /\ pc \in [Env -> Location]
  /\ logical_time \in [Env -> Tag]
  /\ events \in [Env -> SUBSET Tag] /\ empty_events \in [Env -> SUBSET Tag]
  /\ t_next \in [Env -> Tag] /\ asked \in [Env -> Connection]
  /\ to_ask \in [Env -> SUBSET Connection] /\ granted \in [Env -> BOOLEAN]
  /\ stop \in [Env -> BOOLEAN] /\ continue_execution \in [Env -> BOOLEAN]
  /\ to_release \in [Env -> SUBSET Connection]
  /\ released_time \in [Connection -> Tag]
  /\ crashed \in BOOLEAN

(* Whatever a reaction sends comes in time: the downstream environment has *)
(* not passed the tag of the event, however the two interleave, unless it  *)
(* is stopping (connection.hh:142, 206).                                   *)
EventsAccepted ==
  \A c \in connections :
    pc[c.source] = "react" /\ ~stop[c.target] /\ ~Overflows(logical_time[c.source], c.delay) =>
      logical_time[c.target] \prec SentTag(c, logical_time[c.source])

(* The environments whose events can reach e, and e itself. *)
UpstreamOf(e) ==
  LET hop[n \in Nat] ==
        IF n = 0 THEN {e}
        ELSE hop[n - 1] \cup {c.source : c \in {d \in connections : d.target \in hop[n - 1]}}
  IN  hop[Cardinality(Env)]

(* Environments do not block each other, in chains and delayed cycles      *)
(* either: a queued tag is processed, unless an environment that e depends *)
(* on has ended, which no longer answers (connection.hh:164).              *)
TagsAreGranted ==
  \A e \in Env : \A tag \in UNION FirstEvents[e] :
    tag \in Queue(e) ~> (tag \preceq logical_time[e] \/ crashed \/ \E u \in UpstreamOf(e) : pc[u] = "done")

(* validate(...) in Tag::delay: "Microstep overflow detected!"             *)
NoOverflow == ~crashed

=============================================================================
