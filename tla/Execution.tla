----------------------------- MODULE Execution ------------------------------
(***************************************************************************)
(* An assembled program at run time: how the environment `Here' processes  *)
(* tags.  Reactions of the same index run in parallel; what they set       *)
(* triggers other reactions, through the bindings of the ports, and sends  *)
(* events over connections.                                                *)
(*                                                                         *)
(* Which tag comes next is a matter of Scheduler, and how the workers      *)
(* share the reactions of a level one of WorkerPool.  Here any of the      *)
(* actions can be triggered at a tag, and any connection that has an       *)
(* event.  A reaction sets any of its ports, each more than once even.     *)
(***************************************************************************)
EXTENDS Assembly

CONSTANTS Here,
          Multiports,          \* the sets of ports that are in one multiport
          MaxTags, MaxSets     \* bounds: tags, and calls of set() by a reaction

ASSUME HereAssumption == Here \in Env /\ Multiports \subseteq SUBSET Port

VARIABLES
  stage,               \* where the thread that schedules stands
  tags,                \* the number of tags processed
  reaction_queue_pos,
  reaction_queue,      \* the reactions of each index, without repetitions
  triggered_reactions,
  ready, running,      \* of the level being processed
  calls,               \* the number of calls of set() by each reaction
  present,             \* the ports with present_
  set_ports,
  listed,              \* how often a port is in the list of its multiport
  pending,             \* connections with an event
  ran, seen, written   \* history of the tag: the reactions begun, the ports
                       \* each has found present, and the ports set

queues == <<reaction_queue_pos, reaction_queue, triggered_reactions>>
ports == <<present, set_ports, listed, pending, written>>
vars == <<assembly_vars, stage, tags, queues, ready, running, calls, ports, ran, seen>>

Index == 0..Cardinality(Reaction) - 1

(* is_present() is that of the port at the end of the inward bindings. *)
IsPresent(p) == Origin(p) \cap present # {}

RunInit ==
  /\ Init
  /\ stage = "cleanup" /\ tags = 0
  /\ reaction_queue_pos = 0
  /\ reaction_queue = [i \in Index |-> {}]
  /\ triggered_reactions = {} /\ ready = {} /\ running = {}
  /\ calls = [x \in Reaction |-> 0]
  /\ present = {} /\ set_ports = {} /\ listed = [p \in Port |-> 0]
  /\ pending = {} /\ written = {}
  /\ ran = {} /\ seen = [x \in Reaction |-> {}]

-----------------------------------------------------------------------------
(* Ports *)

(* The ports that set_port_helper() comes to from p. *)
Downstream(p) ==
  LET hop[n \in Nat] ==
        IF n = 0 THEN {p} ELSE LET S == hop[n - 1] IN S \cup UNION {outward_bindings[q] : q \in S}
  IN  hop[Cardinality(Port)]

Recorded_fault(p) == {p}    \* bound ports are not recorded for the cleanup
Recorded(p) == Downstream(p)

(* A connection is an action of the environment its source is in, one to   *)
(* an enclave of that of its sinks.  The events of others are a matter of  *)
(* Enclaves.                                                               *)
ActsHere(c) ==
  IF c.type \in EnclaveType THEN c.sinks \cap PortsOf(Here) # {} ELSE c.source \in PortsOf(Here)

SendsOver(p) == {c \in connections : c.source \in Downstream(p) /\ ActsHere(c)}

(* The callback of a port in a multiport adds the port to the list, unless *)
(* it is present already: set() makes it so only after set_port().         *)
Listed(p) ==
  {q \in Downstream(p) : (\E M \in Multiports : q \in M) /\ ~IsPresent(q)}

(* Port::set() and Scheduler::set_port() on each port of S.  Ports of      *)
(* other environments are set in the schedulers there; but whatever is     *)
(* bound to a port set here, wherever it is, is triggered here.            *)
SetPorts(S) ==
  LET mine == S \cap PortsOf(Here)
      reached == UNION {Downstream(p) : p \in mine}
  IN  /\ set_ports' = set_ports \cup UNION {Recorded(p) : p \in mine}
      /\ listed' = [q \in Port |-> IF \E p \in mine : q \in Listed(p) THEN listed[q] + 1 ELSE listed[q]]
      /\ triggered_reactions' = triggered_reactions \cup {x \in Reaction : port_trigger[x] \cap reached # {}}
      /\ present' = present \cup mine
      /\ written' = written \cup mine

-----------------------------------------------------------------------------
(* The tags *)

(* The scheduler is started after the contained environments. *)
Executing ==
  /\ ~failed /\ phase[Here] = "Execution"
  /\ \A e \in Env \ {top} : containing_environment[e] = Here => phase[e] = "Execution"

cleanup_after_tag ==
  /\ Executing /\ stage = "cleanup" /\ tags < MaxTags
  /\ present' = present \ set_ports
  /\ listed' = [q \in Port |->
       IF \E M \in Multiports : q \in M /\ M \cap set_ports # {} THEN 0 ELSE listed[q]]
  /\ set_ports' = {} /\ written' = {}
  /\ ran' = {} /\ seen' = [x \in Reaction |-> {}]
  /\ calls' = [x \in Reaction |-> 0]
  /\ tags' = tags + 1
  /\ stage' = "next"
  /\ UNCHANGED <<assembly_vars, queues, ready, running, pending>>

FirstPosition_fault == reaction_queue_pos    \* the scan goes on where the last tag has ended
FirstPosition == 0

(* The actions A and the connections C have events at the next tag.  Each  *)
(* connection sets its ports, which must not be bound to others.           *)
next(A, C) ==
  LET S == UNION {c.sinks : c \in C}
  IN  /\ Executing /\ stage = "next"
      /\ A # {} \/ C # {}
      /\ failed' = \E p \in S : inward_binding[p] # None
      /\ IF \E p \in S : inward_binding[p] # None
         THEN UNCHANGED <<triggered_reactions, ports>>
         ELSE /\ SetPorts(S)
              /\ pending' = (pending \ C) \cup UNION {SendsOver(p) : p \in S}
      /\ reaction_queue' = [i \in Index |-> reaction_queue[i] \cup
           {x \in ReactionsOf(Here) : action_triggers[x] \cap A # {} /\ index[x] = i}]
      /\ reaction_queue_pos' = FirstPosition
      /\ stage' = "schedule"
      /\ UNCHANGED <<phase, todo, declared, bound, indexes, tags, ready, running, calls, ran, seen>>

(* 0 until it has been calculated: that of a reaction of an environment    *)
(* that is started at the same time.                                       *)
Level(x) == IF index[x] = None THEN 0 ELSE index[x]

(* The reactions that have been triggered go to the queue.  The first      *)
(* level with reactions, not before the last one, is next; without any,    *)
(* the tag has been processed.                                             *)
schedule_ready_reactions ==
  LET queued == [i \in Index |-> reaction_queue[i] \cup {x \in triggered_reactions : Level(x) = i}]
      levels == {i \in Index : i >= reaction_queue_pos /\ queued[i] # {}}
  IN  /\ Executing /\ stage = "schedule"
      /\ triggered_reactions' = {}
      /\ IF levels = {}
         THEN /\ reaction_queue' = queued
              /\ stage' = "cleanup"
              /\ UNCHANGED <<reaction_queue_pos, ready>>
         ELSE LET i == CHOOSE j \in levels : \A k \in levels : j <= k
              IN  /\ reaction_queue_pos' = i
                  /\ ready' = queued[i]
                  /\ reaction_queue' = [queued EXCEPT ![i] = {}]
                  /\ stage' = "react"
      /\ UNCHANGED <<assembly_vars, tags, running, calls, ports, ran, seen>>

-----------------------------------------------------------------------------
(* The reactions *)

(* trigger() runs the body or, past the deadline, the handler. *)
trigger(x) ==
  /\ Executing /\ x \in ready
  /\ ready' = ready \ {x} /\ running' = running \cup {x}
  /\ ran' = ran \cup {x}
  /\ seen' = [seen EXCEPT ![x] = {p \in reads[x] : IsPresent(p)}]
  /\ UNCHANGED <<assembly_vars, stage, tags, queues, calls, ports>>

set(x, p) ==
  /\ Executing /\ x \in running /\ p \in antidependencies[x] /\ calls[x] < MaxSets
  /\ calls' = [calls EXCEPT ![x] = @ + 1]
  /\ failed' = (inward_binding[p] # None)
  /\ IF inward_binding[p] = None
     THEN SetPorts({p}) /\ pending' = pending \cup SendsOver(p)
     ELSE UNCHANGED <<triggered_reactions, ports>>
  /\ UNCHANGED <<phase, todo, declared, bound, indexes, stage, tags, reaction_queue,
                 reaction_queue_pos, ready, running, ran, seen>>

(* The last reaction of the level goes on with schedule(). *)
EndReaction(x) ==
  /\ Executing /\ x \in running
  /\ running' = running \ {x}
  /\ stage' = IF ready = {} /\ running = {x} THEN "schedule" ELSE stage
  /\ UNCHANGED <<assembly_vars, tags, queues, ready, calls, ports, ran, seen>>

EnclaveEvent(c) ==
  /\ Executing /\ c \in connections \ pending
  /\ c.source \notin PortsOf(Here)
  /\ ActsHere(c)
  /\ pending' = pending \cup {c}
  /\ UNCHANGED <<assembly_vars, stage, tags, queues, ready, running, calls, present, set_ports, listed, written, ran, seen>>

RunNext ==
  \/ Next /\ UNCHANGED <<stage, tags, queues, ready, running, calls, ports, ran, seen>>
  \/ cleanup_after_tag
  \/ \E A \in SUBSET Action, C \in SUBSET pending : next(A, C)
  \/ schedule_ready_reactions
  \/ \E x \in Reaction : trigger(x)
  \/ \E x \in Reaction, p \in Port : set(x, p)
  \/ \E x \in Reaction : EndReaction(x)
  \/ \E c \in connections : EnclaveEvent(c)

RunSpec == RunInit /\ [][RunNext]_vars

-----------------------------------------------------------------------------
(* Nothing keeps a port from being bound to two sources.  It then belongs  *)
(* to the later one, but is still triggered by the other.                  *)
BoundTwice ==
  \E p, q, r \in Port : p # q /\ r \in outward_bindings[p] \cap outward_bindings[q]

(* Nothing keeps a plain connection from leading to another environment,   *)
(* be it that it was drawn so or that it is instantiated like the first    *)
(* one of its port (GroupedByProperties).  Reactions there then belong to  *)
(* the queue here, at a level that may be past its end, and run beside     *)
(* their own environment.                                                  *)
CrossesEnvironments ==
  \E p \in Port : \E q \in outward_bindings[p] : environment[owner[q]] # environment[owner[p]]

(* A reaction finds a port in the same state whenever it looks within a    *)
(* tag, as if all that write the port had run before (scheduler.cc:212).   *)
StableInputs == \A x \in ran : seen[x] = {p \in reads[x] : IsPresent(p)}

(* The reactions of a reactor share its state without a lock: they never   *)
(* run in parallel (environment.cc:196).                                   *)
ReactorExclusive ==
  \A x, y \in running : home[x] = home[y] => x = y

(* A triggered reaction runs in the tag it is triggered in, and once       *)
(* (scheduler.cc:218).                                                     *)
TriggeredRunOnce ==
  ~BoundTwice => /\ ready \cap ran = {}
                 /\ stage \in {"cleanup", "next"} => \A i \in Index : reaction_queue[i] = {}

(* Of a tag nothing is left in the next: the ports present are those set   *)
(* in this tag and the ports bound to them, and a multiport lists each of  *)
(* its present ports once (multiport.cc:18).                               *)
PresenceOfThisTag ==
  /\ \A p \in Port : IsPresent(p) <=> Origin(p) \cap written # {}
  /\ ~BoundTwice => \A p \in Port : (\E M \in Multiports : p \in M) =>
                       listed[p] = IF IsPresent(p) THEN 1 ELSE 0

=============================================================================
