------------------------------ MODULE Assembly ------------------------------
(***************************************************************************)
(* From the construction of a program to its start: reactors draw          *)
(* connections and declare their reactions, the top environment            *)
(* instantiates the connections, and each environment computes from the    *)
(* declared dependencies the index by which reactions are ordered.         *)
(*                                                                         *)
(* A program is the sequence of the statements that the assemble() methods *)
(* of its reactors execute, in the order of the tree of reactors.          *)
(***************************************************************************)
EXTENDS Integers, Sequences, FiniteSets

CONSTANTS Env, top, containing_environment,
          Reactor, container, environment,    \* functions on reactors
          Port, Input, Action, owner,         \* the reactor of a port or action
          Reaction, home,                     \* the reactor of a reaction
          Priorities, Programs, None, MaxDepth

ConnectionType ==
  {"Normal", "Delayed", "Physical", "Enclaved", "DelayedEnclaved", "PhysicalEnclaved"}
EnclaveType == {"Enclaved", "DelayedEnclaved", "PhysicalEnclaved"}

Phase == {"Construction", "Assembly", "Indexing", "Execution"}

Statement ==
  [op : {"draw"}, from : Port, to : Port, type : ConnectionType]
    \cup [op : {"trigger", "dependency", "antidependency"}, reaction : Reaction, port : Port]
    \cup [op : {"action", "schedulable"}, reaction : Reaction, action : Action]

ASSUME StructureAssumption ==
  /\ top \in Env /\ containing_environment \in [Env \ {top} -> Env]
  /\ container \in [Reactor -> Reactor \cup {None}] /\ environment \in [Reactor -> Env]
  /\ \A r \in Reactor : container[r] \in Reactor => environment[r] = environment[container[r]]
  /\ Input \subseteq Port /\ owner \in [Port \cup Action -> Reactor]
  /\ home \in [Reaction -> Reactor] /\ IsFiniteSet(Reaction) /\ IsFiniteSet(Port)
  /\ None \notin Port \cup Nat

ASSUME ProgramAssumption ==
  /\ Priorities \subseteq [Reaction -> Nat]
  /\ Programs \subseteq Seq(Statement)
  /\ MaxDepth \in Nat

VARIABLES
  phase,               \* phase_, of each environment
  todo,                \* the statements still to be executed
  failed,              \* a validation has thrown
  priority,            \* of each reaction
  port_trigger, reads, antidependencies, action_triggers,    \* of each reaction
  graph,               \* graph_: the drawn connections of each source, in order
  instantiated,        \* the sources assemble() has done
  inward_binding, outward_bindings, connections,
  dependencies,        \* dependencies_, of each environment
  left,                \* the keys of the graph in calculate_indexes
  next_index, index, depth

declared == <<priority, port_trigger, reads, antidependencies, action_triggers, graph>>
bound == <<instantiated, inward_binding, outward_bindings, connections>>
indexes == <<dependencies, left, next_index, index, depth>>
assembly_vars == <<phase, todo, failed, declared, bound, indexes>>

ReactionsOf(e) == {x \in Reaction : environment[home[x]] = e}
PortsOf(e) == {p \in Port : environment[owner[p]] = e}
Sources == {p \in Port : graph[p] # <<>>}

Init ==
  /\ phase = [e \in Env |-> "Construction"]
  /\ todo \in Programs
  /\ failed = FALSE
  /\ priority \in Priorities
  /\ port_trigger = [x \in Reaction |-> {}]
  /\ reads = [x \in Reaction |-> {}]
  /\ antidependencies = [x \in Reaction |-> {}]
  /\ action_triggers = [x \in Reaction |-> {}]
  /\ graph = [p \in Port |-> <<>>]
  /\ instantiated = {}
  /\ inward_binding = [p \in Port |-> None]
  /\ outward_bindings = [p \in Port |-> {}]
  /\ connections = {}
  /\ dependencies = [e \in Env |-> {}]
  /\ left = [e \in Env |-> {}]
  /\ next_index = [e \in Env |-> None]
  /\ index = [x \in Reaction |-> None]
  /\ depth = [e \in Env |-> 0]

Construct ==
  /\ phase[top] = "Construction"
  /\ phase' = [e \in Env |-> "Assembly"]
  /\ UNCHANGED <<todo, failed, declared, bound, indexes>>

-----------------------------------------------------------------------------
(* The statements *)

Now(op) ==
  /\ ~failed /\ phase[top] = "Assembly"
  /\ todo # <<>> /\ Head(todo).op = op
  /\ todo' = Tail(todo)
  /\ UNCHANGED <<phase, priority, bound, indexes>>

add_edge(source, destination, properties) ==
  graph' = [graph EXCEPT ![source] = Append(@, [type |-> properties, to |-> destination])]

(* Of whatever environment, the graph is that of the top environment. *)
draw_connection ==
  /\ Now("draw")
  /\ LET s == Head(todo) IN add_edge(s.from, s.to, s.type)
  /\ UNCHANGED <<failed, port_trigger, reads, antidependencies, action_triggers>>

(* Inputs are read in their reactor, outputs in the containing one; they   *)
(* are written the other way round.  The bindings come only after all      *)
(* declarations, so that none is refused because of them.                  *)
MayRead(x, p) ==
  /\ home[x] = IF p \in Input THEN owner[p] ELSE container[owner[p]]
  /\ outward_bindings[p] = {}

MayWrite(x, p) ==
  /\ home[x] = IF p \in Input THEN container[owner[p]] ELSE owner[p]
  /\ inward_binding[p] = None

declare_dependency(op) ==
  /\ Now(op)
  /\ LET x == Head(todo).reaction
         p == Head(todo).port
         accepted == IF MayRead(x, p) THEN {p} ELSE {}
     IN  /\ failed' = ~MayRead(x, p)
         /\ reads' = [reads EXCEPT ![x] = @ \cup accepted]
         /\ port_trigger' = [port_trigger EXCEPT ![x] = IF op = "trigger" THEN @ \cup accepted ELSE @]
  /\ UNCHANGED <<antidependencies, action_triggers, graph>>

declare_antidependency ==
  /\ Now("antidependency")
  /\ LET x == Head(todo).reaction
         p == Head(todo).port
     IN  /\ failed' = ~MayWrite(x, p)
         /\ antidependencies' = [antidependencies EXCEPT ![x] = IF MayWrite(x, p) THEN @ \cup {p} ELSE @]
  /\ UNCHANGED <<port_trigger, reads, action_triggers, graph>>

declare_action(op) ==
  /\ Now(op)
  /\ LET x == Head(todo).reaction
         action == Head(todo).action
     IN  /\ failed' = (home[x] # owner[action])
         /\ action_triggers' = [action_triggers EXCEPT ![x] =
                                  IF op = "action" /\ home[x] = owner[action] THEN @ \cup {action} ELSE @]
  /\ UNCHANGED <<port_trigger, reads, antidependencies, graph>>

-----------------------------------------------------------------------------
(* The connections *)

(* Graph::get_edges().  Its comparison never tells properties apart, so    *)
(* that all connections of a source come under the one drawn first.        *)
Properties(p) == graph[p][1].type
Sinks(p) == {graph[p][i].to : i \in DOMAIN graph[p]}

Bundles(p) ==
  IF Properties(p) \in EnclaveType
  THEN {{q \in Sinks(p) : environment[owner[q]] = e} : e \in {environment[owner[q]] : q \in Sinks(p)}}
  ELSE {Sinks(p)}

instantiate_connection_to(p, sinks) == [source |-> p, type |-> Properties(p), sinks |-> sinks]

(* The loop of assemble(), in the order of the ports' addresses.           *)
Instantiate(p) ==
  /\ ~failed /\ phase[top] = "Assembly" /\ todo = <<>>
  /\ p \in Sources \ instantiated
  /\ instantiated' = instantiated \cup {p}
  /\ IF Properties(p) = "Normal"
     THEN /\ inward_binding' = [q \in Port |-> IF q \in Sinks(p) THEN p ELSE inward_binding[q]]
          /\ outward_bindings' = [outward_bindings EXCEPT ![p] = @ \cup Sinks(p)]
          /\ failed' = (p \in Sinks(p))
          /\ UNCHANGED connections
     ELSE /\ connections' = connections \cup {instantiate_connection_to(p, sinks) : sinks \in Bundles(p)}
          /\ UNCHANGED <<inward_binding, outward_bindings, failed>>
  /\ UNCHANGED <<phase, todo, declared, indexes>>

-----------------------------------------------------------------------------
(* The indexes *)

(* The ports that one comes to from p along the inward bindings, and the   *)
(* last of them.  Where the bindings form a cycle the loop does not end,   *)
(* and there is no last port.                                              *)
Upstream(p) ==
  LET hop[n \in Nat] ==
        IF n = 0 THEN {p} ELSE LET S == hop[n - 1] IN S \cup ({inward_binding[q] : q \in S} \ {None})
  IN  hop[Cardinality(Port)]
Origin(p) == {q \in Upstream(p) : inward_binding[q] = None}

Writers_fault(p) == {y \in Reaction : p \in antidependencies[y]}    \* bindings not followed
Writers(p) == {y \in Reaction : antidependencies[y] \cap Origin(p) # {}}

AfterWriters(e) ==
  {d \in ReactionsOf(e) \X Reaction : \E p \in reads[d[1]] : d[2] \in Writers(p)}

(* Each reaction depends on the one with the next smaller priority.        *)
InPriorityOrder_fault(e) == {}    \* forgotten
InPriorityOrder(e) ==
  LET Follows(x, y) == home[x] = home[y] /\ priority[y] < priority[x]
  IN  {d \in ReactionsOf(e) \X ReactionsOf(e) :
         Follows(d[1], d[2]) /\ ~\E z \in Reaction : Follows(d[1], z) /\ Follows(z, d[2])}

UniquePriorities(e) ==
  \A x, y \in ReactionsOf(e) : home[x] = home[y] /\ priority[x] = priority[y] => x = y

MayIndex(e) ==
  /\ ~failed /\ phase[e] = "Assembly"
  /\ IF e = top THEN todo = <<>> /\ Sources \subseteq instantiated
                ELSE phase[containing_environment[e]] = "Execution"

(* Called by startup() or by export_dependency_graph(). *)
build_dependency_graph(e) ==
  /\ MayIndex(e) /\ next_index[e] = None
  /\ \A x \in ReactionsOf(e), p \in Port : p \in reads[x] => Origin(p) # {}
  /\ failed' = ~UniquePriorities(e)
  /\ dependencies' = [dependencies EXCEPT ![e] = AfterWriters(e) \cup InPriorityOrder(e)]
  /\ left' = [left EXCEPT ![e] = ReactionsOf(e)]
  /\ next_index' = [next_index EXCEPT ![e] = 0]
  /\ UNCHANGED <<phase, todo, declared, bound, index, depth>>

(* Reactions all of whose dependencies have been erased from the graph.    *)
degree_zero(e) ==
  {x \in left[e] : \A y \in Reaction : <<x, y>> \in dependencies[e] => y \in ReactionsOf(e) \ left[e]}

calculate_indexes(e) ==
  /\ MayIndex(e) /\ next_index[e] # None /\ degree_zero(e) # {}
  /\ index' = [x \in Reaction |-> IF x \in degree_zero(e) THEN next_index[e] ELSE index[x]]
  /\ left' = [left EXCEPT ![e] = @ \ degree_zero(e)]
  /\ next_index' = [next_index EXCEPT ![e] = @ + 1]
  /\ UNCHANGED <<phase, todo, failed, declared, bound, dependencies, depth>>

(* A loop is to be reported by exporting the graph, which begins with      *)
(* calculating the indexes.                                                *)
ReportLoop(e) ==
  /\ MayIndex(e) /\ next_index[e] # None /\ left[e] # {} /\ degree_zero(e) = {}
  /\ depth[e] < MaxDepth
  /\ depth' = [depth EXCEPT ![e] = @ + 1]
  /\ left' = [left EXCEPT ![e] = ReactionsOf(e)]
  /\ next_index' = [next_index EXCEPT ![e] = 0]
  /\ UNCHANGED <<phase, todo, failed, declared, bound, dependencies, index>>

FinishIndexing(e) ==
  /\ MayIndex(e) /\ next_index[e] # None /\ left[e] = {}
  /\ phase' = [phase EXCEPT ![e] = "Indexing"]
  /\ UNCHANGED <<todo, failed, declared, bound, indexes>>

(* Indexing, Startup and Execution; the first events are in Scheduler. *)
Startup(e) ==
  /\ ~failed /\ phase[e] = "Indexing"
  /\ phase' = [phase EXCEPT ![e] = "Execution"]
  /\ UNCHANGED <<todo, failed, declared, bound, indexes>>

Assemble ==
  \/ Construct
  \/ draw_connection
  \/ \E op \in {"trigger", "dependency"} : declare_dependency(op)
  \/ declare_antidependency
  \/ \E op \in {"action", "schedulable"} : declare_action(op)
  \/ \E p \in Port : Instantiate(p)

MakeIndexes(e) ==
  \/ build_dependency_graph(e)
  \/ calculate_indexes(e)
  \/ ReportLoop(e)
  \/ FinishIndexing(e)
  \/ Startup(e)

Next == Assemble \/ \E e \in Env : MakeIndexes(e)

Spec == Init /\ [][Next]_assembly_vars

-----------------------------------------------------------------------------
Indexed(e) == phase[e] \in {"Indexing", "Execution"}

(* Indexes order what must not happen in parallel or the other way round:  *)
(* the reactions of a reactor by priority, and the reactions that read a   *)
(* port after those that write the port it is bound to.                    *)
IndexesOrder ==
  \A e \in Env : Indexed(e) =>
    /\ \A x, y \in ReactionsOf(e) :
         home[x] = home[y] /\ priority[y] < priority[x] => index[y] < index[x]
    /\ \A x \in ReactionsOf(e) : \A p \in reads[x] : \A y \in Writers(p) : index[y] < index[x]

(* environment.cc:313: a loop is reported; calculating does not start over. *)
LoopIsReported == \A e \in Env : depth[e] = 0

(* graph.hh:61: connections are grouped by source and properties, so that  *)
(* each connection is instantiated as the type it was drawn with.          *)
GroupedByProperties ==
  \A p \in instantiated : \A i \in DOMAIN graph[p] :
    LET q == graph[p][i].to
    IN  IF graph[p][i].type = "Normal"
        THEN q \in outward_bindings[p]
        ELSE \E c \in connections : c.source = p /\ c.type = graph[p][i].type /\ q \in c.sinks

=============================================================================
