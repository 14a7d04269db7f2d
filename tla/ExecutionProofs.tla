-------------------------- MODULE ExecutionProofs ---------------------------
(***************************************************************************)
(* Proofs about the indexes of reactions and what they are for, and about  *)
(* what reactions find in their ports and when they run, for all programs, *)
(* of any size, with any bindings, calls of set() and order of priorities. *)
(* What happens at run time is proved for programs whose bindings stay     *)
(* within the environments (~CrossesEnvironments).                         *)
(***************************************************************************)
EXTENDS Execution, TLAPS, FiniteSetTheorems, WellFoundedInduction

(* Nothing can be declared, bound or constructed any more. *)
Assembled ==
  /\ phase[top] # "Construction"
  /\ todo = <<>>
  /\ Sources \subseteq instantiated

TypeInv ==
  /\ phase \in [Env -> Phase]
  /\ priority \in [Reaction -> Nat]
  /\ dependencies \in [Env -> SUBSET (Reaction \X Reaction)]
  /\ left \in [Env -> SUBSET Reaction]
  /\ next_index \in [Env -> Nat \cup {None}]
  /\ index \in [Reaction -> Nat \cup {None}]

(* The graph is built once all that it is built from is fixed. *)
GraphInv(e) ==
  /\ next_index[e] # None =>
       /\ Assembled
       /\ left[e] \subseteq ReactionsOf(e)
       /\ dependencies[e] = AfterWriters(e) \cup InPriorityOrder(e)
       /\ ~failed => UniquePriorities(e)
  /\ Indexed(e) => next_index[e] # None /\ left[e] = {} /\ UniquePriorities(e)

(* What has been erased from the graph is closed under dependencies, and   *)
(* ordered.                                                                *)
IndexInv(e) ==
  next_index[e] # None =>
    /\ \A x \in ReactionsOf(e) \ left[e] : index[x] \in Nat /\ index[x] < next_index[e]
    /\ \A x \in ReactionsOf(e) \ left[e], y \in Reaction :
         <<x, y>> \in dependencies[e] =>
           y \in ReactionsOf(e) /\ y \notin left[e] /\ index[y] < index[x]

IInv == TypeInv /\ \A e \in Env : GraphInv(e) /\ IndexInv(e)

(* The variables that the invariant is about, apart from failed. *)
watched == <<phase, todo, declared, bound, indexes>>

LEMMA InitInv == Init => IInv
<1>. SUFFICES ASSUME Init PROVE IInv
  OBVIOUS
<1>1. TypeInv
  BY StructureAssumption, ProgramAssumption DEF Init, TypeInv, Phase
<1>2. \A e \in Env : next_index[e] = None /\ ~Indexed(e)
  BY DEF Init, Indexed
<1>. QED
  BY <1>1, <1>2 DEF IInv, GraphInv, IndexInv

(* Only what is not yet indexed can be disturbed when a validation fails.  *)
LEMMA Frame ==
  ASSUME IInv, UNCHANGED watched, failed => failed'
  PROVE  IInv'
<1>1. /\ phase' = phase /\ todo' = todo /\ dependencies' = dependencies /\ left' = left
      /\ next_index' = next_index /\ index' = index /\ priority' = priority
      /\ reads' = reads /\ antidependencies' = antidependencies /\ graph' = graph
      /\ instantiated' = instantiated /\ inward_binding' = inward_binding
  BY DEF watched, declared, bound, indexes
<1>2. TypeInv'
  BY <1>1 DEF IInv, TypeInv
<1>3. \A p \in Port : Origin(p)' = Origin(p)
  BY <1>1 DEF Origin, Upstream
<1>4. ASSUME NEW e \in Env PROVE GraphInv(e)' /\ IndexInv(e)'
  <2>1. AfterWriters(e)' = AfterWriters(e) /\ InPriorityOrder(e)' = InPriorityOrder(e)
        /\ UniquePriorities(e)' = UniquePriorities(e)
    BY <1>1 DEF AfterWriters, Writers, Origin, Upstream, InPriorityOrder, UniquePriorities, ReactionsOf
  <2>2. Assembled' = Assembled /\ Indexed(e)' = Indexed(e)
    BY <1>1 DEF Assembled, Sources, Indexed
  <2>3. GraphInv(e)'
    BY <1>1, <2>1, <2>2 DEF IInv, GraphInv, ReactionsOf
  <2>4. IndexInv(e)'
    BY <1>1 DEF IInv, IndexInv, ReactionsOf
  <2>. QED
    BY <2>3, <2>4
<1>. QED
  BY <1>2, <1>4 DEF IInv

(* After the graph of any environment has been built, assemble() is over.  *)
LEMMA NothingToAssemble ==
  ASSUME IInv, Assemble
  PROVE  \A e \in Env : next_index[e] = None
<1>1. ~Assembled
  <2>1. CASE Construct
    BY <2>1 DEF Construct, Assembled
  <2>2. CASE \E p \in Port : Instantiate(p)
    BY <2>2 DEF Instantiate, Assembled
  <2>. QED
    BY <2>1, <2>2 DEF Assemble, draw_connection, declare_dependency, declare_antidependency,
                      declare_action, Now, Assembled
<1>. QED
  BY <1>1 DEF IInv, GraphInv

LEMMA AssembleInv == ASSUME IInv, Assemble PROVE IInv'
<1>1. \A e \in Env : next_index[e] = None /\ ~Indexed(e)
  BY NothingToAssemble DEF IInv, GraphInv
<1>2. UNCHANGED <<indexes, priority>>
  BY DEF Assemble, Construct, draw_connection, declare_dependency, declare_antidependency,
         declare_action, Now, Instantiate, declared
<1>3. phase' \in [Env -> {"Construction", "Assembly"}]
  <2>1. CASE Construct
    BY <2>1 DEF Construct
  <2>2. CASE ~Construct
    <3>1. phase' = phase
      BY <2>2 DEF Assemble, draw_connection, declare_dependency, declare_antidependency,
                  declare_action, Now, Instantiate
    <3>. QED
      BY <1>1, <3>1 DEF IInv, TypeInv, Phase, Indexed
  <2>. QED
    BY <2>1, <2>2
<1>4. TypeInv'
  BY <1>2, <1>3 DEF IInv, TypeInv, indexes, Phase
<1>5. \A e \in Env : next_index'[e] = None /\ ~Indexed(e)'
  BY <1>1, <1>2, <1>3 DEF indexes, Indexed
<1>. QED
  BY <1>4, <1>5 DEF IInv, GraphInv, IndexInv

(* Whoever may index finds the program assembled. *)
LEMMA AssembledFirst ==
  ASSUME IInv, NEW e \in Env, MayIndex(e)
  PROVE  Assembled
<1>1. CASE e = top
  BY <1>1 DEF MayIndex, Assembled
<1>2. CASE e # top
  <2>1. containing_environment[e] \in Env /\ Indexed(containing_environment[e])
    BY <1>2, StructureAssumption DEF MayIndex, Indexed
  <2>. QED
    BY <2>1 DEF IInv, GraphInv
<1>. QED
  BY <1>1, <1>2

(* A step that indexes e leaves the other environments alone: they have    *)
(* other reactions.                                                        *)
LEMMA OthersUntouched ==
  ASSUME IInv, NEW e \in Env, NEW f \in Env, f # e,
         UNCHANGED <<todo, declared, bound>>,
         phase'[f] = phase[f], dependencies'[f] = dependencies[f], left'[f] = left[f],
         next_index'[f] = next_index[f],
         phase[top] # "Construction" => phase'[top] # "Construction",
         \A x \in Reaction \ ReactionsOf(e) : index'[x] = index[x],
         failed => failed'
  PROVE  GraphInv(f)' /\ IndexInv(f)'
<1>1. /\ priority' = priority /\ reads' = reads /\ antidependencies' = antidependencies
      /\ graph' = graph /\ instantiated' = instantiated /\ inward_binding' = inward_binding
  BY DEF declared, bound
<1>2. AfterWriters(f)' = AfterWriters(f) /\ InPriorityOrder(f)' = InPriorityOrder(f)
      /\ UniquePriorities(f)' = UniquePriorities(f)
  BY <1>1 DEF AfterWriters, Writers, Origin, Upstream, InPriorityOrder, UniquePriorities, ReactionsOf
<1>3. (Assembled => Assembled') /\ Indexed(f)' = Indexed(f)
  BY <1>1 DEF Assembled, Sources, Indexed
<1>4. GraphInv(f)'
  BY <1>1, <1>2, <1>3 DEF IInv, GraphInv, ReactionsOf
<1>5. \A x \in ReactionsOf(f) : index'[x] = index[x]
  BY DEF ReactionsOf
<1>6. IndexInv(f)'
  BY <1>5 DEF IInv, IndexInv, ReactionsOf
<1>. QED
  BY <1>4, <1>6

LEMMA BuildInv == ASSUME IInv, NEW e \in Env, build_dependency_graph(e) PROVE IInv'
<1>1. /\ Assembled /\ ~failed /\ UNCHANGED <<phase, todo, declared, bound, index, depth>>
      /\ failed' = ~UniquePriorities(e) /\ phase[e] = "Assembly"
  BY AssembledFirst DEF build_dependency_graph, MayIndex
<1>2. AfterWriters(e) \in SUBSET (Reaction \X Reaction)
      /\ InPriorityOrder(e) \in SUBSET (Reaction \X Reaction)
      /\ ReactionsOf(e) \in SUBSET Reaction
  BY DEF AfterWriters, InPriorityOrder, ReactionsOf
<1>3. TypeInv'
  BY <1>1, <1>2 DEF IInv, TypeInv, build_dependency_graph, declared
<1>4. ASSUME NEW f \in Env, f # e PROVE GraphInv(f)' /\ IndexInv(f)'
  BY <1>1, <1>4, OthersUntouched DEF build_dependency_graph, IInv, TypeInv
<1>5. /\ priority' = priority /\ reads' = reads /\ antidependencies' = antidependencies
      /\ graph' = graph /\ instantiated' = instantiated /\ inward_binding' = inward_binding
  BY <1>1 DEF declared, bound
<1>6. AfterWriters(e)' = AfterWriters(e) /\ InPriorityOrder(e)' = InPriorityOrder(e)
      /\ UniquePriorities(e)' = UniquePriorities(e) /\ ReactionsOf(e)' = ReactionsOf(e)
  BY <1>5 DEF AfterWriters, Writers, Origin, Upstream, InPriorityOrder, UniquePriorities, ReactionsOf
<1>7. Assembled' /\ ~Indexed(e)'
  BY <1>1, <1>5 DEF Assembled, Sources, Indexed
<1>8. /\ dependencies'[e] = AfterWriters(e) \cup InPriorityOrder(e)
      /\ left'[e] = ReactionsOf(e)
  BY DEF build_dependency_graph, IInv, TypeInv
<1>9. GraphInv(e)'
  BY <1>1, <1>6, <1>7, <1>8 DEF GraphInv
<1>10. IndexInv(e)'
  BY <1>6, <1>8 DEF IndexInv
<1>. QED
  BY <1>3, <1>4, <1>9, <1>10 DEF IInv

LEMMA CalculateInv == ASSUME IInv, NEW e \in Env, calculate_indexes(e) PROVE IInv'
<1>. DEFINE zero == degree_zero(e)
            n == next_index[e]
<1>1. /\ Assembled /\ phase[e] = "Assembly" /\ UNCHANGED <<phase, todo, failed, declared, bound, dependencies>>
      /\ n \in Nat /\ n # None /\ zero \subseteq left[e] /\ left[e] \subseteq ReactionsOf(e)
  BY AssembledFirst DEF calculate_indexes, MayIndex, IInv, TypeInv, GraphInv, degree_zero
<1>2. /\ \A x \in zero : index'[x] = n
      /\ \A x \in Reaction \ zero : index'[x] = index[x]
      /\ left'[e] = left[e] \ zero /\ next_index'[e] = n + 1
      /\ left' \in [Env -> SUBSET Reaction] /\ next_index' \in [Env -> Nat \cup {None}]
  BY <1>1 DEF calculate_indexes, IInv, TypeInv, ReactionsOf
<1>3. TypeInv'
  <2>1. index' \in [Reaction -> Nat \cup {None}]
    BY <1>1 DEF calculate_indexes, IInv, TypeInv
  <2>. QED
    BY <1>1, <1>2, <2>1 DEF IInv, TypeInv, declared
<1>4. ASSUME NEW f \in Env, f # e PROVE GraphInv(f)' /\ IndexInv(f)'
  <2>1. left'[f] = left[f] /\ next_index'[f] = next_index[f]
    BY <1>4 DEF calculate_indexes, IInv, TypeInv
  <2>2. \A x \in Reaction \ ReactionsOf(e) : index'[x] = index[x]
    BY <1>1, <1>2
  <2>. QED
    BY <1>1, <1>4, <2>1, <2>2, OthersUntouched
<1>5. /\ priority' = priority /\ reads' = reads /\ antidependencies' = antidependencies
      /\ graph' = graph /\ instantiated' = instantiated /\ inward_binding' = inward_binding
  BY <1>1 DEF declared, bound
<1>6. AfterWriters(e)' = AfterWriters(e) /\ InPriorityOrder(e)' = InPriorityOrder(e)
      /\ UniquePriorities(e)' = UniquePriorities(e) /\ ReactionsOf(e)' = ReactionsOf(e)
  BY <1>5 DEF AfterWriters, Writers, Origin, Upstream, InPriorityOrder, UniquePriorities, ReactionsOf
<1>7. Assembled' /\ ~Indexed(e)'
  BY <1>1, <1>5 DEF Assembled, Sources, Indexed
<1>8. GraphInv(e)'
  BY <1>1, <1>2, <1>6, <1>7 DEF GraphInv, IInv
<1>9. ASSUME NEW x \in ReactionsOf(e), x \notin left'[e]
      PROVE  /\ index'[x] \in Nat /\ index'[x] < n + 1
             /\ \A y \in Reaction : <<x, y>> \in dependencies[e] =>
                  y \in ReactionsOf(e) /\ y \notin left'[e] /\ index'[y] < index'[x]
  <2>1. IndexInv(e)
    BY DEF IInv
  <2>2. CASE x \in zero
    <3>1. index'[x] = n
      BY <1>2, <2>2
    <3>2. ASSUME NEW y \in Reaction, <<x, y>> \in dependencies[e]
          PROVE  y \in ReactionsOf(e) /\ y \notin left'[e] /\ index'[y] < index'[x]
      <4>1. y \in ReactionsOf(e) \ left[e]
        BY <2>2, <3>2 DEF degree_zero
      <4>2. index[y] < n /\ index'[y] = index[y]
        BY <1>1, <1>2, <2>1, <4>1 DEF IndexInv
      <4>. QED
        BY <1>2, <3>1, <4>1, <4>2
    <3>. QED
      BY <1>1, <3>1, <3>2
  <2>3. CASE x \notin zero
    <3>1. x \notin left[e] /\ x \in Reaction
      BY <1>2, <1>9, <2>3 DEF ReactionsOf
    <3>2. index'[x] = index[x] /\ index[x] \in Nat /\ index[x] < n
      BY <1>1, <1>2, <2>1, <2>3, <3>1 DEF IndexInv
    <3>3. ASSUME NEW y \in Reaction, <<x, y>> \in dependencies[e]
          PROVE  y \in ReactionsOf(e) /\ y \notin left'[e] /\ index'[y] < index'[x]
      <4>1. y \in ReactionsOf(e) /\ y \notin left[e] /\ index[y] < index[x]
        BY <1>1, <2>1, <3>1, <3>3 DEF IndexInv
      <4>. QED
        BY <1>1, <1>2, <3>2, <4>1
    <3>. QED
      BY <1>1, <3>2, <3>3
  <2>. QED
    BY <2>2, <2>3
<1>10. IndexInv(e)'
  BY <1>1, <1>2, <1>6, <1>9 DEF IndexInv
<1>. QED
  BY <1>3, <1>4, <1>8, <1>10 DEF IInv

LEMMA LoopInv == ASSUME IInv, NEW e \in Env, ReportLoop(e) PROVE IInv'
<1>1. /\ Assembled /\ phase[e] = "Assembly" /\ next_index[e] # None
      /\ UNCHANGED <<phase, todo, failed, declared, bound, dependencies, index>>
  BY AssembledFirst DEF ReportLoop, MayIndex
<1>2. /\ left'[e] = ReactionsOf(e) /\ next_index'[e] = 0
      /\ left' \in [Env -> SUBSET Reaction] /\ next_index' \in [Env -> Nat \cup {None}]
  BY DEF ReportLoop, IInv, TypeInv, ReactionsOf
<1>3. TypeInv'
  BY <1>1, <1>2 DEF IInv, TypeInv, declared
<1>4. ASSUME NEW f \in Env, f # e PROVE GraphInv(f)' /\ IndexInv(f)'
  <2>1. left'[f] = left[f] /\ next_index'[f] = next_index[f]
    BY <1>4 DEF ReportLoop, IInv, TypeInv
  <2>. QED
    BY <1>1, <1>4, <2>1, OthersUntouched
<1>5. /\ priority' = priority /\ reads' = reads /\ antidependencies' = antidependencies
      /\ graph' = graph /\ instantiated' = instantiated /\ inward_binding' = inward_binding
  BY <1>1 DEF declared, bound
<1>6. AfterWriters(e)' = AfterWriters(e) /\ InPriorityOrder(e)' = InPriorityOrder(e)
      /\ UniquePriorities(e)' = UniquePriorities(e) /\ ReactionsOf(e)' = ReactionsOf(e)
  BY <1>5 DEF AfterWriters, Writers, Origin, Upstream, InPriorityOrder, UniquePriorities, ReactionsOf
<1>7. Assembled' /\ ~Indexed(e)'
  BY <1>1, <1>5 DEF Assembled, Sources, Indexed
<1>8. GraphInv(e)'
  BY <1>1, <1>2, <1>6, <1>7 DEF GraphInv, IInv
<1>9. IndexInv(e)'
  BY <1>2, <1>6 DEF IndexInv
<1>. QED
  BY <1>3, <1>4, <1>8, <1>9 DEF IInv

(* FinishIndexing and Startup move on to the next phase. *)
LEMMA PhaseInv ==
  ASSUME IInv, NEW e \in Env, FinishIndexing(e) \/ Startup(e)
  PROVE  IInv'
<1>1. /\ next_index[e] # None /\ left[e] = {} /\ UniquePriorities(e)
      /\ UNCHANGED <<todo, failed, declared, bound, indexes>>
  BY DEF FinishIndexing, Startup, MayIndex, IInv, GraphInv, Indexed
<1>2. /\ phase' \in [Env -> Phase] /\ phase'[e] # "Construction"
      /\ \A f \in Env : f # e => phase'[f] = phase[f]
  BY DEF FinishIndexing, Startup, IInv, TypeInv, Phase
<1>3. /\ priority' = priority /\ reads' = reads /\ antidependencies' = antidependencies
      /\ graph' = graph /\ instantiated' = instantiated /\ inward_binding' = inward_binding
      /\ dependencies' = dependencies /\ left' = left /\ next_index' = next_index /\ index' = index
  BY <1>1 DEF declared, bound, indexes
<1>4. TypeInv'
  BY <1>2, <1>3 DEF IInv, TypeInv
<1>5. phase[top] # "Construction" => phase'[top] # "Construction"
  BY <1>2, StructureAssumption
<1>6. ASSUME NEW f \in Env, f # e PROVE GraphInv(f)' /\ IndexInv(f)'
  BY <1>1, <1>2, <1>3, <1>5, <1>6, OthersUntouched
<1>7. AfterWriters(e)' = AfterWriters(e) /\ InPriorityOrder(e)' = InPriorityOrder(e)
      /\ UniquePriorities(e)' = UniquePriorities(e) /\ ReactionsOf(e)' = ReactionsOf(e)
  BY <1>3 DEF AfterWriters, Writers, Origin, Upstream, InPriorityOrder, UniquePriorities, ReactionsOf
<1>8. Assembled => Assembled'
  BY <1>1, <1>3, <1>5 DEF Assembled, Sources
<1>9. GraphInv(e)'
  BY <1>1, <1>3, <1>7, <1>8 DEF GraphInv, IInv
<1>10. IndexInv(e)'
  BY <1>3, <1>7 DEF IInv, IndexInv
<1>. QED
  BY <1>4, <1>6, <1>9, <1>10 DEF IInv

LEMMA NextInv == ASSUME IInv, Next PROVE IInv'
BY AssembleInv, BuildInv, CalculateInv, LoopInv, PhaseInv DEF Next, MakeIndexes

-----------------------------------------------------------------------------
(* The invariant orders what dependencies_ relates; the reactions of one   *)
(* reactor are related over chains of dependencies.                        *)
LEMMA SmallestGap ==
  ASSUME NEW S \in SUBSET Nat, S # {}
  PROVE  \E n \in S : \A k \in S : n <= k
<1>. DEFINE Smaller == {pair \in Nat \X Nat : pair[1] < pair[2]}
<1>1. IsWellFoundedOn(Smaller, Nat)
  BY NatLessThanWellFounded DEF OpToRel
<1>. HIDE DEF Smaller
<1>2. PICK n \in S : \A k \in S : ~(<<k, n>> \in Smaller)
  BY <1>1, WFMin
<1>3. ASSUME NEW k \in S PROVE n <= k
  <2>1. ~(k < n)
    BY <1>2 DEF Smaller
  <2>. QED
    BY <2>1
<1>. QED
  BY <1>3

LEMMA PrioritiesOrdered ==
  ASSUME IInv, NEW e \in Env, Indexed(e),
         NEW x \in ReactionsOf(e), NEW y \in ReactionsOf(e),
         home[x] = home[y], priority[y] < priority[x]
  PROVE  index[y] < index[x]
<1>. DEFINE Unordered == {d \in ReactionsOf(e) \X ReactionsOf(e) :
                            /\ home[d[1]] = home[d[2]] /\ priority[d[2]] < priority[d[1]]
                            /\ ~(index[d[2]] < index[d[1]])}
            Gaps == {priority[d[1]] - priority[d[2]] : d \in Unordered}
<1>1. \A z \in ReactionsOf(e) : z \in Reaction /\ priority[z] \in Nat /\ index[z] \in Nat
  BY DEF ReactionsOf, IInv, TypeInv, GraphInv, IndexInv
<1>2. Unordered = {}
  <2>1. SUFFICES ASSUME Unordered # {} PROVE FALSE
    OBVIOUS
  <2>2. Gaps \in SUBSET Nat /\ Gaps # {}
    BY <1>1, <2>1
  <2>3. PICK gap \in Gaps : \A k \in Gaps : gap <= k
    BY <2>2, SmallestGap
  <2>4. PICK d \in Unordered : gap = priority[d[1]] - priority[d[2]]
    BY <2>3
  <2>. DEFINE u == d[1]
              v == d[2]
  <2>5. /\ u \in ReactionsOf(e) /\ v \in ReactionsOf(e) /\ d = <<u, v>>
        /\ home[u] = home[v] /\ priority[v] < priority[u] /\ ~(index[v] < index[u])
    BY <2>4
  <2>6. CASE \E w \in Reaction : /\ home[w] = home[u]
                                 /\ priority[v] < priority[w] /\ priority[w] < priority[u]
    <3>1. PICK w \in Reaction : /\ home[w] = home[u]
                                /\ priority[v] < priority[w] /\ priority[w] < priority[u]
      BY <2>6
    <3>2. w \in ReactionsOf(e)
      BY <2>5, <3>1 DEF ReactionsOf
    <3>3. index[v] < index[w]
      <4>1. SUFFICES ASSUME <<w, v>> \in Unordered PROVE FALSE
        BY <2>5, <3>1, <3>2
      <4>2. priority[w] - priority[v] \in Gaps
        BY <4>1
      <4>3. gap <= priority[w] - priority[v] /\ gap = priority[u] - priority[v]
        BY <2>3, <2>4, <4>2
      <4>4. priority[u] \in Nat /\ priority[v] \in Nat /\ priority[w] \in Nat
        BY <1>1, <2>5, <3>2
      <4>. QED
        BY <3>1, <4>3, <4>4
    <3>4. index[w] < index[u]
      <4>1. SUFFICES ASSUME <<u, w>> \in Unordered PROVE FALSE
        BY <2>5, <3>1, <3>2
      <4>2. priority[u] - priority[w] \in Gaps
        BY <4>1
      <4>3. gap <= priority[u] - priority[w] /\ gap = priority[u] - priority[v]
        BY <2>3, <2>4, <4>2
      <4>4. priority[u] \in Nat /\ priority[v] \in Nat /\ priority[w] \in Nat
        BY <1>1, <2>5, <3>2
      <4>. QED
        BY <3>1, <4>3, <4>4
    <3>. QED
      BY <1>1, <2>5, <3>2, <3>3, <3>4
  <2>7. CASE ~\E w \in Reaction : /\ home[w] = home[u]
                                  /\ priority[v] < priority[w] /\ priority[w] < priority[u]
    <3>1. <<u, v>> \in InPriorityOrder(e)
      BY <2>5, <2>7 DEF InPriorityOrder
    <3>2. <<u, v>> \in dependencies[e] /\ u \in ReactionsOf(e) \ left[e] /\ v \in Reaction
      BY <1>1, <2>5, <3>1 DEF IInv, GraphInv
    <3>3. index[v] < index[u]
      BY <3>2 DEF IInv, IndexInv, GraphInv
    <3>. QED
      BY <2>5, <3>3
  <2>. QED
    BY <2>6, <2>7
<1>3. SUFFICES ASSUME <<x, y>> \in Unordered PROVE FALSE
  OBVIOUS
<1>. QED
  BY <1>2, <1>3

LEMMA IndexesFollow == IInv => IndexesOrder
<1>. SUFFICES ASSUME IInv, NEW e \in Env, Indexed(e)
              PROVE  \A x \in ReactionsOf(e) : \A p \in reads[x] : \A y \in Writers(p) : index[y] < index[x]
  BY PrioritiesOrdered DEF IndexesOrder
<1>. TAKE x \in ReactionsOf(e)
<1>. TAKE p \in reads[x]
<1>. TAKE y \in Writers(p)
<1>2. <<x, y>> \in dependencies[e] /\ y \in Reaction
  BY DEF IInv, GraphInv, AfterWriters, Writers
<1>3. x \in ReactionsOf(e) \ left[e]
  BY DEF IInv, GraphInv
<1>. QED
  BY <1>2, <1>3 DEF IInv, GraphInv, IndexInv

(* The indexes an environment computes order the reactions of each reactor *)
(* by priority, and all that read a port after all that write it           *)
(* (environment.cc:169-205, 289-337).                                      *)
THEOREM AssemblyOrders == Spec => []IndexesOrder
<1>1. IInv /\ UNCHANGED assembly_vars => IInv'
  BY Frame DEF assembly_vars, watched
<1>. QED
  BY <1>1, InitInv, NextInv, IndexesFollow, PTL DEF Spec

-----------------------------------------------------------------------------
(* Recursive functions on natural numbers *)

LEMMA SetInduction ==
  ASSUME NEW S \in SUBSET Nat, 0 \in S, \A n \in S : n + 1 \in S
  PROVE  S = Nat
<1>. SUFFICES ASSUME Nat \ S # {} PROVE FALSE
  OBVIOUS
<1>1. PICK m \in Nat \ S : \A k \in Nat \ S : m <= k
  BY SmallestGap
<1>2. m - 1 \in Nat /\ ~(m <= m - 1)
  BY <1>1
<1>3. m - 1 \in S
  BY <1>1, <1>2
<1>. QED
  BY <1>1, <1>3

LEMMA Recursion ==
  ASSUME NEW T, NEW first \in T, NEW step \in [T -> T]
  PROVE  \E f \in [Nat -> T] : f[0] = first /\ \A n \in Nat : f[n + 1] = step[f[n]]
<1>. DEFINE Approx(n) == {g \in [0..n -> T] : g[0] = first /\ \A k \in 0..(n - 1) : g[k + 1] = step[g[k]]}
            Exists == {n \in Nat : Approx(n) # {}}
            Agree == {k \in Nat : \A n, m \in Nat : k <= n /\ k <= m =>
                                     \A g \in Approx(n), h \in Approx(m) : g[k] = h[k]}
<1>1. Exists = Nat
  <2>1. 0 \in Exists
    <3>1. [k \in 0..0 |-> first] \in Approx(0)
      OBVIOUS
    <3>. QED
      BY <3>1
  <2>2. ASSUME NEW n \in Exists PROVE n + 1 \in Exists
    <3>1. PICK g \in Approx(n) : TRUE
      OBVIOUS
    <3>. DEFINE h == [k \in 0..(n + 1) |-> IF k = n + 1 THEN step[g[n]] ELSE g[k]]
    <3>2. /\ g \in [0..n -> T] /\ g[0] = first /\ n \in Nat
          /\ \A k \in 0..(n - 1) : g[k + 1] = step[g[k]]
      BY <3>1
    <3>3. h \in [0..(n + 1) -> T] /\ h[0] = first
      BY <3>2
    <3>4. ASSUME NEW k \in 0..((n + 1) - 1) PROVE h[k + 1] = step[h[k]]
      <4>1. k \in 0..n /\ k \in 0..(n + 1) /\ k + 1 \in 0..(n + 1) /\ k # n + 1
        BY <3>2
      <4>2. h[k] = g[k]
        BY <4>1
      <4>3. CASE k = n
        BY <4>1, <4>2, <4>3
      <4>4. CASE k # n
        <5>1. k \in 0..(n - 1) /\ k + 1 # n + 1
          BY <3>2, <4>1, <4>4
        <5>. QED
          BY <3>2, <4>1, <4>2, <5>1
      <4>. QED
        BY <4>3, <4>4
    <3>. HIDE DEF h
    <3>5. h \in Approx(n + 1)
      BY <3>3, <3>4
    <3>6. n + 1 \in Nat
      BY <3>2
    <3>. HIDE DEF Approx
    <3>. QED
      BY <3>5, <3>6
  <2>. HIDE DEF Exists
  <2>3. Exists \in SUBSET Nat
    BY DEF Exists
  <2>. QED
    BY <2>1, <2>2, <2>3, SetInduction
<1>2. Agree = Nat
  <2>1. 0 \in Agree
    OBVIOUS
  <2>2. ASSUME NEW k \in Agree PROVE k + 1 \in Agree
    <3>. SUFFICES ASSUME NEW n \in Nat, NEW m \in Nat, k + 1 <= n, k + 1 <= m,
                         NEW g \in Approx(n), NEW h \in Approx(m)
                  PROVE  g[k + 1] = h[k + 1]
      OBVIOUS
    <3>1. k \in 0..(n - 1) /\ k \in 0..(m - 1) /\ k <= n /\ k <= m
      OBVIOUS
    <3>2. g[k] = h[k]
      <4>. HIDE DEF Approx
      <4>. QED
        BY <3>1
    <3>3. g[k + 1] = step[g[k]]
      BY <3>1
    <3>4. h[k + 1] = step[h[k]]
      BY <3>1
    <3>. QED
      BY <3>2, <3>3, <3>4
  <2>. HIDE DEF Agree
  <2>3. Agree \in SUBSET Nat
    BY DEF Agree
  <2>. QED
    BY <2>1, <2>2, <2>3, SetInduction
<1>. DEFINE approx(n) == CHOOSE g : g \in Approx(n)
            f == [n \in Nat |-> approx(n)[n]]
<1>3. \A n \in Nat : approx(n) \in Approx(n)
  BY <1>1
<1>. HIDE DEF approx
<1>4. \A n \in Nat : approx(n)[n] \in T /\ approx(n + 1)[n] = approx(n)[n]
  <2>. TAKE n \in Nat
  <2>1. approx(n) \in [0..n -> T] /\ n \in 0..n
    BY <1>3
  <2>2. n \in Agree
    <3>. HIDE DEF Agree
    <3>. QED
      BY <1>2
  <2>3. \A g \in Approx(n + 1), h \in Approx(n) : g[n] = h[n]
    <3>1. n + 1 \in Nat /\ n <= n /\ n <= n + 1
      OBVIOUS
    <3>. HIDE DEF Approx
    <3>. QED
      BY <2>2, <3>1
  <2>4. approx(n + 1) \in Approx(n + 1) /\ approx(n) \in Approx(n)
    <3>1. n + 1 \in Nat
      OBVIOUS
    <3>. QED
      BY <1>3, <3>1
  <2>5. approx(n + 1)[n] = approx(n)[n]
    <3>. HIDE DEF Approx
    <3>. QED
      BY <2>3, <2>4
  <2>. QED
    BY <2>1, <2>5
<1>5. ASSUME NEW n \in Nat PROVE f[n + 1] = step[f[n]]
  <2>1. n \in 0..((n + 1) - 1) /\ n + 1 \in Nat
    OBVIOUS
  <2>2. approx(n + 1)[n + 1] = step[approx(n + 1)[n]]
    BY <1>3, <2>1
  <2>. QED
    BY <1>4, <2>1, <2>2
<1>6. f[0] = first /\ f \in [Nat -> T]
  BY <1>3, <1>4
<1>. QED
  BY <1>5, <1>6

-----------------------------------------------------------------------------
(* Ports that are bound to each other *)

PortTypes ==
  /\ inward_binding \in [Port -> Port \cup {None}]
  /\ outward_bindings \in [Port -> SUBSET Port]

(* The hops from a port along some relation of ports *)
IsHops(h, p, neighbours) ==
  /\ h \in [Nat -> SUBSET Port]
  /\ h[0] = {p}
  /\ \A n \in Nat : h[n + 1] = h[n] \cup UNION {neighbours[q] : q \in h[n]}

Along == outward_bindings
Against == [q \in Port |-> {inward_binding[q]} \ {None}]

LEMMA HopsExist ==
  ASSUME NEW p \in Port, NEW neighbours \in [Port -> SUBSET Port]
  PROVE  \E h : IsHops(h, p, neighbours)
<1>. DEFINE step == [S \in SUBSET Port |-> S \cup UNION {neighbours[q] : q \in S}]
<1>1. step \in [SUBSET Port -> SUBSET Port] /\ {p} \in SUBSET Port
  OBVIOUS
<1>2. PICK f \in [Nat -> SUBSET Port] : f[0] = {p} /\ \A n \in Nat : f[n + 1] = step[f[n]]
  <2>. DEFINE T == SUBSET Port
              first == {p}
  <2>1. step \in [T -> T] /\ first \in T
    BY <1>1
  <2>. HIDE DEF step, T, first
  <2>2. \E f \in [Nat -> T] : f[0] = first /\ \A n \in Nat : f[n + 1] = step[f[n]]
    BY <2>1, Recursion
  <2>. QED
    BY <2>2 DEF T, first
<1>3. \A n \in Nat : f[n + 1] = f[n] \cup UNION {neighbours[q] : q \in f[n]}
  BY <1>2
<1>. QED
  BY <1>2, <1>3 DEF IsHops

LEMMA HopsTyped ==
  ASSUME NEW p \in Port, NEW neighbours \in [Port -> SUBSET Port], NEW h,
         h[0] = {p}, \A n \in Nat : h[n + 1] = h[n] \cup UNION {neighbours[q] : q \in h[n]}
  PROVE  \A n \in Nat : h[n] \in SUBSET Port
<1>. DEFINE S == {n \in Nat : h[n] \in SUBSET Port}
<1>1. 0 \in S
  OBVIOUS
<1>2. ASSUME NEW n \in S PROVE n + 1 \in S
  <2>1. \A q \in h[n] : neighbours[q] \in SUBSET Port
    OBVIOUS
  <2>2. h[n + 1] \in SUBSET Port
    BY <2>1
  <2>. QED
    BY <2>2
<1>. HIDE DEF S
<1>3. S \in SUBSET Nat
  BY DEF S
<1>4. S = Nat
  BY <1>1, <1>2, <1>3, SetInduction
<1>. QED
  BY <1>4 DEF S

LEMMA DownstreamHops ==
  ASSUME PortTypes, NEW p \in Port
  PROVE  \E h : IsHops(h, p, Along) /\ Downstream(p) = h[Cardinality(Port)]
<1>. DEFINE Hop(h) == h = [n \in Nat |-> IF n = 0 THEN {p} ELSE LET S == h[n - 1] IN S \cup UNION {outward_bindings[q] : q \in S}]
            hop == CHOOSE h : Hop(h)
<1>1. PICK f : IsHops(f, p, Along)
  BY HopsExist DEF PortTypes, Along
<1>2. Hop(f)
  <2>1. \A n \in Nat : f[n] = IF n = 0 THEN {p} ELSE LET S == f[n - 1] IN S \cup UNION {outward_bindings[q] : q \in S}
    <3>. TAKE n \in Nat
    <3>1. CASE n = 0
      BY <1>1, <3>1 DEF IsHops
    <3>2. CASE n # 0
      <4>1. n - 1 \in Nat /\ (n - 1) + 1 = n
        BY <3>2
      <4>. QED
        BY <1>1, <3>2, <4>1 DEF IsHops, Along
    <3>. QED
      BY <3>1, <3>2
  <2>. QED
    BY <1>1, <2>1 DEF IsHops
<1>3. Hop(hop)
  BY <1>2
<1>4. Downstream(p) = hop[Cardinality(Port)]
  BY DEF Downstream
<1>. HIDE DEF hop
<1>5. hop[0] = {p} /\ \A n \in Nat : hop[n + 1] = hop[n] \cup UNION {outward_bindings[q] : q \in hop[n]}
  <2>1. hop[0] = {p}
    BY <1>3
  <2>2. ASSUME NEW n \in Nat
        PROVE  hop[n + 1] = hop[n] \cup UNION {outward_bindings[q] : q \in hop[n]}
    <3>1. n + 1 \in Nat /\ n + 1 # 0 /\ (n + 1) - 1 = n
      OBVIOUS
    <3>. QED
      BY <1>3, <3>1
  <2>. QED
    BY <2>1, <2>2
<1>6. \A n \in Nat : hop[n] \in SUBSET Port
  BY <1>5, HopsTyped DEF PortTypes
<1>7. hop \in [Nat -> SUBSET Port]
  <2>1. hop = [n \in Nat |-> hop[n]]
    BY <1>3
  <2>. QED
    BY <1>6, <2>1
<1>8. IsHops(hop, p, Along)
  BY <1>5, <1>7 DEF IsHops, Along
<1>. QED
  BY <1>4, <1>8

LEMMA UpstreamHops ==
  ASSUME PortTypes, NEW p \in Port
  PROVE  \E h : IsHops(h, p, Against) /\ Upstream(p) = h[Cardinality(Port)]
<1>. DEFINE Hop(h) == h = [n \in Nat |-> IF n = 0 THEN {p} ELSE LET S == h[n - 1] IN S \cup ({inward_binding[q] : q \in S} \ {None})]
            hop == CHOOSE h : Hop(h)
<1>0. Against \in [Port -> SUBSET Port]
  BY DEF PortTypes, Against
<1>a. ASSUME NEW S \in SUBSET Port
      PROVE  UNION {Against[q] : q \in S} = {inward_binding[q] : q \in S} \ {None}
  <2>1. \A q \in S : Against[q] = {inward_binding[q]} \ {None}
    BY DEF Against
  <2>2. UNION {Against[q] : q \in S} = UNION {{inward_binding[q]} \ {None} : q \in S}
    BY <2>1
  <2>. QED
    BY <2>2
<1>1. PICK f : IsHops(f, p, Against)
  BY <1>0, HopsExist
<1>2. Hop(f)
  <2>1. \A n \in Nat : f[n] = IF n = 0 THEN {p} ELSE LET S == f[n - 1] IN S \cup ({inward_binding[q] : q \in S} \ {None})
    <3>. TAKE n \in Nat
    <3>1. CASE n = 0
      BY <1>1, <3>1 DEF IsHops
    <3>2. CASE n # 0
      <4>1. n - 1 \in Nat /\ (n - 1) + 1 = n
        BY <3>2
      <4>2. f[n] = f[n - 1] \cup UNION {Against[q] : q \in f[n - 1]}
        BY <1>1, <4>1 DEF IsHops
      <4>3. f[n - 1] \in SUBSET Port
        BY <1>1, <4>1 DEF IsHops
      <4>. QED
        BY <1>a, <3>2, <4>2, <4>3
    <3>. QED
      BY <3>1, <3>2
  <2>. QED
    BY <1>1, <2>1 DEF IsHops
<1>3. Hop(hop)
  BY <1>2
<1>4. Upstream(p) = hop[Cardinality(Port)]
  BY DEF Upstream
<1>. HIDE DEF hop
<1>5. hop[0] = {p} /\ \A n \in Nat : hop[n + 1] = hop[n] \cup ({inward_binding[q] : q \in hop[n]} \ {None})
  <2>1. hop[0] = {p}
    BY <1>3
  <2>2. ASSUME NEW n \in Nat
        PROVE  hop[n + 1] = hop[n] \cup ({inward_binding[q] : q \in hop[n]} \ {None})
    <3>1. n + 1 \in Nat /\ n + 1 # 0 /\ (n + 1) - 1 = n
      OBVIOUS
    <3>. QED
      BY <1>3, <3>1
  <2>. QED
    BY <2>1, <2>2
<1>6. hop = f
  <2>. DEFINE S == {n \in Nat : hop[n] = f[n]}
  <2>1. 0 \in S
    BY <1>1, <1>5 DEF IsHops
  <2>2. ASSUME NEW n \in S PROVE n + 1 \in S
    <3>1. f[n + 1] = f[n] \cup UNION {Against[q] : q \in f[n]} /\ f[n] \in SUBSET Port
      BY <1>1 DEF IsHops
    <3>2. hop[n + 1] = f[n] \cup ({inward_binding[q] : q \in f[n]} \ {None})
      BY <1>5
    <3>3. hop[n + 1] = f[n + 1]
      BY <1>a, <3>1, <3>2
    <3>. QED
      BY <3>3
  <2>. HIDE DEF S
  <2>3. S \in SUBSET Nat
    BY DEF S
  <2>4. S = Nat
    BY <2>1, <2>2, <2>3, SetInduction
  <2>5. \A n \in Nat : hop[n] = f[n]
    BY <2>4 DEF S
  <2>6. hop = [n \in Nat |-> hop[n]] /\ f = [n \in Nat |-> f[n]]
    BY <1>1, <1>3 DEF IsHops
  <2>. QED
    BY <2>5, <2>6
<1>. QED
  BY <1>1, <1>4, <1>6

LEMMA HopsUnique ==
  ASSUME NEW p \in Port, NEW neighbours, NEW g, NEW h,
         IsHops(g, p, neighbours), IsHops(h, p, neighbours)
  PROVE  g = h
<1>. DEFINE S == {n \in Nat : g[n] = h[n]}
<1>1. 0 \in S
  BY DEF IsHops
<1>2. ASSUME NEW n \in S PROVE n + 1 \in S
  <2>. DEFINE hop(T) == T \cup UNION {neighbours[q] : q \in T}
  <2>1. g[n + 1] = hop(g[n]) /\ h[n + 1] = hop(h[n])
    BY DEF IsHops
  <2>2. g[n] = h[n] /\ n + 1 \in Nat
    OBVIOUS
  <2>. HIDE DEF hop
  <2>3. hop(g[n]) = hop(h[n])
    BY <2>2
  <2>. QED
    BY <2>1, <2>2, <2>3
<1>. HIDE DEF S
<1>3. S \in SUBSET Nat
  BY DEF S
<1>4. S = Nat
  BY <1>1, <1>2, <1>3, SetInduction
<1>. QED
  BY <1>4 DEF S, IsHops

Hops(p, neighbours) == CHOOSE h : IsHops(h, p, neighbours)

LEMMA HopsMembers ==
  ASSUME NEW p \in Port, NEW neighbours \in [Port -> SUBSET Port]
  PROVE  /\ Hops(p, neighbours) \in [Nat -> SUBSET Port]
         /\ Hops(p, neighbours)[0] = {p}
         /\ \A n \in Nat, q \in Port :
              q \in Hops(p, neighbours)[n + 1] <=>
                q \in Hops(p, neighbours)[n] \/ \E r \in Hops(p, neighbours)[n] : q \in neighbours[r]
<1>1. IsHops(Hops(p, neighbours), p, neighbours)
  BY HopsExist DEF Hops
<1>. QED
  BY <1>1 DEF IsHops

(* The first hop instead of the last one                                   *)
LEMMA HopsFirst ==
  ASSUME NEW neighbours \in [Port -> SUBSET Port], NEW n \in Nat, NEW p \in Port, NEW q \in Port
  PROVE  q \in Hops(p, neighbours)[n + 1] <=>
           q = p \/ \E r \in neighbours[p] : q \in Hops(r, neighbours)[n]
<1>. DEFINE To(x) == Hops(x, neighbours)
            S == {k \in Nat : \A x, y \in Port :
                    y \in To(x)[k + 1] <=> y = x \/ \E r \in neighbours[x] : y \in To(r)[k]}
<1>1. \A x \in Port : /\ To(x) \in [Nat -> SUBSET Port] /\ To(x)[0] = {x}
                      /\ \A k \in Nat, y \in Port :
                           y \in To(x)[k + 1] <=> y \in To(x)[k] \/ \E r \in To(x)[k] : y \in neighbours[r]
  BY HopsMembers
<1>2. \A x \in Port : neighbours[x] \in SUBSET Port
  OBVIOUS
<1>. HIDE DEF To
<1>3. 0 \in S
  <2>. SUFFICES ASSUME NEW x \in Port, NEW y \in Port
                PROVE  y \in To(x)[0 + 1] <=> y = x \/ \E r \in neighbours[x] : y \in To(r)[0]
    OBVIOUS
  <2>. QED
    BY <1>1, <1>2
<1>4. ASSUME NEW k \in S PROVE k + 1 \in S
  <2>. SUFFICES ASSUME NEW x \in Port, NEW y \in Port
                PROVE  y \in To(x)[(k + 1) + 1] <=> y = x \/ \E r \in neighbours[x] : y \in To(r)[k + 1]
    OBVIOUS
  <2>0. k \in Nat /\ k + 1 \in Nat
    OBVIOUS
  <2>1. \A z \in Port : z \in To(x)[k + 1] <=> z = x \/ \E r \in neighbours[x] : z \in To(r)[k]
    OBVIOUS
  <2>2. y \in To(x)[(k + 1) + 1] <=> y \in To(x)[k + 1] \/ \E r \in To(x)[k + 1] : y \in neighbours[r]
    BY <1>1, <2>0
  <2>3. \A z \in Port : y \in To(z)[k + 1] <=> y \in To(z)[k] \/ \E r \in To(z)[k] : y \in neighbours[r]
    BY <1>1, <2>0
  <2>4. \A z \in Port : To(z)[k + 1] \in SUBSET Port /\ To(z)[k] \in SUBSET Port
    BY <1>1, <2>0
  <2>5. \A z \in Port : y \in To(z)[k + 1] <=> y = z \/ \E r \in neighbours[z] : y \in To(r)[k]
    OBVIOUS
  <2>. HIDE DEF S
  <2>6. ASSUME y \in To(x)[(k + 1) + 1]
        PROVE  y = x \/ \E r \in neighbours[x] : y \in To(r)[k + 1]
    <3>1. CASE y \in To(x)[k + 1]
      BY <1>2, <2>1, <2>3, <3>1
    <3>2. ASSUME NEW r \in To(x)[k + 1], y \in neighbours[r]
          PROVE  y = x \/ \E s \in neighbours[x] : y \in To(s)[k + 1]
      <4>1. CASE r = x
        BY <1>2, <2>5, <3>2, <4>1
      <4>2. ASSUME NEW s \in neighbours[x], r \in To(s)[k] PROVE y \in To(s)[k + 1]
        BY <1>2, <2>3, <3>2, <4>2
      <4>. QED
        BY <2>1, <2>4, <3>2, <4>1, <4>2
    <3>. QED
      BY <2>2, <2>6, <3>1, <3>2
  <2>7. ASSUME NEW r \in neighbours[x], y \in To(r)[k + 1]
        PROVE  y \in To(x)[(k + 1) + 1]
    <3>1. CASE y \in To(r)[k]
      BY <1>2, <2>1, <2>2, <3>1
    <3>2. ASSUME NEW s \in To(r)[k], y \in neighbours[s]
          PROVE  y \in To(x)[(k + 1) + 1]
      <4>1. s \in To(x)[k + 1]
        BY <1>2, <2>1, <2>4
      <4>. QED
        BY <2>2, <3>2, <4>1
    <3>. QED
      BY <1>2, <2>3, <2>7, <3>1, <3>2
  <2>8. y = x => y \in To(x)[(k + 1) + 1]
    BY <2>1, <2>2
  <2>. QED
    BY <2>6, <2>7, <2>8
<1>5. S = Nat
  <2>1. S \in SUBSET Nat
    OBVIOUS
  <2>. HIDE DEF S
  <2>. QED
    BY <1>3, <1>4, <2>1, SetInduction
<1>. QED
  BY <1>5 DEF To

(* Relations that are inverse to each other lead back.                     *)
LEMMA HopsInverse ==
  ASSUME NEW to \in [Port -> SUBSET Port], NEW back \in [Port -> SUBSET Port],
         \A p, q \in Port : q \in to[p] <=> p \in back[q],
         NEW n \in Nat, NEW p \in Port, NEW q \in Port
  PROVE  q \in Hops(p, to)[n] <=> p \in Hops(q, back)[n]
<1>. DEFINE S == {k \in Nat : \A x, y \in Port : y \in Hops(x, to)[k] <=> x \in Hops(y, back)[k]}
<1>1. 0 \in S
  <2>. SUFFICES ASSUME NEW x \in Port, NEW y \in Port
                PROVE  y \in Hops(x, to)[0] <=> x \in Hops(y, back)[0]
    OBVIOUS
  <2>1. Hops(x, to)[0] = {x} /\ Hops(y, back)[0] = {y}
    BY HopsMembers
  <2>. QED
    BY <2>1
<1>2. ASSUME NEW k \in S PROVE k + 1 \in S
  <2>. SUFFICES ASSUME NEW x \in Port, NEW y \in Port
                PROVE  y \in Hops(x, to)[k + 1] <=> x \in Hops(y, back)[k + 1]
    OBVIOUS
  <2>0. k \in Nat /\ \A a, b \in Port : b \in Hops(a, to)[k] <=> a \in Hops(b, back)[k]
    OBVIOUS
  <2>1. /\ Hops(x, to)[k] \in SUBSET Port
        /\ y \in Hops(x, to)[k + 1] <=> y \in Hops(x, to)[k] \/ \E r \in Hops(x, to)[k] : y \in to[r]
    BY <2>0, HopsMembers
  <2>2. /\ Hops(y, back)[k] \in SUBSET Port
        /\ x \in Hops(y, back)[k + 1] <=> x \in Hops(y, back)[k] \/ \E r \in Hops(y, back)[k] : x \in back[r]
    BY <2>0, HopsMembers
  <2>3. x \in Hops(y, back)[k + 1] <=> x = y \/ \E r \in back[y] : x \in Hops(r, back)[k]
    BY <2>0, HopsFirst
  <2>4. back[y] \in SUBSET Port
    OBVIOUS
  <2>5. x = y => y \in Hops(x, to)[k + 1]
    BY <2>0, HopsFirst
  <2>. HIDE DEF S
  <2>6. y \in Hops(x, to)[k + 1] => x \in Hops(y, back)[k + 1]
    BY <2>0, <2>1, <2>2, <2>3
  <2>7. x \in Hops(y, back)[k + 1] => y \in Hops(x, to)[k + 1]
    BY <2>0, <2>1, <2>3, <2>4, <2>5
  <2>. QED
    BY <2>6, <2>7
<1>3. S = Nat
  <2>1. S \in SUBSET Nat
    OBVIOUS
  <2>. HIDE DEF S
  <2>. QED
    BY <1>1, <1>2, <2>1, SetInduction
<1>. QED
  BY <1>3

LEMMA HopsStay ==
  ASSUME NEW p \in Port, NEW neighbours \in [Port -> SUBSET Port], NEW n \in Nat
  PROVE  p \in Hops(p, neighbours)[n] /\ Hops(p, neighbours)[n] \in SUBSET Port
<1>. DEFINE S == {k \in Nat : p \in Hops(p, neighbours)[k]}
<1>1. 0 \in S /\ \A k \in S : k + 1 \in S
  BY HopsMembers
<1>2. S = Nat
  <2>1. S \in SUBSET Nat
    OBVIOUS
  <2>. HIDE DEF S
  <2>. QED
    BY <1>1, <2>1, SetInduction
<1>. QED
  BY <1>2, HopsMembers

LEMMA DownstreamIs ==
  ASSUME PortTypes, NEW p \in Port
  PROVE  Downstream(p) = Hops(p, Along)[Cardinality(Port)]
<1>1. PICK h : IsHops(h, p, Along) /\ Downstream(p) = h[Cardinality(Port)]
  BY DownstreamHops
<1>2. IsHops(Hops(p, Along), p, Along)
  BY <1>1 DEF Hops
<1>. QED
  BY <1>1, <1>2, HopsUnique

LEMMA UpstreamIs ==
  ASSUME PortTypes, NEW p \in Port
  PROVE  Upstream(p) = Hops(p, Against)[Cardinality(Port)]
<1>1. PICK h : IsHops(h, p, Against) /\ Upstream(p) = h[Cardinality(Port)]
  BY UpstreamHops
<1>2. IsHops(Hops(p, Against), p, Against)
  BY <1>1 DEF Hops
<1>. QED
  BY <1>1, <1>2, HopsUnique

(* A port is downstream of itself. *)
LEMMA DownstreamStays ==
  ASSUME PortTypes, NEW p \in Port
  PROVE  p \in Downstream(p) /\ Downstream(p) \in SUBSET Port
<1>1. Along \in [Port -> SUBSET Port] /\ Cardinality(Port) \in Nat
  BY StructureAssumption, FS_CardinalityType DEF PortTypes, Along
<1>. QED
  BY <1>1, DownstreamIs, HopsStay

(* The bindings of a port to its source and of a source to its ports       *)
(* belong to each other.                                                   *)
Bindings ==
  /\ PortTypes
  /\ \A q \in Port : inward_binding[q] # None => q \in outward_bindings[inward_binding[q]]
  /\ \A p, q \in Port : q \in outward_bindings[p] => inward_binding[q] # None

(* From a port one comes back along the inward bindings to exactly those   *)
(* sources that trigger it.                                                *)
LEMMA ReachesOrigin ==
  ASSUME Bindings, ~BoundTwice, NEW p \in Port, NEW q \in Port
  PROVE  q \in Downstream(p) <=> p \in Upstream(q)
<1>1. Along \in [Port -> SUBSET Port] /\ Against \in [Port -> SUBSET Port] /\ Cardinality(Port) \in Nat
  BY StructureAssumption, FS_CardinalityType DEF Bindings, PortTypes, Along, Against
<1>2. ASSUME NEW x \in Port, NEW y \in Port
      PROVE  y \in Along[x] <=> x \in Against[y]
  <2>1. x \in Against[y] <=> x = inward_binding[y]
    BY StructureAssumption DEF Against
  <2>2. y \in outward_bindings[x] => inward_binding[y] = x
    <3>1. ASSUME y \in outward_bindings[x] PROVE inward_binding[y] \in Port /\ y \in outward_bindings[inward_binding[y]]
      BY <3>1 DEF Bindings, PortTypes
    <3>. QED
      BY <3>1 DEF BoundTwice
  <2>3. inward_binding[y] = x => y \in outward_bindings[x]
    BY StructureAssumption DEF Bindings
  <2>. QED
    BY <2>1, <2>2, <2>3 DEF Along
<1>. DEFINE n == Cardinality(Port)
<1>3. q \in Hops(p, Along)[n] <=> p \in Hops(q, Against)[n]
  <2>. HIDE DEF n
  <2>1. n \in Nat
    BY <1>1 DEF n
  <2>. QED
    BY <1>1, <1>2, <2>1, HopsInverse
<1>. QED
  BY <1>3, DownstreamIs, UpstreamIs DEF Bindings

(* Without plain connections between environments, all that is downstream  *)
(* of a port is in its environment.                                        *)
LEMMA DownstreamInside ==
  ASSUME PortTypes, ~CrossesEnvironments, NEW e, NEW p \in PortsOf(e)
  PROVE  Downstream(p) \subseteq PortsOf(e)
<1>1. p \in Port /\ Along \in [Port -> SUBSET Port] /\ Cardinality(Port) \in Nat
  BY StructureAssumption, FS_CardinalityType DEF PortTypes, Along, PortsOf
<1>. DEFINE h == Hops(p, Along)
            S == {n \in Nat : h[n] \subseteq PortsOf(e)}
<1>2. /\ h \in [Nat -> SUBSET Port] /\ h[0] = {p}
      /\ \A n \in Nat, q \in Port : q \in h[n + 1] <=> q \in h[n] \/ \E r \in h[n] : q \in Along[r]
  BY <1>1, HopsMembers
<1>. HIDE DEF h
<1>3. 0 \in S
  BY <1>2
<1>4. ASSUME NEW n \in S PROVE n + 1 \in S
  <2>1. n \in Nat /\ n + 1 \in Nat /\ h[n] \subseteq PortsOf(e) /\ h[n + 1] \in SUBSET Port
    BY <1>2
  <2>2. ASSUME NEW r \in PortsOf(e), NEW q \in Port, q \in Along[r] PROVE q \in PortsOf(e)
    BY <2>2 DEF CrossesEnvironments, PortsOf, Along
  <2>3. h[n + 1] \subseteq PortsOf(e)
    BY <1>2, <2>1, <2>2
  <2>. QED
    BY <2>1, <2>3
<1>5. S = Nat
  <2>1. S \in SUBSET Nat
    OBVIOUS
  <2>. HIDE DEF S
  <2>. QED
    BY <1>3, <1>4, <2>1, SetInduction
<1>6. Downstream(p) = h[Cardinality(Port)]
  BY <1>1, DownstreamIs DEF h
<1>. QED
  BY <1>1, <1>5, <1>6

-----------------------------------------------------------------------------
(* What a program may declare and draw *)

DeclaredInv ==
  /\ todo \in Seq(Statement)
  /\ reads \in [Reaction -> SUBSET Port]
  /\ port_trigger \in [Reaction -> SUBSET Port]
  /\ antidependencies \in [Reaction -> SUBSET Port]
  /\ \A x \in Reaction : port_trigger[x] \subseteq reads[x] /\ reads[x] \subseteq PortsOf(environment[home[x]])
  /\ graph \in [Port -> Seq([type : ConnectionType, to : Port])]
  /\ connections \subseteq [source : Port, type : ConnectionType, sinks : SUBSET Port]

BindInv == DeclaredInv /\ Bindings

(* Reactions read only ports of their own environment.                     *)
LEMMA ReadsInside ==
  ASSUME NEW x \in Reaction, NEW p \in Port, MayRead(x, p)
  PROVE  p \in PortsOf(environment[home[x]])
<1>1. home[x] \in Reactor /\ owner[p] \in Reactor
  BY StructureAssumption
<1>2. home[x] = owner[p] \/ home[x] = container[owner[p]]
  BY DEF MayRead
<1>3. environment[owner[p]] = environment[home[x]]
  BY <1>1, <1>2, StructureAssumption
<1>. QED
  BY <1>3 DEF PortsOf

LEMMA BindInit == Init => BindInv
<1>. SUFFICES ASSUME Init PROVE BindInv
  OBVIOUS
<1>1. todo \in Seq(Statement)
  BY ProgramAssumption DEF Init
<1>2. graph \in [Port -> Seq([type : ConnectionType, to : Port])]
  BY DEF Init
<1>. QED
  BY <1>1, <1>2 DEF Init, BindInv, DeclaredInv, Bindings, PortTypes

LEMMA BindFrame ==
  ASSUME BindInv, UNCHANGED <<todo, declared, bound>>
  PROVE  BindInv'
<1>1. /\ reads' = reads /\ port_trigger' = port_trigger /\ antidependencies' = antidependencies
      /\ graph' = graph /\ inward_binding' = inward_binding /\ outward_bindings' = outward_bindings
      /\ connections' = connections /\ todo' = todo
  BY DEF declared, bound
<1>. QED
  BY <1>1 DEF BindInv, DeclaredInv, Bindings, PortTypes

(* The statement that is executed, by its operation. *)
LEMMA Statements ==
  ASSUME DeclaredInv, todo # <<>>, NEW s, s = Head(todo)
  PROVE  /\ Tail(todo) \in Seq(Statement)
         /\ s.op = "draw" => s.from \in Port /\ s.to \in Port /\ s.type \in ConnectionType
         /\ s.op \in {"trigger", "dependency", "antidependency"} => s.reaction \in Reaction /\ s.port \in Port
<1>1. s \in Statement /\ Tail(todo) \in Seq(Statement)
  BY DEF DeclaredInv
<1>. QED
  BY <1>1 DEF Statement

LEMMA StatementInv ==
  ASSUME BindInv, Assemble, ~Construct, ~\E p \in Port : Instantiate(p)
  PROVE  BindInv'
<1>1. /\ todo # <<>> /\ todo' = Tail(todo) /\ UNCHANGED bound
  BY DEF Assemble, draw_connection, declare_dependency, declare_antidependency, declare_action, Now
<1>. DEFINE s == Head(todo)
<1>2. /\ todo' \in Seq(Statement)
      /\ s.op = "draw" => s.from \in Port /\ s.to \in Port /\ s.type \in ConnectionType
      /\ s.op \in {"trigger", "dependency", "antidependency"} => s.reaction \in Reaction /\ s.port \in Port
  BY <1>1, Statements DEF BindInv
<1>3. Bindings' /\ connections' = connections
  BY <1>1 DEF BindInv, Bindings, PortTypes, bound
<1>4. CASE draw_connection
  <2>1. /\ s.op = "draw" /\ graph' = [graph EXCEPT ![s.from] = Append(@, [type |-> s.type, to |-> s.to])]
        /\ UNCHANGED <<reads, port_trigger, antidependencies>>
    BY <1>4 DEF draw_connection, Now, add_edge
  <2>2. graph[s.from] \in Seq([type : ConnectionType, to : Port])
    BY <1>2, <2>1 DEF BindInv, DeclaredInv
  <2>3. Append(graph[s.from], [type |-> s.type, to |-> s.to]) \in Seq([type : ConnectionType, to : Port])
    <3>1. [type |-> s.type, to |-> s.to] \in [type : ConnectionType, to : Port]
      BY <1>2, <2>1
    <3>. QED
      BY <2>2, <3>1
  <2>4. graph' \in [Port -> Seq([type : ConnectionType, to : Port])]
    BY <2>1, <2>3 DEF BindInv, DeclaredInv
  <2>. QED
    BY <1>2, <1>3, <2>1, <2>4 DEF BindInv, DeclaredInv
<1>5. ASSUME NEW op \in {"trigger", "dependency"}, declare_dependency(op) PROVE BindInv'
  <2>. DEFINE x == s.reaction
              accepted == IF MayRead(x, s.port) THEN {s.port} ELSE {}
  <2>1. /\ s.op = op
        /\ reads' = [reads EXCEPT ![x] = @ \cup accepted]
        /\ port_trigger' = [port_trigger EXCEPT ![x] = IF op = "trigger" THEN @ \cup accepted ELSE @]
        /\ UNCHANGED <<antidependencies, graph>>
    BY <1>5 DEF declare_dependency, Now
  <2>2. x \in Reaction /\ accepted \in SUBSET Port /\ accepted \subseteq PortsOf(environment[home[x]])
    BY <1>2, <2>1, ReadsInside
  <2>. HIDE DEF accepted, s
  <2>. QED
    BY <1>2, <1>3, <2>1, <2>2 DEF BindInv, DeclaredInv
<1>6. CASE declare_antidependency
  <2>1. /\ s.op = "antidependency"
        /\ antidependencies' = [antidependencies EXCEPT ![s.reaction] =
                                   IF MayWrite(s.reaction, s.port) THEN @ \cup {s.port} ELSE @]
        /\ UNCHANGED <<port_trigger, reads, graph>>
    BY <1>6 DEF declare_antidependency, Now
  <2>2. s.reaction \in Reaction /\ s.port \in Port
    BY <1>2, <2>1
  <2>. HIDE DEF s
  <2>. QED
    BY <1>2, <1>3, <2>1, <2>2 DEF BindInv, DeclaredInv
<1>7. ASSUME NEW op \in {"action", "schedulable"}, declare_action(op) PROVE BindInv'
  <2>1. UNCHANGED <<port_trigger, reads, antidependencies, graph>>
    BY <1>7 DEF declare_action
  <2>. QED
    BY <1>2, <1>3, <2>1 DEF BindInv, DeclaredInv
<1>. QED
  BY <1>4, <1>5, <1>6, <1>7 DEF Assemble

LEMMA InstantiateInv ==
  ASSUME BindInv, NEW p \in Port, Instantiate(p)
  PROVE  BindInv'
<1>1. /\ UNCHANGED <<todo, declared>> /\ graph[p] # <<>>
      /\ graph \in [Port -> Seq([type : ConnectionType, to : Port])]
  BY DEF Instantiate, Sources, BindInv, DeclaredInv
<1>a. /\ graph[p][1] \in [type : ConnectionType, to : Port]
      /\ \A i \in DOMAIN graph[p] : graph[p][i] \in [type : ConnectionType, to : Port]
  <2>. DEFINE Edge == [type : ConnectionType, to : Port]
              edges == graph[p]
  <2>1. edges \in Seq(Edge) /\ edges # <<>>
    BY <1>1
  <2>. HIDE DEF Edge, edges
  <2>2. edges[1] \in Edge /\ \A i \in DOMAIN edges : edges[i] \in Edge
    BY <2>1
  <2>. QED
    BY <2>2 DEF Edge, edges
<1>2. Properties(p) \in ConnectionType
  BY <1>a DEF Properties
<1>3. Sinks(p) \in SUBSET Port
  BY <1>a DEF Sinks
<1>4. UNCHANGED <<reads, port_trigger, antidependencies, graph>>
  BY <1>1 DEF declared
<1>5. CASE Properties(p) = "Normal"
  <2>1. /\ inward_binding' = [q \in Port |-> IF q \in Sinks(p) THEN p ELSE inward_binding[q]]
        /\ outward_bindings' = [outward_bindings EXCEPT ![p] = @ \cup Sinks(p)]
        /\ UNCHANGED connections
    BY <1>5 DEF Instantiate
  <2>2. p # None
    BY StructureAssumption
  <2>. DEFINE sinks == Sinks(p)
  <2>3. /\ sinks \in SUBSET Port
        /\ inward_binding' = [q \in Port |-> IF q \in sinks THEN p ELSE inward_binding[q]]
        /\ outward_bindings' = [outward_bindings EXCEPT ![p] = @ \cup sinks]
    BY <1>3, <2>1
  <2>. HIDE DEF sinks
  <2>4. PortTypes'
    BY <2>3 DEF BindInv, Bindings, PortTypes
  <2>5. \A q \in Port : inward_binding'[q] # None => q \in outward_bindings'[inward_binding'[q]]
    BY <2>2, <2>3 DEF BindInv, Bindings, PortTypes
  <2>6. \A r, q \in Port : q \in outward_bindings'[r] => inward_binding'[q] # None
    BY <2>2, <2>3 DEF BindInv, Bindings, PortTypes
  <2>7. DeclaredInv'
    BY <1>1, <1>4, <2>1 DEF BindInv, DeclaredInv
  <2>. QED
    BY <2>4, <2>5, <2>6, <2>7 DEF BindInv, Bindings
<1>6. CASE Properties(p) # "Normal"
  <2>1. /\ UNCHANGED <<inward_binding, outward_bindings>>
        /\ connections' = connections \cup {instantiate_connection_to(p, sinks) : sinks \in Bundles(p)}
    BY <1>6 DEF Instantiate
  <2>2. Bundles(p) \subseteq SUBSET Port
    BY <1>3 DEF Bundles
  <2>3. \A sinks \in Bundles(p) :
          instantiate_connection_to(p, sinks) \in [source : Port, type : ConnectionType, sinks : SUBSET Port]
    BY <1>2, <2>2 DEF instantiate_connection_to
  <2>4. DeclaredInv'
    BY <1>1, <1>4, <2>1, <2>3 DEF BindInv, DeclaredInv
  <2>. QED
    BY <2>1, <2>4 DEF BindInv, Bindings, PortTypes
<1>. QED
  BY <1>5, <1>6

LEMMA BindNext == ASSUME BindInv, Next PROVE BindInv'
<1>1. CASE Construct \/ \E e \in Env : MakeIndexes(e)
  <2>1. UNCHANGED <<todo, declared, bound>>
    BY <1>1 DEF Construct, MakeIndexes, build_dependency_graph, calculate_indexes, ReportLoop,
                FinishIndexing, Startup
  <2>. QED
    BY <2>1, BindFrame
<1>2. CASE \E p \in Port : Instantiate(p)
  BY <1>2, InstantiateInv
<1>. QED
  BY <1>1, <1>2, StatementInv DEF Next

-----------------------------------------------------------------------------
(* The level being processed: its reactions have the same index, and all   *)
(* that waits is queued under its index.  All belong to Here unless a      *)
(* plain connection has led to another environment.                        *)
HereInv ==
  /\ \A x \in ready \cup running : x \in ReactionsOf(Here) /\ index[x] = reaction_queue_pos
  /\ \A i \in Index : \A x \in reaction_queue[i] : x \in ReactionsOf(Here) /\ index[x] = i
  /\ triggered_reactions \subseteq ReactionsOf(Here)

RunInv ==
  /\ stage # "react" => ready = {} /\ running = {}
  /\ ~Indexed(Here) => /\ stage = "cleanup" /\ triggered_reactions = {}
                       /\ \A i \in Index : reaction_queue[i] = {}
  /\ ~CrossesEnvironments => HereInv

(* Environments go on to be indexed while Here executes, which does not    *)
(* concern its reactions.                                                  *)
LEMMA IndexesStay ==
  ASSUME IInv, Next
  PROVE  /\ Indexed(Here) => Indexed(Here)' /\ \A x \in ReactionsOf(Here) : index'[x] = index[x]
<1>. SUFFICES ASSUME Indexed(Here)
              PROVE  Indexed(Here)' /\ \A x \in ReactionsOf(Here) : index'[x] = index[x]
  OBVIOUS
<1>1. Here \in Env
  BY HereAssumption
<1>2. ~Assemble
  BY <1>1, NothingToAssemble DEF IInv, GraphInv
<1>3. PICK e \in Env : MakeIndexes(e)
  BY <1>2 DEF Next
<1>4. Indexed(Here)'
  BY <1>1, <1>3 DEF MakeIndexes, build_dependency_graph, calculate_indexes, ReportLoop, FinishIndexing,
                    Startup, Indexed, IInv, TypeInv
<1>5. CASE calculate_indexes(e)
  <2>1. e # Here /\ degree_zero(e) \subseteq ReactionsOf(e)
    BY <1>5 DEF calculate_indexes, MayIndex, Indexed, degree_zero, IInv, GraphInv
  <2>2. \A x \in ReactionsOf(Here) : x \in Reaction /\ ~(x \in degree_zero(e))
    BY <2>1 DEF ReactionsOf
  <2>3. index' = [x \in Reaction |-> IF x \in degree_zero(e) THEN next_index[e] ELSE index[x]]
    BY <1>5 DEF calculate_indexes
  <2>. QED
    BY <1>4, <2>2, <2>3
<1>6. CASE ~calculate_indexes(e)
  <2>1. index' = index
    BY <1>3, <1>6 DEF MakeIndexes, build_dependency_graph, ReportLoop, FinishIndexing, Startup, indexes
  <2>. QED
    BY <1>4, <2>1
<1>. QED
  BY <1>4, <1>5, <1>6

(* A step of the execution disturbs nothing of what was assembled. *)
LEMMA RunFrame ==
  ASSUME RunNext
  PROVE  \/ Next /\ UNCHANGED <<stage, queues, ready, running>>
         \/ UNCHANGED watched /\ (failed => failed')
BY DEF RunNext, cleanup_after_tag, next, schedule_ready_reactions, trigger, set, EndReaction, EnclaveEvent,
       Executing, watched, assembly_vars

LEMMA RunNextInv == ASSUME IInv, RunNext PROVE IInv'
BY RunFrame, NextInv, Frame

(* What is declared and bound does not change any more.                    *)
LEMMA AssembledStays ==
  ASSUME IInv, Next, Indexed(Here)
  PROVE  UNCHANGED <<todo, declared, bound>>
<1>1. ~Assemble
  BY HereAssumption, NothingToAssemble DEF IInv, GraphInv
<1>. QED
  BY <1>1 DEF Next, MakeIndexes, build_dependency_graph, calculate_indexes, ReportLoop, FinishIndexing, Startup

LEMMA RunBind == ASSUME BindInv, RunNext PROVE BindInv'
BY RunFrame, BindNext, BindFrame DEF watched

LEMMA IndexTypes ==
  /\ Index \subseteq Nat /\ Cardinality(Reaction) \in Nat
  /\ ReactionsOf(Here) \subseteq Reaction
  /\ IInv /\ Indexed(Here) => \A x \in ReactionsOf(Here) : index[x] \in Nat
<1>1. Cardinality(Reaction) \in Nat
  BY StructureAssumption, FS_CardinalityType
<1>2. IInv /\ Indexed(Here) => \A x \in ReactionsOf(Here) : index[x] \in Nat
  BY HereAssumption DEF IInv, GraphInv, IndexInv
<1>. QED
  BY <1>1, <1>2 DEF Index, ReactionsOf

LEMMA RunInitInv == RunInit => IInv /\ RunInv
<1>. SUFFICES ASSUME RunInit PROVE IInv /\ RunInv
  OBVIOUS
<1>1. ~Indexed(Here)
  BY HereAssumption DEF RunInit, Init, Indexed
<1>. QED
  BY <1>1, InitInv DEF RunInit, RunInv, HereInv, ReactionsOf

(* What set() triggers is in the environment of the port. *)
LEMMA SetPortsTriggers ==
  ASSUME BindInv, ~CrossesEnvironments, NEW S, SetPorts(S), triggered_reactions \subseteq ReactionsOf(Here)
  PROVE  triggered_reactions' \subseteq ReactionsOf(Here)
<1>. SUFFICES ASSUME NEW x \in Reaction, NEW p \in S \cap PortsOf(Here), NEW q \in port_trigger[x], q \in Downstream(p)
              PROVE  x \in ReactionsOf(Here)
  BY DEF SetPorts
<1>1. q \in PortsOf(Here)
  BY DownstreamInside DEF BindInv, Bindings
<1>2. q \in PortsOf(environment[home[x]])
  BY DEF BindInv, DeclaredInv
<1>. QED
  BY <1>1, <1>2 DEF PortsOf, ReactionsOf

(* A reaction of Here goes to the level of its index.                      *)
LEMMA LevelIsIndex ==
  ASSUME IInv, Indexed(Here), NEW x \in ReactionsOf(Here)
  PROVE  Level(x) = index[x] /\ index[x] \in Nat
BY IndexTypes, StructureAssumption DEF Level

(* Of the levels that wait there is a first one, and what is queued in it  *)
(* has its index.                                                          *)
LEMMA ScheduleInv == ASSUME IInv, RunInv, schedule_ready_reactions PROVE RunInv'
<1>. DEFINE queued == [i \in Index |-> reaction_queue[i] \cup {x \in triggered_reactions : Level(x) = i}]
            levels == {i \in Index : i >= reaction_queue_pos /\ queued[i] # {}}
            i == CHOOSE j \in levels : \A k \in levels : j <= k
<1>1. UNCHANGED assembly_vars /\ Indexed(Here) /\ stage = "schedule" /\ running' = running /\ triggered_reactions' = {}
  BY DEF schedule_ready_reactions, Executing, Indexed
<1>2. ReactionsOf(Here)' = ReactionsOf(Here) /\ index' = index /\ Indexed(Here)'
      /\ CrossesEnvironments' = CrossesEnvironments
  BY <1>1 DEF ReactionsOf, assembly_vars, indexes, Indexed, bound, CrossesEnvironments
<1>3. ~CrossesEnvironments => \A k \in Index : \A x \in queued[k] : x \in ReactionsOf(Here) /\ index[x] = k
  BY <1>1, LevelIsIndex DEF RunInv, HereInv
<1>4. running = {} /\ ready = {}
  BY <1>1 DEF RunInv
<1>5. CASE levels = {}
  <2>1. reaction_queue' = queued /\ ready' = ready
    BY <1>5 DEF schedule_ready_reactions
  <2>. HIDE DEF queued
  <2>. QED
    BY <1>1, <1>2, <1>3, <1>4, <2>1 DEF RunInv, HereInv, Index
<1>6. CASE levels # {}
  <2>1. reaction_queue_pos' = i /\ ready' = queued[i] /\ reaction_queue' = [queued EXCEPT ![i] = {}]
        /\ stage' = "react"
    BY <1>6 DEF schedule_ready_reactions
  <2>2. Index \subseteq Nat
    BY StructureAssumption, FS_CardinalityType DEF Index
  <2>3. \E j \in levels : \A k \in levels : j <= k
    <3>. HIDE DEF queued
    <3>1. levels \in SUBSET Nat
      BY <2>2
    <3>. QED
      BY <1>6, <3>1, SmallestGap
  <2>4. i \in Index
    BY <2>3
  <2>5. \A k \in Index : reaction_queue'[k] \subseteq queued[k]
    BY <2>1
  <2>. HIDE DEF queued, i
  <2>6. ~CrossesEnvironments =>
          \A x \in ready' \cup running' : x \in ReactionsOf(Here) /\ index[x] = reaction_queue_pos'
    BY <1>1, <1>3, <1>4, <2>1, <2>4
  <2>. QED
    BY <1>1, <1>2, <1>3, <2>1, <2>5, <2>6 DEF RunInv, HereInv, Index
<1>. QED
  BY <1>5, <1>6

LEMMA RunInvNext == ASSUME IInv, BindInv, RunInv, RunNext PROVE RunInv'
<1>1. CASE Next /\ UNCHANGED <<stage, tags, queues, ready, running, calls, ports, ran, seen>>
  <2>1. ReactionsOf(Here)' = ReactionsOf(Here)
    BY DEF ReactionsOf
  <2>2. UNCHANGED <<stage, reaction_queue_pos, reaction_queue, triggered_reactions, ready, running>>
    BY <1>1 DEF queues
  <2>3. CASE Indexed(Here)
    <3>1. Indexed(Here)' /\ \A x \in ReactionsOf(Here) : index'[x] = index[x]
      BY <1>1, <2>3, IndexesStay
    <3>2. CrossesEnvironments' = CrossesEnvironments
      BY <1>1, <2>3, AssembledStays DEF bound, CrossesEnvironments
    <3>. QED
      BY <2>1, <2>2, <2>3, <3>1, <3>2 DEF RunInv, HereInv, Index
  <2>4. CASE ~Indexed(Here)
    <3>1. ready = {} /\ running = {} /\ triggered_reactions = {} /\ \A k \in Index : reaction_queue[k] = {}
      BY <2>4 DEF RunInv
    <3>. QED
      BY <2>2, <2>4, <3>1 DEF RunInv, HereInv, Index
  <2>. QED
    BY <2>3, <2>4
<1>2. CASE schedule_ready_reactions
  BY <1>2, ScheduleInv
<1>3. ASSUME NEW A \in SUBSET Action, NEW C \in SUBSET pending, next(A, C)
      PROVE  RunInv'
  <2>1. UNCHANGED <<phase, bound, indexes, ready, running>> /\ Indexed(Here) /\ stage = "next" /\ stage' = "schedule"
    BY <1>3 DEF next, Executing, Indexed
  <2>2. ReactionsOf(Here)' = ReactionsOf(Here) /\ index' = index /\ Indexed(Here)'
        /\ CrossesEnvironments' = CrossesEnvironments
    BY <2>1 DEF ReactionsOf, indexes, Indexed, bound, CrossesEnvironments
  <2>3. ~CrossesEnvironments => triggered_reactions' \subseteq ReactionsOf(Here)
    <3>1. SUFFICES ASSUME ~CrossesEnvironments PROVE triggered_reactions' \subseteq ReactionsOf(Here)
      OBVIOUS
    <3>2. triggered_reactions \subseteq ReactionsOf(Here)
      BY <3>1 DEF RunInv, HereInv
    <3>. QED
      BY <1>3, <3>1, <3>2, SetPortsTriggers DEF next
  <2>4. reaction_queue' = [i \in Index |-> reaction_queue[i] \cup
           {x \in ReactionsOf(Here) : action_triggers[x] \cap A # {} /\ index[x] = i}]
    BY <1>3 DEF next
  <2>5. ~CrossesEnvironments =>
          \A i \in Index : \A x \in reaction_queue'[i] : x \in ReactionsOf(Here) /\ index[x] = i
    BY <2>4 DEF RunInv, HereInv
  <2>6. ready' = {} /\ running' = {}
    BY <2>1 DEF RunInv
  <2>. QED
    BY <2>1, <2>2, <2>3, <2>5, <2>6 DEF RunInv, HereInv, Index
<1>4. ASSUME NEW x \in Reaction, NEW p \in Port, set(x, p)
      PROVE  RunInv'
  <2>1. UNCHANGED <<phase, bound, indexes, stage, reaction_queue_pos, reaction_queue, ready, running>> /\ Indexed(Here)
    BY <1>4 DEF set, Executing, Indexed
  <2>2. ReactionsOf(Here)' = ReactionsOf(Here) /\ index' = index /\ Indexed(Here)'
        /\ CrossesEnvironments' = CrossesEnvironments
    BY <2>1 DEF ReactionsOf, indexes, Indexed, bound, CrossesEnvironments
  <2>3. ~CrossesEnvironments => triggered_reactions' \subseteq ReactionsOf(Here)
    <3>1. SUFFICES ASSUME ~CrossesEnvironments PROVE triggered_reactions' \subseteq ReactionsOf(Here)
      OBVIOUS
    <3>2. triggered_reactions \subseteq ReactionsOf(Here)
      BY <3>1 DEF RunInv, HereInv
    <3>. QED
      BY <1>4, <3>1, <3>2, SetPortsTriggers DEF set
  <2>. QED
    BY <2>1, <2>2, <2>3 DEF RunInv, HereInv, Index
<1>5. CASE cleanup_after_tag \/ (\E x \in Reaction : trigger(x) \/ EndReaction(x)) \/ \E c \in connections : EnclaveEvent(c)
  <2>1. UNCHANGED <<phase, bound, indexes, queues>> /\ Indexed(Here)
    BY <1>5 DEF cleanup_after_tag, trigger, EndReaction, EnclaveEvent, Executing, Indexed, assembly_vars
  <2>2. ReactionsOf(Here)' = ReactionsOf(Here) /\ index' = index /\ Indexed(Here)'
        /\ CrossesEnvironments' = CrossesEnvironments
    BY <2>1 DEF ReactionsOf, indexes, Indexed, bound, CrossesEnvironments
  <2>3. ready' \cup running' \subseteq ready \cup running
    BY <1>5 DEF cleanup_after_tag, trigger, EndReaction, EnclaveEvent
  <2>4. stage' # "react" => ready' = {} /\ running' = {}
    <3>1. CASE cleanup_after_tag \/ \E c \in connections : EnclaveEvent(c)
      BY <3>1 DEF cleanup_after_tag, EnclaveEvent, RunInv
    <3>2. CASE \E x \in Reaction : trigger(x)
      BY <3>2 DEF trigger, RunInv
    <3>3. CASE \E x \in Reaction : EndReaction(x)
      BY <3>3 DEF EndReaction, RunInv
    <3>. QED
      BY <1>5, <3>1, <3>2, <3>3
  <2>. QED
    BY <2>1, <2>2, <2>3, <2>4 DEF RunInv, HereInv, Index, queues
<1>. QED
  BY <1>1, <1>2, <1>3, <1>4, <1>5 DEF RunNext

LEMMA RunInduction == RunSpec => [](IInv /\ BindInv /\ RunInv)
<1>1. ASSUME IInv, BindInv, RunInv, [RunNext]_vars PROVE IInv' /\ BindInv' /\ RunInv'
  <2>1. CASE RunNext
    BY <1>1, <2>1, RunNextInv, RunBind, RunInvNext
  <2>2. CASE UNCHANGED vars
    <3>1. IInv' /\ BindInv'
      BY <1>1, <2>2, Frame, BindFrame DEF vars, assembly_vars, watched
    <3>2. RunInv'
      <4>1. UNCHANGED <<phase, outward_bindings, index, stage, reaction_queue_pos, reaction_queue,
                        triggered_reactions, ready, running>>
        BY <2>2 DEF vars, assembly_vars, bound, indexes, queues
      <4>2. CrossesEnvironments' = CrossesEnvironments /\ HereInv' = HereInv /\ Indexed(Here)' = Indexed(Here)
        BY <4>1 DEF CrossesEnvironments, HereInv, Index, ReactionsOf, Indexed
      <4>. QED
        BY <1>1, <4>1, <4>2 DEF RunInv, Index
    <3>. QED
      BY <3>1, <3>2
  <2>. QED
    BY <1>1, <2>1, <2>2
<1>2. RunInit => BindInv
  BY BindInit DEF RunInit
<1>. QED
  BY RunInitInv, <1>1, <1>2, PTL DEF RunSpec

(* Indexes order the reactions while they are executed, too.               *)
THEOREM RunOrders == RunSpec => []IndexesOrder
BY RunInduction, IndexesFollow, PTL

(* Two reactions of one reactor have different priorities, so different    *)
(* indexes, and what runs in parallel has one index.                       *)
LEMMA OneOfAReactor == IInv /\ RunInv => (~CrossesEnvironments => ReactorExclusive)
<1>. SUFFICES ASSUME IInv, RunInv, ~CrossesEnvironments, NEW x \in running, NEW y \in running, home[x] = home[y]
              PROVE  x = y
  BY DEF ReactorExclusive
<1>1. x \in ReactionsOf(Here) /\ y \in ReactionsOf(Here) /\ index[x] = index[y]
  BY DEF RunInv, HereInv
<1>2. Here \in Env /\ Indexed(Here)
  BY HereAssumption DEF RunInv
<1>3. UniquePriorities(Here)
  BY <1>2 DEF IInv, GraphInv
<1>4. priority[x] \in Nat /\ priority[y] \in Nat /\ index[x] \in Nat
  BY <1>1, <1>2 DEF ReactionsOf, IInv, TypeInv, GraphInv, IndexInv
<1>5. ~(priority[x] < priority[y]) /\ ~(priority[y] < priority[x])
  BY <1>1, <1>2, <1>4, PrioritiesOrdered
<1>. QED
  BY <1>1, <1>3, <1>4, <1>5 DEF UniquePriorities

(* Reactions of one reactor never run in parallel, in any program without  *)
(* plain connections between environments (environment.cc:196,             *)
(* scheduler.cc:199-240).                                                  *)
THEOREM ReactorsAreExclusive == RunSpec => [](~CrossesEnvironments => ReactorExclusive)
BY RunInduction, OneOfAReactor, PTL

-----------------------------------------------------------------------------
(* What is present, what has begun, and what has been triggered *)

(* Nothing has happened before the execution.  The ports present are those *)
(* set in this tag; all that is downstream of them is recorded, and listed *)
(* if it is in a multiport.                                                *)
PortInv ==
  /\ ~Indexed(Here) => present = {} /\ listed = [p \in Port |-> 0] /\ pending = {}
  /\ present \subseteq Port /\ present = written
  /\ \A p \in present : Downstream(p) \subseteq set_ports
  /\ pending \subseteq connections
  /\ listed \in [Port -> Nat]
  /\ ~BoundTwice => \A p \in Port : (\E M \in Multiports : p \in M) =>
                       listed[p] = IF IsPresent(p) THEN 1 ELSE 0

(* No reaction of a level past the position has begun.                     *)
PastInv == ran \subseteq ReactionsOf(Here) /\ \A x \in ran : index[x] <= reaction_queue_pos

RanInv ==
  /\ ~Indexed(Here) \/ stage = "next" => ran = {}
  /\ running \subseteq ran
  /\ reaction_queue_pos \in Nat
  /\ stage = "schedule" /\ ran = {} => reaction_queue_pos = 0
  /\ ~CrossesEnvironments => PastInv

(* What reactions trigger is in the levels past the position.              *)
LevelInv ==
  /\ stage \in {"cleanup", "next", "schedule", "react"}
  /\ ~BoundTwice /\ ~CrossesEnvironments =>
       /\ ready \cap ran = {}
       /\ stage \in {"cleanup", "next"} =>
            triggered_reactions = {} /\ \A i \in Index : reaction_queue[i] = {}
       /\ stage = "react" \/ (stage = "schedule" /\ ran # {}) =>
            /\ \A i \in Index : i <= reaction_queue_pos => reaction_queue[i] = {}
            /\ \A x \in triggered_reactions : reaction_queue_pos < index[x]

-----------------------------------------------------------------------------
(* Steps of the execution *)

Queued(i) == reaction_queue[i] \cup {x \in triggered_reactions : Level(x) = i}

(* Either no level is left, or the first of those left becomes ready.      *)
LEMMA ScheduleStep ==
  ASSUME schedule_ready_reactions
  PROVE  /\ stage = "schedule" /\ Indexed(Here) /\ triggered_reactions' = {}
         /\ UNCHANGED <<assembly_vars, tags, running, calls, ports, ran, seen>>
         /\ \/ /\ stage' = "cleanup" /\ UNCHANGED <<reaction_queue_pos, ready>>
               /\ \A k \in Index : reaction_queue'[k] = Queued(k)
               /\ \A k \in Index : k >= reaction_queue_pos => Queued(k) = {}
            \/ /\ stage' = "react" /\ reaction_queue_pos' \in Index
               /\ reaction_queue_pos' >= reaction_queue_pos
               /\ ready' = Queued(reaction_queue_pos') /\ ready' # {}
               /\ reaction_queue'[reaction_queue_pos'] = {}
               /\ \A k \in Index : k # reaction_queue_pos' => reaction_queue'[k] = Queued(k)
               /\ \A k \in Index : k >= reaction_queue_pos /\ k < reaction_queue_pos' => Queued(k) = {}
<1>. DEFINE queued == [i \in Index |-> Queued(i)]
            levels == {i \in Index : i >= reaction_queue_pos /\ queued[i] # {}}
            i == CHOOSE j \in levels : \A k \in levels : j <= k
<1>1. /\ stage = "schedule" /\ Indexed(Here) /\ triggered_reactions' = {}
      /\ UNCHANGED <<assembly_vars, tags, running, calls, ports, ran, seen>>
  BY DEF schedule_ready_reactions, Executing, Indexed
<1>2. CASE levels = {}
  <2>1. reaction_queue' = queued /\ stage' = "cleanup" /\ UNCHANGED <<reaction_queue_pos, ready>>
    BY <1>2 DEF schedule_ready_reactions, Queued
  <2>. QED
    BY <1>1, <1>2, <2>1
<1>3. CASE levels # {}
  <2>1. reaction_queue_pos' = i /\ ready' = queued[i] /\ reaction_queue' = [queued EXCEPT ![i] = {}]
        /\ stage' = "react"
    BY <1>3 DEF schedule_ready_reactions, Queued
  <2>2. \E j \in levels : \A k \in levels : j <= k
    <3>. HIDE DEF queued
    <3>1. levels \in SUBSET Nat
      BY IndexTypes
    <3>. QED
      BY <1>3, <3>1, SmallestGap
  <2>. HIDE DEF levels
  <2>3. i \in levels /\ \A k \in levels : i <= k
    BY <2>2
  <2>. USE DEF levels
  <2>. HIDE DEF i
  <2>4. \A k \in Index : k >= reaction_queue_pos /\ k < i => Queued(k) = {}
    BY <2>3, IndexTypes
  <2>. QED
    BY <1>1, <2>1, <2>3, <2>4
<1>. QED
  BY <1>2, <1>3

LEMMA RanInit == RunInit => RanInv
BY DEF RunInit, RanInv, PastInv

LEMMA RanNext == ASSUME IInv, RunInv, RanInv, RunNext PROVE RanInv'
<1>. DEFINE here == ReactionsOf(Here)
<1>0. here' = here
  BY DEF ReactionsOf
<1>. HIDE DEF here
<1>1. CASE Next /\ UNCHANGED <<stage, tags, queues, ready, running, calls, ports, ran, seen>>
  <2>1. UNCHANGED <<stage, reaction_queue_pos, running, ran>>
    BY <1>1 DEF queues
  <2>2. CASE Indexed(Here)
    <3>1. Indexed(Here)' /\ \A x \in here : index'[x] = index[x]
      BY <1>1, <2>2, IndexesStay DEF here
    <3>2. CrossesEnvironments' = CrossesEnvironments
      BY <1>1, <2>2, AssembledStays DEF bound, CrossesEnvironments
    <3>. QED
      BY <1>0, <2>1, <2>2, <3>1, <3>2 DEF RanInv, PastInv, here
  <2>3. CASE ~Indexed(Here)
    <3>1. ran = {} /\ stage = "cleanup"
      BY <2>3 DEF RanInv, RunInv
    <3>. QED
      BY <1>0, <2>1, <3>1 DEF RanInv, PastInv, here
  <2>. QED
    BY <2>2, <2>3
<1>2. CASE schedule_ready_reactions
  <2>1. /\ Indexed(Here)' /\ index' = index /\ UNCHANGED <<running, ran>> /\ stage' # "next" /\ stage' # "schedule"
        /\ reaction_queue_pos' \in Nat /\ reaction_queue_pos' >= reaction_queue_pos
        /\ CrossesEnvironments' = CrossesEnvironments
    <3>1. Indexed(Here) /\ UNCHANGED assembly_vars /\ UNCHANGED <<running, ran>>
      BY <1>2, ScheduleStep
    <3>2. Indexed(Here)' /\ index' = index /\ CrossesEnvironments' = CrossesEnvironments
      BY <3>1 DEF assembly_vars, indexes, bound, Indexed, CrossesEnvironments
    <3>3. \/ stage' = "cleanup" /\ reaction_queue_pos' = reaction_queue_pos
          \/ stage' = "react" /\ reaction_queue_pos' \in Index /\ reaction_queue_pos' >= reaction_queue_pos
      BY <1>2, ScheduleStep
    <3>4. reaction_queue_pos \in Nat
      BY DEF RanInv
    <3>5. Index \subseteq Nat
      BY IndexTypes
    <3>6. reaction_queue_pos' \in Nat /\ reaction_queue_pos' >= reaction_queue_pos
      <4>1. CASE reaction_queue_pos' = reaction_queue_pos
        BY <3>4, <4>1
      <4>2. CASE reaction_queue_pos' \in Index /\ reaction_queue_pos' >= reaction_queue_pos
        BY <3>5, <4>2
      <4>. QED
        BY <3>3, <4>1, <4>2
    <3>. QED
      BY <3>1, <3>2, <3>3, <3>6
  <2>2. ~CrossesEnvironments => \A x \in ran : index[x] \in Nat
    BY <1>2, ScheduleStep, IndexTypes DEF RanInv, PastInv
  <2>3. ~CrossesEnvironments => PastInv'
    <3>1. reaction_queue_pos \in Nat
      BY DEF RanInv
    <3>. QED
      BY <1>0, <2>1, <2>2, <3>1 DEF RanInv, PastInv, here
  <2>. QED
    BY <2>1, <2>3 DEF RanInv
<1>3. CASE ~(Next /\ UNCHANGED <<stage, tags, queues, ready, running, calls, ports, ran, seen>>) /\ ~schedule_ready_reactions
  <2>1. Indexed(Here)' /\ index' = index /\ CrossesEnvironments' = CrossesEnvironments
    BY <1>3 DEF RunNext, cleanup_after_tag, next, trigger, set, EndReaction, EnclaveEvent, Executing,
                assembly_vars, indexes, bound, Indexed, CrossesEnvironments
  <2>2. CASE cleanup_after_tag
    <3>1. stage' = "next" /\ ran' = {} /\ running' = {} /\ reaction_queue_pos' = reaction_queue_pos
      BY <2>2 DEF cleanup_after_tag, queues, RunInv
    <3>. QED
      BY <1>0, <2>1, <3>1 DEF RanInv, PastInv
  <2>3. ASSUME NEW A \in SUBSET Action, NEW C \in SUBSET pending, next(A, C) PROVE RanInv'
    <3>1. stage = "next" /\ stage' = "schedule" /\ reaction_queue_pos' = 0 /\ UNCHANGED <<ran, running>>
      BY <2>3 DEF next, FirstPosition
    <3>. QED
      BY <1>0, <2>1, <3>1 DEF RanInv, PastInv
  <2>4. ASSUME NEW x \in Reaction, trigger(x) PROVE RanInv'
    <3>1. /\ stage' = stage /\ stage = "react"
          /\ ~CrossesEnvironments => x \in here /\ index[x] = reaction_queue_pos
          /\ ran' = ran \cup {x} /\ running' = running \cup {x} /\ reaction_queue_pos' = reaction_queue_pos
      BY <2>4 DEF trigger, queues, RunInv, HereInv, here
    <3>. QED
      BY <1>0, <2>1, <3>1 DEF RanInv, PastInv, here
  <2>5. ASSUME NEW x \in Reaction, EndReaction(x) PROVE RanInv'
    <3>1. /\ stage' # "next" /\ x \in ran /\ ran' = ran /\ running' \subseteq running
          /\ reaction_queue_pos' = reaction_queue_pos
      BY <2>5 DEF EndReaction, queues, RunInv, RanInv
    <3>. QED
      BY <1>0, <2>1, <3>1 DEF RanInv, PastInv, here
  <2>6. CASE (\E x \in Reaction, p \in Port : set(x, p)) \/ \E c \in connections : EnclaveEvent(c)
    <3>1. UNCHANGED <<stage, reaction_queue_pos, running, ran>> /\ Indexed(Here)
      BY <2>6 DEF set, EnclaveEvent, queues, Executing, Indexed
    <3>. QED
      BY <1>0, <2>1, <3>1 DEF RanInv, PastInv, here
  <2>. QED
    BY <1>3, <2>2, <2>3, <2>4, <2>5, <2>6 DEF RunNext
<1>. QED
  BY <1>1, <1>2, <1>3

(* What a running reaction sets is no input of one that has begun: that    *)
(* one would have a larger index.                                          *)
LEMMA NoInputIsSet ==
  ASSUME IInv, RunInv, RanInv, ~CrossesEnvironments, NEW x \in Reaction, NEW p \in Port, set(x, p),
         NEW y \in ran, NEW q \in reads[y]
  PROVE  p \notin Origin(q)
<1>. SUFFICES ASSUME p \in Origin(q) PROVE FALSE
  OBVIOUS
<1>1. Indexed(Here) /\ x \in running /\ p \in antidependencies[x] /\ Here \in Env
  BY HereAssumption DEF set, Executing, Indexed
<1>2. x \in Writers(q) /\ y \in ReactionsOf(Here)
  BY <1>1 DEF Writers, RanInv, PastInv
<1>3. index[x] < index[y]
  BY <1>1, <1>2, IndexesFollow DEF IndexesOrder
<1>4. index[x] = reaction_queue_pos /\ index[y] <= reaction_queue_pos
  BY <1>1 DEF RunInv, HereInv, RanInv, PastInv
<1>5. index[x] \in Nat /\ index[y] \in Nat
  BY <1>1, <1>2, IndexTypes DEF RunInv, HereInv
<1>. QED
  BY <1>3, <1>4, <1>5

StableInv ==
  /\ ~CrossesEnvironments => StableInputs
  /\ seen \in [Reaction -> SUBSET Port]

LEMMA StableNext ==
  ASSUME IInv, RunInv, RanInv, DeclaredInv, StableInv, RunNext
  PROVE  StableInv'
<1>1. CASE Next /\ UNCHANGED <<stage, tags, queues, ready, running, calls, ports, ran, seen>>
  <2>1. UNCHANGED <<present, ran, seen>>
    BY <1>1 DEF ports
  <2>2. CASE Indexed(Here)
    <3>1. UNCHANGED <<reads, inward_binding, outward_bindings>>
      BY <1>1, <2>2, AssembledStays DEF declared, bound
    <3>. QED
      <4>1. \A q : Origin(q)' = Origin(q)
        BY <3>1 DEF Origin, Upstream
      <4>2. \A q : IsPresent(q)' = IsPresent(q)
        BY <2>1, <4>1 DEF IsPresent
      <4>. QED
        BY <2>1, <3>1, <4>2 DEF StableInv, StableInputs, CrossesEnvironments
  <2>3. CASE ~Indexed(Here)
    <3>1. ran = {}
      BY <2>3 DEF RanInv
    <3>. QED
      BY <2>1, <3>1 DEF StableInv, StableInputs
  <2>. QED
    BY <2>2, <2>3
<1>2. CASE ~(Next /\ UNCHANGED <<stage, tags, queues, ready, running, calls, ports, ran, seen>>)
  <2>1. UNCHANGED <<reads, inward_binding, outward_bindings>>
    BY <1>2 DEF RunNext, cleanup_after_tag, next, schedule_ready_reactions, trigger, set, EndReaction,
                EnclaveEvent, assembly_vars, declared, bound
  <2>2. CrossesEnvironments' = CrossesEnvironments /\ \A q : Origin(q)' = Origin(q)
    BY <2>1 DEF CrossesEnvironments, Origin, Upstream
  <2>3. CASE cleanup_after_tag
    <3>1. ran' = {} /\ seen' = [x \in Reaction |-> {}]
      BY <2>3 DEF cleanup_after_tag
    <3>. QED
      BY <3>1 DEF StableInv, StableInputs
  <2>4. CASE \E A \in SUBSET Action, C \in SUBSET pending : next(A, C)
    <3>1. ran' = {} /\ seen' = seen
      BY <2>4 DEF next, RanInv
    <3>. QED
      BY <3>1 DEF StableInv, StableInputs
  <2>5. ASSUME NEW x \in Reaction, trigger(x) PROVE StableInv'
    <3>1. /\ present' = present /\ ran' = ran \cup {x}
          /\ seen' = [seen EXCEPT ![x] = {p \in reads[x] : IsPresent(p)}]
      BY <2>5 DEF trigger, ports
    <3>2. \A q : IsPresent(q)' = IsPresent(q)
      BY <2>2, <3>1 DEF IsPresent
    <3>3. reads[x] \in SUBSET Port
      BY DEF DeclaredInv
    <3>4. seen' \in [Reaction -> SUBSET Port]
      BY <3>1, <3>3 DEF StableInv
    <3>5. ASSUME ~CrossesEnvironments, NEW y \in ran' PROVE seen'[y] = {p \in reads[y] : IsPresent(p)}
      <4>1. CASE y = x
        BY <3>1, <4>1 DEF StableInv
      <4>2. CASE y # x
        <5>1. y \in ran /\ seen'[y] = seen[y]
          BY <3>1, <4>2 DEF StableInv
        <5>. QED
          BY <3>5, <5>1 DEF StableInv, StableInputs
      <4>. QED
        BY <4>1, <4>2
    <3>. QED
      BY <2>1, <2>2, <3>2, <3>4, <3>5 DEF StableInv, StableInputs
  <2>6. ASSUME NEW x \in Reaction, NEW p \in Port, set(x, p) PROVE StableInv'
    <3>1. UNCHANGED <<ran, seen>> /\ present' \ {p} = present \ {p}
      BY <2>6 DEF set, SetPorts, ports
    <3>2. ASSUME ~CrossesEnvironments, NEW y \in ran, NEW q \in reads[y]
          PROVE  IsPresent(q)' = IsPresent(q)
      <4>1. p \notin Origin(q)
        BY <2>6, <3>2, NoInputIsSet
      <4>. QED
        BY <2>2, <3>1, <4>1 DEF IsPresent
    <3>. QED
      BY <2>1, <2>2, <3>1, <3>2 DEF StableInv, StableInputs
  <2>7. CASE schedule_ready_reactions \/ (\E x \in Reaction : EndReaction(x)) \/ \E c \in connections : EnclaveEvent(c)
    <3>1. UNCHANGED <<ran, seen, present>>
      BY <2>7 DEF schedule_ready_reactions, EndReaction, EnclaveEvent, ports
    <3>2. \A q : IsPresent(q)' = IsPresent(q)
      BY <2>2, <3>1 DEF IsPresent
    <3>. QED
      BY <2>1, <2>2, <3>1, <3>2 DEF StableInv, StableInputs
  <2>. QED
    BY <1>2, <2>3, <2>4, <2>5, <2>6, <2>7 DEF RunNext
<1>. QED
  BY <1>1, <1>2

-----------------------------------------------------------------------------
(* What a reaction sets triggers reactions of later levels only.           *)
LEMMA TriggeredLater ==
  ASSUME IInv, RunInv, BindInv, ~BoundTwice, ~CrossesEnvironments, NEW x \in Reaction, NEW p \in Port, set(x, p),
         inward_binding[p] = None, NEW y \in ReactionsOf(Here), port_trigger[y] \cap Downstream(p) # {}
  PROVE  reaction_queue_pos < index[y]
<1>1. PICK q \in port_trigger[y] : q \in Downstream(p)
  OBVIOUS
<1>2. q \in reads[y] /\ q \in Port
  BY IndexTypes DEF BindInv, DeclaredInv
<1>3. p \in Origin(q)
  BY <1>1, <1>2, ReachesOrigin DEF BindInv, Origin
<1>4. Indexed(Here) /\ x \in running /\ p \in antidependencies[x] /\ Here \in Env
  BY HereAssumption DEF set, Executing, Indexed
<1>5. x \in Writers(q)
  BY <1>3, <1>4 DEF Writers
<1>6. index[x] < index[y]
  BY <1>2, <1>4, <1>5, IndexesFollow DEF IndexesOrder
<1>. QED
  BY <1>4, <1>6 DEF RunInv, HereInv

LEMMA LevelInit == RunInit => LevelInv
BY DEF RunInit, LevelInv

LEMMA LevelSchedule ==
  ASSUME RunInv, RanInv, LevelInv, IInv, schedule_ready_reactions
  PROVE  LevelInv'
<1>1. /\ stage = "schedule" /\ Indexed(Here) /\ triggered_reactions' = {} /\ ran' = ran
      /\ UNCHANGED outward_bindings /\ index' = index
  BY ScheduleStep DEF assembly_vars, indexes, bound
<1>2. BoundTwice' = BoundTwice /\ CrossesEnvironments' = CrossesEnvironments
  BY <1>1 DEF BoundTwice, CrossesEnvironments
<1>3. Index' = Index /\ Index \subseteq Nat /\ reaction_queue_pos \in Nat
  BY IndexTypes DEF Index, RanInv
<1>4. stage' \in {"cleanup", "react"}
  BY ScheduleStep
<1>5. SUFFICES ASSUME ~BoundTwice, ~CrossesEnvironments
               PROVE  /\ ready' \cap ran' = {}
                      /\ stage' = "cleanup" => triggered_reactions' = {} /\ \A k \in Index : reaction_queue'[k] = {}
                      /\ stage' = "react" =>
                           /\ \A k \in Index : k <= reaction_queue_pos' => reaction_queue'[k] = {}
                           /\ \A x \in triggered_reactions' : reaction_queue_pos' < index'[x]
  <2>. HIDE DEF Index
  <2>. QED
    BY <1>2, <1>3, <1>4 DEF LevelInv
<1>6. ASSUME NEW k \in Index, (ran # {} /\ k <= reaction_queue_pos) \/ k < reaction_queue_pos
      PROVE  Queued(k) = {}
  <2>1. k \in Nat /\ ran # {}
    BY <1>1, <1>3, <1>6 DEF RanInv
  <2>2. k <= reaction_queue_pos
    BY <1>3, <1>6, <2>1
  <2>3. reaction_queue[k] = {}
    BY <1>1, <1>5, <2>1, <2>2 DEF LevelInv
  <2>4. ASSUME NEW x \in triggered_reactions, Level(x) = k PROVE FALSE
    <3>1. reaction_queue_pos < k
      <4>1. Level(x) = index[x]
        BY <1>1, <1>5, LevelIsIndex DEF RunInv, HereInv
      <4>. QED
        BY <1>1, <1>5, <2>1, <2>4, <4>1 DEF LevelInv
    <3>. QED
      BY <1>3, <2>1, <2>2, <3>1
  <2>. QED
    BY <2>3, <2>4 DEF Queued
<1>7. CASE stage' = "cleanup"
  <2>1. /\ ready' = ready /\ \A k \in Index : reaction_queue'[k] = Queued(k)
        /\ \A k \in Index : k >= reaction_queue_pos => Queued(k) = {}
    BY <1>7, ScheduleStep
  <2>2. ready' = {}
    BY <1>1, <2>1 DEF RunInv
  <2>3. ASSUME NEW k \in Index PROVE reaction_queue'[k] = {}
    <3>1. k >= reaction_queue_pos \/ k < reaction_queue_pos
      BY <1>3
    <3>. QED
      BY <1>6, <2>1, <3>1
  <2>. QED
    BY <1>1, <1>7, <2>2, <2>3
<1>8. CASE stage' = "react"
  <2>. DEFINE i == reaction_queue_pos'
  <2>1. /\ i \in Index /\ i >= reaction_queue_pos /\ ready' = Queued(i) /\ ready' # {}
        /\ reaction_queue'[i] = {}
        /\ \A k \in Index : k # i => reaction_queue'[k] = Queued(k)
        /\ \A k \in Index : k >= reaction_queue_pos /\ k < i => Queued(k) = {}
    BY <1>8, ScheduleStep
  <2>. HIDE DEF i
  <2>2. i \in Nat
    BY <1>3, <2>1
  <2>3. ASSUME NEW k \in Index, k <= i PROVE reaction_queue'[k] = {}
    <3>1. k \in Nat
      BY <1>3
    <3>2. k = i \/ (k < i /\ k >= reaction_queue_pos) \/ (k # i /\ k < reaction_queue_pos)
      BY <1>3, <2>1, <2>2, <2>3, <3>1
    <3>. QED
      BY <1>6, <2>1, <3>2
  <2>4. ASSUME NEW x \in ready' \cap ran PROVE FALSE
    <3>1. index[x] = i
      BY <1>1, <1>5, <2>1, <2>4, LevelIsIndex DEF Queued, RunInv, HereInv
    <3>2. index[x] <= reaction_queue_pos
      BY <1>5, <2>4 DEF RanInv, PastInv
    <3>3. i <= reaction_queue_pos /\ ran # {}
      BY <2>4, <3>1, <3>2
    <3>. QED
      BY <1>6, <2>1, <3>3
  <2>. QED
    BY <1>1, <1>8, <2>3, <2>4 DEF i
<1>. QED
  BY <1>4, <1>7, <1>8

LEMMA LevelNext ==
  ASSUME IInv, RunInv, BindInv, RanInv, LevelInv, RunNext
  PROVE  LevelInv'
<1>0. Index' = Index
  BY DEF Index
<1>1. CASE Next /\ UNCHANGED <<stage, tags, queues, ready, running, calls, ports, ran, seen>>
  <2>1. UNCHANGED <<stage, queues, ready, ran>>
    BY <1>1
  <2>2. CASE Indexed(Here)
    <3>1. BoundTwice' = BoundTwice /\ CrossesEnvironments' = CrossesEnvironments
      BY <1>1, <2>2, AssembledStays DEF bound, BoundTwice, CrossesEnvironments
    <3>2. ~CrossesEnvironments => \A x \in triggered_reactions : index'[x] = index[x]
      BY <1>1, <2>2, IndexesStay DEF RunInv, HereInv
    <3>. QED
      BY <1>0, <2>1, <3>1, <3>2 DEF LevelInv, queues
  <2>3. CASE ~Indexed(Here)
    <3>1. /\ stage' = "cleanup" /\ triggered_reactions' = {} /\ ready' = {}
          /\ \A i \in Index : reaction_queue'[i] = {}
      BY <2>1, <2>3 DEF RunInv, queues
    <3>. QED
      BY <1>0, <3>1 DEF LevelInv
  <2>. QED
    BY <2>2, <2>3
<1>2. CASE schedule_ready_reactions
  BY <1>2, LevelSchedule
<1>3. CASE ~(Next /\ UNCHANGED <<stage, tags, queues, ready, running, calls, ports, ran, seen>>) /\ ~schedule_ready_reactions
  <2>1. BoundTwice' = BoundTwice /\ CrossesEnvironments' = CrossesEnvironments /\ index' = index
    BY <1>3 DEF RunNext, cleanup_after_tag, next, trigger, set, EndReaction, EnclaveEvent, assembly_vars,
                bound, indexes, BoundTwice, CrossesEnvironments
  <2>2. CASE cleanup_after_tag
    <3>1. stage = "cleanup" /\ stage' = "next" /\ ran' = {} /\ UNCHANGED queues
      BY <2>2 DEF cleanup_after_tag
    <3>. QED
      BY <1>0, <2>1, <3>1 DEF LevelInv, queues
  <2>3. CASE \E A \in SUBSET Action, C \in SUBSET pending : next(A, C)
    <3>1. stage' = "schedule" /\ ran' = {}
      BY <2>3 DEF next, RanInv
    <3>. QED
      BY <3>1 DEF LevelInv
  <2>4. ASSUME NEW x \in Reaction, trigger(x) PROVE LevelInv'
    <3>1. /\ stage = "react" /\ UNCHANGED <<stage, queues>>
          /\ ready' = ready \ {x} /\ ran' = ran \cup {x}
      BY <2>4 DEF trigger, RunInv
    <3>. QED
      BY <1>0, <2>1, <3>1 DEF LevelInv, queues
  <2>5. ASSUME NEW x \in Reaction, NEW p \in Port, set(x, p) PROVE LevelInv'
    <3>1. stage = "react" /\ UNCHANGED <<stage, reaction_queue, reaction_queue_pos, ready, ran>>
      BY <2>5 DEF set, RunInv
    <3>2. ASSUME ~BoundTwice, ~CrossesEnvironments, NEW y \in triggered_reactions', y \notin triggered_reactions
          PROVE  reaction_queue_pos < index[y]
      <4>1. inward_binding[p] = None
        BY <2>5, <3>2 DEF set
      <4>2. SetPorts({p}) /\ triggered_reactions \subseteq ReactionsOf(Here)
        BY <2>5, <3>2, <4>1 DEF set, RunInv, HereInv
      <4>3. y \in ReactionsOf(Here)
        BY <3>2, <4>2, SetPortsTriggers
      <4>4. port_trigger[y] \cap Downstream(p) # {}
        BY <3>2, <4>2 DEF SetPorts
      <4>. QED
        BY <2>5, <3>2, <4>1, <4>3, <4>4, TriggeredLater
    <3>. QED
      BY <1>0, <2>1, <3>1, <3>2 DEF LevelInv
  <2>6. ASSUME NEW x \in Reaction, EndReaction(x) PROVE LevelInv'
    <3>1. /\ stage = "react" /\ stage' \in {"react", "schedule"} /\ UNCHANGED <<queues, ready, ran>>
      BY <2>6 DEF EndReaction, RunInv
    <3>. QED
      BY <1>0, <2>1, <3>1 DEF LevelInv, queues
  <2>7. CASE \E c \in connections : EnclaveEvent(c)
    <3>1. UNCHANGED <<stage, queues, ready, ran>>
      BY <2>7 DEF EnclaveEvent
    <3>. QED
      BY <1>0, <2>1, <3>1 DEF LevelInv, queues
  <2>. QED
    BY <1>3, <2>2, <2>3, <2>4, <2>5, <2>6, <2>7 DEF RunNext
<1>. QED
  BY <1>1, <1>2, <1>3

-----------------------------------------------------------------------------
(* What is present *)

LEMMA PortInit == RunInit => PortInv
<1>. SUFFICES ASSUME RunInit PROVE PortInv
  OBVIOUS
<1>1. present = {} /\ written = {} /\ pending = {} /\ listed = [p \in Port |-> 0]
  BY DEF RunInit
<1>. QED
  BY <1>1 DEF PortInv, IsPresent

(* Nothing changes in the ports as long as the bindings are the same.      *)
LEMMA PortFrame ==
  ASSUME PortInv, UNCHANGED <<bound, present, set_ports, listed, written>>, Indexed(Here) => Indexed(Here)',
         pending' \subseteq connections, ~Indexed(Here) => pending' = {}
  PROVE  PortInv'
<1>1. UNCHANGED <<inward_binding, outward_bindings, connections, present, set_ports, listed, written>>
  BY DEF bound
<1>2. /\ BoundTwice' = BoundTwice /\ \A p : Downstream(p)' = Downstream(p)
      /\ \A p : Origin(p)' = Origin(p)
  BY <1>1 DEF BoundTwice, Downstream, Origin, Upstream
<1>3. \A p : IsPresent(p)' = IsPresent(p)
  BY <1>1, <1>2 DEF IsPresent
<1>. QED
  BY <1>1, <1>2, <1>3 DEF PortInv

LEMMA SetPortsInv ==
  ASSUME BindInv, PortInv, NEW S \in SUBSET Port, \A p \in S : inward_binding[p] = None,
         SetPorts(S), UNCHANGED bound, Indexed(Here)', pending' \subseteq connections
  PROVE  PortInv'
<1>1. UNCHANGED <<inward_binding, outward_bindings, connections>>
  BY DEF bound
<1>2. /\ BoundTwice' = BoundTwice /\ \A p : Downstream(p)' = Downstream(p)
      /\ \A p : Origin(p)' = Origin(p)
  BY <1>1 DEF BoundTwice, Downstream, Origin, Upstream
<1>. DEFINE mine == S \cap PortsOf(Here)
<1>3. /\ present' = present \cup mine /\ written' = written \cup mine
      /\ set_ports' = set_ports \cup UNION {Downstream(p) : p \in mine}
      /\ listed' = [q \in Port |-> IF \E p \in mine : q \in Listed(p) THEN listed[q] + 1 ELSE listed[q]]
  BY DEF SetPorts, Recorded
<1>4. listed' \in [Port -> Nat]
  BY <1>3 DEF PortInv
<1>5. \A p \in present' : Downstream(p) \subseteq set_ports'
  BY <1>3 DEF PortInv
<1>6. ASSUME ~BoundTwice, NEW q \in Port, \E M \in Multiports : q \in M
      PROVE  listed'[q] = IF IsPresent(q)' THEN 1 ELSE 0
  <2>1. \A p \in mine : p \in Origin(q) <=> q \in Downstream(p)
    BY <1>6, ReachesOrigin DEF BindInv, Origin
  <2>2. IsPresent(q)' <=> IsPresent(q) \/ \E p \in mine : q \in Downstream(p)
    BY <1>2, <1>3, <2>1 DEF IsPresent
  <2>3. (\E p \in mine : q \in Listed(p)) <=> ~IsPresent(q) /\ \E p \in mine : q \in Downstream(p)
    BY <1>6 DEF Listed
  <2>4. listed[q] = IF IsPresent(q) THEN 1 ELSE 0
    BY <1>6 DEF PortInv
  <2>. QED
    BY <1>3, <2>2, <2>3, <2>4
<1>. QED
  BY <1>1, <1>2, <1>3, <1>4, <1>5, <1>6 DEF PortInv

(* Whatever is present is recorded, and cleaned up.                        *)
LEMMA CleanupInv ==
  ASSUME BindInv, PortInv, cleanup_after_tag
  PROVE  PortInv'
<1>1. /\ UNCHANGED <<assembly_vars, pending>> /\ Indexed(Here) /\ present' = present \ set_ports /\ written' = {}
      /\ listed' = [q \in Port |->
           IF \E M \in Multiports : q \in M /\ M \cap set_ports # {} THEN 0 ELSE listed[q]]
  BY DEF cleanup_after_tag, Executing, Indexed
<1>2. UNCHANGED <<inward_binding, outward_bindings, connections>> /\ Indexed(Here)'
  BY <1>1 DEF assembly_vars, bound, Indexed
<1>3. BoundTwice' = BoundTwice
  BY <1>2 DEF BoundTwice
<1>4. present' = {}
  <2>1. ASSUME NEW p \in present PROVE p \in set_ports
    <3>1. p \in Downstream(p)
      BY DownstreamStays DEF PortInv, BindInv, Bindings
    <3>. QED
      BY <3>1 DEF PortInv
  <2>. QED
    BY <1>1, <2>1
<1>5. ASSUME ~BoundTwice, NEW q \in Port, \E M \in Multiports : q \in M
      PROVE  listed'[q] = 0
  <2>1. CASE IsPresent(q)
    <3>1. PICK p \in present : p \in Upstream(q)
      BY <2>1 DEF IsPresent, Origin
    <3>2. q \in Downstream(p)
      BY <1>5, <3>1, ReachesOrigin DEF BindInv, PortInv
    <3>3. q \in set_ports
      BY <3>1, <3>2 DEF PortInv
    <3>. QED
      BY <1>1, <1>5, <3>3
  <2>2. CASE ~IsPresent(q)
    <3>1. listed[q] = 0
      BY <1>5, <2>2 DEF PortInv
    <3>. QED
      BY <1>1, <3>1
  <2>. QED
    BY <2>1, <2>2
<1>6. \A q : ~IsPresent(q)'
  BY <1>4 DEF IsPresent
<1>7. listed' \in [Port -> Nat]
  BY <1>1 DEF PortInv
<1>. QED
  BY <1>1, <1>2, <1>3, <1>4, <1>5, <1>6, <1>7 DEF PortInv

LEMMA PortNext ==
  ASSUME IInv, RunInv, BindInv, PortInv, RunNext
  PROVE  PortInv'
<1>1. CASE Next /\ UNCHANGED <<stage, tags, queues, ready, running, calls, ports, ran, seen>>
  <2>1. UNCHANGED <<present, set_ports, listed, pending, written>>
    BY <1>1 DEF ports
  <2>2. CASE Indexed(Here)
    <3>1. UNCHANGED bound /\ Indexed(Here)'
      BY <1>1, <2>2, AssembledStays, IndexesStay
    <3>2. pending' \subseteq connections
      BY <2>1 DEF PortInv
    <3>. QED
      BY <2>1, <2>2, <3>1, <3>2, PortFrame
  <2>3. CASE ~Indexed(Here)
    <3>1. present' = {} /\ listed' = [p \in Port |-> 0] /\ pending' = {} /\ written' = {}
      BY <2>1, <2>3 DEF PortInv
    <3>2. \A p : ~IsPresent(p)'
      BY <3>1 DEF IsPresent
    <3>. QED
      BY <3>1, <3>2 DEF PortInv
  <2>. QED
    BY <2>2, <2>3
<1>2. CASE ~(Next /\ UNCHANGED <<stage, tags, queues, ready, running, calls, ports, ran, seen>>)
  <2>1. UNCHANGED bound /\ Indexed(Here) /\ Indexed(Here)'
    BY <1>2 DEF RunNext, cleanup_after_tag, next, schedule_ready_reactions, trigger, set, EndReaction,
                EnclaveEvent, Executing, assembly_vars, Indexed
  <2>2. pending \subseteq connections
    BY DEF PortInv
  <2>3. CASE cleanup_after_tag
    BY <2>3, CleanupInv
  <2>4. ASSUME NEW A \in SUBSET Action, NEW C \in SUBSET pending, next(A, C) PROVE PortInv'
    <3>. DEFINE S == UNION {c.sinks : c \in C}
    <3>1. CASE \E p \in S : inward_binding[p] # None
      <4>1. UNCHANGED <<present, set_ports, listed, pending, written>>
        BY <2>4, <3>1 DEF next, ports
      <4>. QED
        BY <2>1, <2>2, <4>1, PortFrame
    <3>2. CASE ~\E p \in S : inward_binding[p] # None
      <4>1. SetPorts(S) /\ pending' = (pending \ C) \cup UNION {SendsOver(p) : p \in S}
        BY <2>4, <3>2 DEF next
      <4>2. S \in SUBSET Port
        <5>1. \A c \in C : c \in [source : Port, type : ConnectionType, sinks : SUBSET Port]
          BY <2>2 DEF BindInv, DeclaredInv
        <5>2. \A c \in C : c.sinks \in SUBSET Port
          BY <5>1
        <5>. QED
          BY <5>2
      <4>3. pending' \subseteq connections
        BY <2>2, <4>1 DEF SendsOver
      <4>. HIDE DEF S
      <4>4. \A p \in S : inward_binding[p] = None
        BY <3>2
      <4>. QED
        BY <2>1, <4>1, <4>2, <4>3, <4>4, SetPortsInv
    <3>. QED
      BY <3>1, <3>2
  <2>5. ASSUME NEW x \in Reaction, NEW p \in Port, set(x, p) PROVE PortInv'
    <3>1. CASE inward_binding[p] # None
      <4>1. UNCHANGED <<present, set_ports, listed, pending, written>>
        BY <2>5, <3>1 DEF set, ports
      <4>. QED
        BY <2>1, <2>2, <4>1, PortFrame
    <3>2. CASE inward_binding[p] = None
      <4>1. SetPorts({p}) /\ pending' = pending \cup SendsOver(p)
        BY <2>5, <3>2 DEF set
      <4>2. pending' \subseteq connections
        BY <2>2, <4>1 DEF SendsOver
      <4>3. {p} \in SUBSET Port /\ \A r \in {p} : inward_binding[r] = None
        BY <3>2
      <4>. QED
        BY <2>1, <4>1, <4>2, <4>3, SetPortsInv
    <3>. QED
      BY <3>1, <3>2
  <2>6. ASSUME NEW c \in connections, EnclaveEvent(c) PROVE PortInv'
    <3>1. UNCHANGED <<present, set_ports, listed, written>> /\ pending' \subseteq connections
      BY <2>2, <2>6 DEF EnclaveEvent
    <3>. QED
      BY <2>1, <3>1, PortFrame
  <2>7. CASE schedule_ready_reactions \/ \E x \in Reaction : trigger(x) \/ EndReaction(x)
    <3>1. UNCHANGED <<present, set_ports, listed, pending, written>>
      BY <2>7 DEF schedule_ready_reactions, trigger, EndReaction, ports
    <3>. QED
      BY <2>1, <2>2, <3>1, PortFrame
  <2>. QED
    BY <1>2, <2>3, <2>4, <2>5, <2>6, <2>7 DEF RunNext
<1>. QED
  BY <1>1, <1>2

-----------------------------------------------------------------------------
(* There are at most as many levels as reactions                           *)

(* Each index given so far was given to a reaction that has been erased.   *)
CountInv(e) ==
  next_index[e] # None => next_index[e] + Cardinality(left[e]) <= Cardinality(ReactionsOf(e))

LEMMA SubsetSizes ==
  ASSUME NEW S \in SUBSET Reaction
  PROVE  /\ IsFiniteSet(S) /\ Cardinality(S) \in Nat
         /\ \A T \in SUBSET S : Cardinality(T) <= Cardinality(S) /\ (T # S => Cardinality(T) < Cardinality(S))
BY StructureAssumption, FS_Subset, FS_CardinalityType

LEMMA CountNext ==
  ASSUME IInv, Next, NEW e \in Env, CountInv(e)
  PROVE  CountInv(e)'
<1>0. ReactionsOf(e)' = ReactionsOf(e) /\ ReactionsOf(e) \in SUBSET Reaction
  BY DEF ReactionsOf
<1>1. CASE Assemble
  <2>1. next_index[e] = None /\ UNCHANGED indexes
    BY <1>1, NothingToAssemble DEF Assemble, Construct, draw_connection, declare_dependency,
       declare_antidependency, declare_action, Now, Instantiate
  <2>. QED
    BY <2>1 DEF CountInv, indexes
<1>2. ASSUME NEW f \in Env, MakeIndexes(f) PROVE CountInv(e)'
  <2>1. CASE f # e \/ FinishIndexing(f) \/ Startup(f)
    <3>1. left'[e] = left[e] /\ next_index'[e] = next_index[e]
      BY <1>2, <2>1 DEF MakeIndexes, build_dependency_graph, calculate_indexes, ReportLoop, FinishIndexing,
                        Startup, indexes, IInv, TypeInv
    <3>. QED
      BY <1>0, <3>1 DEF CountInv
  <2>2. CASE f = e /\ (build_dependency_graph(e) \/ ReportLoop(e))
    <3>1. left'[e] = ReactionsOf(e) /\ next_index'[e] = 0
      BY <2>2 DEF build_dependency_graph, ReportLoop, IInv, TypeInv
    <3>2. Cardinality(ReactionsOf(e)) \in Nat
      BY <1>0, SubsetSizes
    <3>. QED
      BY <1>0, <3>1, <3>2 DEF CountInv
  <2>3. CASE f = e /\ calculate_indexes(e)
    <3>1. /\ next_index[e] # None /\ next_index[e] \in Nat /\ degree_zero(e) # {}
          /\ left'[e] = left[e] \ degree_zero(e) /\ next_index'[e] = next_index[e] + 1
      BY <2>3 DEF calculate_indexes, IInv, TypeInv
    <3>2. degree_zero(e) \subseteq left[e] /\ left[e] \in SUBSET Reaction
      BY DEF degree_zero, IInv, TypeInv
    <3>3. Cardinality(left'[e]) < Cardinality(left[e])
      BY <3>1, <3>2, SubsetSizes
    <3>4. Cardinality(left'[e]) \in Nat /\ Cardinality(left[e]) \in Nat /\ Cardinality(ReactionsOf(e)) \in Nat
      BY <1>0, <3>1, <3>2, SubsetSizes
    <3>5. next_index[e] + Cardinality(left[e]) <= Cardinality(ReactionsOf(e))
      BY <3>1 DEF CountInv
    <3>6. next_index'[e] + Cardinality(left'[e]) <= Cardinality(ReactionsOf(e))
      BY <3>1, <3>3, <3>4, <3>5
    <3>. QED
      BY <1>0, <3>6 DEF CountInv
  <2>. QED
    BY <1>2, <2>1, <2>2, <2>3 DEF MakeIndexes
<1>. QED
  BY <1>1, <1>2 DEF Next

(* Every reaction of the environment has a place in the queue.             *)
IndexesFit == Indexed(Here) => \A x \in ReactionsOf(Here) : index[x] \in Index

LEMMA CountFits == ASSUME IInv, CountInv(Here) PROVE IndexesFit
<1>. SUFFICES ASSUME Indexed(Here), NEW x \in ReactionsOf(Here) PROVE index[x] \in Index
  BY DEF IndexesFit
<1>1. /\ next_index[Here] \in Nat /\ next_index[Here] # None /\ left[Here] = {}
      /\ index[x] \in Nat /\ index[x] < next_index[Here]
  BY HereAssumption, StructureAssumption DEF IInv, TypeInv, GraphInv, IndexInv
<1>2. /\ Cardinality(left[Here]) \in Nat /\ Cardinality(ReactionsOf(Here)) \in Nat /\ Cardinality(Reaction) \in Nat
      /\ Cardinality(ReactionsOf(Here)) <= Cardinality(Reaction)
  BY <1>1, SubsetSizes DEF ReactionsOf
<1>3. next_index[Here] + Cardinality(left[Here]) <= Cardinality(ReactionsOf(Here))
  BY <1>1 DEF CountInv
<1>. QED
  BY <1>1, <1>2, <1>3 DEF Index

-----------------------------------------------------------------------------
ExecutionInv == IInv /\ RunInv /\ BindInv /\ RanInv /\ StableInv /\ LevelInv /\ PortInv /\ CountInv(Here)

LEMMA ExecutionInit == RunInit => ExecutionInv
<1>. SUFFICES ASSUME RunInit PROVE ExecutionInv
  OBVIOUS
<1>1. StableInv
  BY DEF RunInit, StableInv, StableInputs
<1>2. CountInv(Here)
  BY HereAssumption DEF RunInit, Init, CountInv
<1>3. BindInv
  BY BindInit DEF RunInit
<1>. QED
  BY <1>1, <1>2, <1>3, RunInitInv, RanInit, LevelInit, PortInit DEF ExecutionInv

LEMMA ExecutionNext == ASSUME ExecutionInv, RunNext PROVE ExecutionInv'
<1>1. IInv' /\ RunInv' /\ BindInv'
  BY RunNextInv, RunInvNext, RunBind DEF ExecutionInv
<1>2. RanInv' /\ StableInv' /\ LevelInv' /\ PortInv'
  BY RanNext, StableNext, LevelNext, PortNext DEF ExecutionInv, BindInv
<1>3. CountInv(Here)'
  <2>1. CASE Next
    BY <2>1, HereAssumption, CountNext DEF ExecutionInv
  <2>2. CASE UNCHANGED watched
    BY <2>2 DEF ExecutionInv, CountInv, watched, indexes, ReactionsOf
  <2>. QED
    BY <2>1, <2>2, RunFrame
<1>. QED
  BY <1>1, <1>2, <1>3 DEF ExecutionInv

LEMMA ExecutionStutter == ASSUME ExecutionInv, UNCHANGED vars PROVE ExecutionInv'
<1>1. UNCHANGED <<phase, todo, failed, declared, bound, indexes, stage, tags, queues, ready, running, calls,
                  ports, ran, seen>>
  BY DEF vars, assembly_vars
<1>2. IInv' /\ BindInv'
  BY <1>1, Frame, BindFrame DEF ExecutionInv, watched
<1>3. Indexed(Here)' = Indexed(Here) /\ ReactionsOf(Here)' = ReactionsOf(Here) /\ Index' = Index
      /\ UNCHANGED <<index, left, next_index, reads, inward_binding, outward_bindings>>
  BY <1>1 DEF Indexed, ReactionsOf, Index, indexes, declared, bound
<1>4. BoundTwice' = BoundTwice /\ CrossesEnvironments' = CrossesEnvironments /\ \A q : Origin(q)' = Origin(q)
  BY <1>3 DEF BoundTwice, CrossesEnvironments, Origin, Upstream
<1>5. RunInv' /\ RanInv' /\ CountInv(Here)'
  BY <1>1, <1>3, <1>4 DEF ExecutionInv, RunInv, HereInv, RanInv, PastInv, CountInv, queues
<1>6. \A q : IsPresent(q)' = IsPresent(q)
  BY <1>1, <1>4 DEF IsPresent, ports
<1>7. StableInv' /\ LevelInv'
  BY <1>1, <1>3, <1>4, <1>6 DEF ExecutionInv, StableInv, StableInputs, LevelInv, queues
<1>8. PortInv'
  <2>1. pending' \subseteq connections /\ (~Indexed(Here) => pending' = {})
    BY <1>1 DEF ports, ExecutionInv, PortInv
  <2>. QED
    BY <1>1, <1>3, <2>1, PortFrame DEF ports, ExecutionInv
<1>. QED
  BY <1>2, <1>5, <1>7, <1>8 DEF ExecutionInv

LEMMA ExecutionInvariance == RunSpec => []ExecutionInv
<1>1. ASSUME ExecutionInv, [RunNext]_vars PROVE ExecutionInv'
  BY <1>1, ExecutionNext, ExecutionStutter
<1>. QED
  BY <1>1, ExecutionInit, PTL DEF RunSpec

(* What a reaction has seen of its ports stays true until the tag ends:    *)
(* no reaction that writes one of them runs any more (scheduler.cc:212).   *)
(* This and the next two are about programs without plain connections      *)
(* between environments: what another environment runs of them, or sets,   *)
(* at the same time is not in the model.                                   *)
THEOREM InputsAreStable == RunSpec => [](~CrossesEnvironments => StableInputs)
<1>1. ExecutionInv => (~CrossesEnvironments => StableInputs)
  BY DEF ExecutionInv, StableInv
<1>. QED
  BY <1>1, ExecutionInvariance, PTL

(* A reaction runs at most once in a tag, and none is left for the next    *)
(* tag (scheduler.cc:199-240).                                             *)
THEOREM ReactionsRunOnce == RunSpec => [](~CrossesEnvironments => TriggeredRunOnce)
<1>1. ExecutionInv => (~CrossesEnvironments => TriggeredRunOnce)
  BY DEF ExecutionInv, LevelInv, TriggeredRunOnce
<1>. QED
  BY <1>1, ExecutionInvariance, PTL

(* The ports present are those set in this tag and those bound to them,    *)
(* each in the list of its multiport once (scheduler.cc:296-318,           *)
(* multiport.cc:13-39).                                                    *)
THEOREM PresenceIsOfThisTag == RunSpec => [](~CrossesEnvironments => PresenceOfThisTag)
<1>1. ExecutionInv => (~CrossesEnvironments => PresenceOfThisTag)
  BY DEF ExecutionInv, PortInv, PresenceOfThisTag, IsPresent
<1>. QED
  BY <1>1, ExecutionInvariance, PTL

(* The indexes of the reactions of the environment are those of its queue, *)
(* so that none that is triggered is lost (environment.cc:289-337,         *)
(* scheduler.cc:204-209).                                                  *)
THEOREM EveryReactionHasALevel == RunSpec => []IndexesFit
<1>1. ExecutionInv => IndexesFit
  BY CountFits DEF ExecutionInv
<1>. QED
  BY <1>1, ExecutionInvariance, PTL

=============================================================================
