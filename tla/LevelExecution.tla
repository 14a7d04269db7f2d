--------------------------- MODULE LevelExecution ---------------------------
(***************************************************************************)
(* What the worker pool of a scheduler promises: the reactions of a level  *)
(* are executed by the workers in any order and in parallel, each of them  *)
(* once; the next level is published when all of them have ended; the      *)
(* workers stop only when nothing is left to do, and nothing is published  *)
(* from then on.                                                           *)
(***************************************************************************)
CONSTANTS Worker, Reaction, Null

VARIABLES
  ready,    \* the reactions of the level no worker has begun
  running,  \* the reaction each worker executes, or Null
  stopped   \* the workers that have terminated

vars == <<ready, running, stopped>>

TypeOK ==
  /\ ready \subseteq Reaction
  /\ running \in [Worker -> Reaction \cup {Null}]
  /\ stopped \subseteq Worker

Init ==
  /\ ready = {}
  /\ running = [w \in Worker |-> Null]
  /\ stopped = {}

LevelOver == ready = {} /\ \A w \in Worker : running[w] = Null

Publish ==
  /\ LevelOver
  /\ stopped = {}
  /\ ready' \in (SUBSET Reaction) \ {{}}
  /\ UNCHANGED <<running, stopped>>

Begin(w) ==
  /\ w \notin stopped
  /\ running[w] = Null
  /\ \E r \in ready : /\ ready' = ready \ {r}
                      /\ running' = [running EXCEPT ![w] = r]
  /\ UNCHANGED stopped

End(w) ==
  /\ running[w] # Null
  /\ running' = [running EXCEPT ![w] = Null]
  /\ UNCHANGED <<ready, stopped>>

Stop(w) ==
  /\ LevelOver
  /\ w \notin stopped
  /\ stopped' = stopped \cup {w}
  /\ UNCHANGED <<ready, running>>

Next == Publish \/ \E w \in Worker : Begin(w) \/ End(w) \/ Stop(w)

SafeSpec == Init /\ [][Next]_vars

(* A level that is published is executed to its end. *)
Spec == SafeSpec /\ WF_vars(\E w \in Worker : Begin(w))
                 /\ \A w \in Worker : WF_vars(End(w))

=============================================================================
