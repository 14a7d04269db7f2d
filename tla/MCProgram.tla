----------------------------- MODULE MCProgram ------------------------------
(***************************************************************************)
(* Programs for TLC.  The reactor main contains a and b, and b contains c; *)
(* e is in an enclave.  The inputs of b form a multiport.                  *)
(***************************************************************************)
EXTENDS Execution

CONSTANTS topenv, enclave, main, a, b, c, e,
          ai, ao, bi1, bi2, bo, ci, ei, eo, ta, tm, a1, a2, b1, c1, m, e1

Containing == [x \in Env \ {topenv} |-> topenv]
Tree == [r \in Reactor |-> CASE r \in {a, b} -> main [] r = c -> b [] OTHER -> None]
EnvironmentOf == [r \in Reactor |-> IF r = e THEN enclave ELSE topenv]
Owner == [p \in Port \cup Action |->
            CASE p \in {ai, ao, ta} -> a [] p \in {bi1, bi2, bo} -> b
              [] p = ci -> c [] p \in {ei, eo} -> e [] p = tm -> main]
Home == [x \in Reaction |-> CASE x \in {a1, a2} -> a [] x = b1 -> b [] x = c1 -> c
                              [] x = m -> main [] x = e1 -> e]

Draw(p, q, type) == [op |-> "draw", from |-> p, to |-> q, type |-> type]
On(op, x, p) == [op |-> op, reaction |-> x, port |-> p]
OnAction(op, x, action) == [op |-> op, reaction |-> x, action |-> action]

Draws == <<Draw(ao, bi1, "Normal"), Draw(ao, bi2, "Normal"), Draw(ao, bi1, "Delayed"),
           Draw(ao, ei, "Enclaved"), Draw(bi2, ci, "Normal"), Draw(bo, ai, "Normal"),
           Draw(bo, ai, "Physical"), Draw(bo, bi2, "Normal"), Draw(eo, bi1, "DelayedEnclaved"),
           Draw(bi1, ei, "Normal")>>

(* No connection, one or two, in both orders if they have the same source; *)
(* a chain of bindings with a fan-out and a way back; and a loop over      *)
(* three bindings.                                                         *)
Drawn ==
  {<<>>} \cup {<<Draws[i]>> : i \in DOMAIN Draws}
    \cup {<<Draws[i], Draws[j]>> : <<i, j>> \in
            {<<k, l>> \in (DOMAIN Draws) \X (DOMAIN Draws) :
               k < l \/ (k # l /\ Draws[k].from = Draws[l].from)}}
    \cup {<<Draws[1], Draws[2], Draws[5], Draws[7]>>, <<Draws[1], Draws[5], Draws[6]>>}

(* One reaction of a reads what b sends; reactions of main and b write to  *)
(* or read contained reactors.                                             *)
Declarations ==
  <<OnAction("action", m, tm), On("antidependency", m, bi2),
    OnAction("action", a1, ta), On("antidependency", a1, ao),
    On("trigger", a2, ai), On("antidependency", a2, ao), OnAction("schedulable", a2, ta),
    On("trigger", b1, bi1), On("dependency", b1, bi2), On("antidependency", b1, bo),
    On("trigger", c1, ci), On("trigger", e1, ei), On("antidependency", e1, eo)>>

Others ==
  {<<Draw(ao, ao, "Normal")>>, <<On("trigger", m, ai)>>, <<On("antidependency", m, bo)>>,
   <<OnAction("action", a1, tm)>>}

MCPrograms == {d \o Declarations : d \in Drawn} \cup Others

Prioritized(p, q) == [x \in Reaction |-> IF x = a1 THEN p ELSE IF x = a2 THEN q ELSE 1]
MCPriorities == {Prioritized(1, 2), Prioritized(2, 1), Prioritized(1, 1)}
=============================================================================
