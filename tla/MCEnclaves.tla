----------------------------- MODULE MCEnclaves -----------------------------
(***************************************************************************)
(* Topologies of two and three environments for TLC.                        *)
(***************************************************************************)
EXTENDS Enclaves, TLC

CONSTANTS a, b, c, d

Link(source, target, after) == [source |-> source, target |-> target, delay |-> after]

Chain == {Link(a, b, NoDelay), Link(b, c, NoDelay)}
Cycle == {Link(a, d, NoDelay), Link(d, a, 1)}
ShortCycle == {Link(a, d, NoDelay), Link(d, a, 0)}
Parallel == {Link(a, d, NoDelay), Link(a, d, 1)}
Delayed == {Link(d, a, 1)}

MCTopologies == {Chain, Cycle, ShortCycle, Parallel, Delayed}
DelayedOnly == {Delayed}

First == TagAt(StartTime, 0)
Second == TagAt(StartTime + 1, 0)
SomeEvents ==
  (a :> {{}, {First}} @@ b :> {{}, {First}} @@ c :> {{}, {First}} @@ d :> {{}, {First}, {Second}})
OneEvent == (a :> {{Second}} @@ b :> {{}} @@ c :> {{}} @@ d :> {{First}})
=============================================================================
