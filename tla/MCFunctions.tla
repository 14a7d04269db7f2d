---------------------------- MODULE MCFunctions -----------------------------
(***************************************************************************)
(* The pure functions of the runtime and of the SDK against reference      *)
(* definitions: the arithmetic of tags, for all tags with times and        *)
(* microsteps in a small range, and the wiring statements, for all kinds   *)
(* of operands of small widths at different places in memory.              *)
(***************************************************************************)
EXTENDS Tags, Wiring

CONSTANTS MaxTime, MaxOffset,
  MaxBank,     \* reactors in a bank
  MaxWidth     \* ports in a multiport

ASSUME SizesAssumption ==
  {MaxTime, MaxOffset} \subseteq Nat /\ {MaxBank, MaxWidth} \subseteq Nat \ {0}

VARIABLES
  a, b, offset,    \* two tags and a duration
  statement        \* a wiring statement

vars == <<a, b, offset, statement>>

Times == 0..MaxTime
TagInputs == [time : Times, micro_step : Microstep]

-----------------------------------------------------------------------------

Port == {"Input", "Output"}
Multiport == {"MultiportInput", "MultiportOutput"}
BankOfPorts == {"Vector", "Bank", "BankOffset", "BankOutput", "BankOutputOffset"}

(* The widths of the reactors' members, for each kind of operand *)
Shapes(kind) ==
  CASE kind \in Port -> {<<1>>}
    [] kind \in Multiport -> {<<n>> : n \in 1..MaxWidth}
    [] kind \in BankOfPorts -> UNION {[1..n -> {1}] : n \in 1..MaxBank}
    [] OTHER -> UNION {[1..n -> 1..MaxWidth] : n \in 1..MaxBank}

(* The reactors of a bank lie anywhere in memory, the ports of a multiport *)
(* one after the other.                                                    *)
Bank(side, shape, order) ==
  [i \in DOMAIN shape |->
     [member |-> [j \in 1..shape[i] |->
                    [side |-> side, place |-> <<i, j>>,
                     address |-> order[i] * (MaxWidth + 1) + j]]]]

Overloads ==
  ({"Output"} \X {">"} \X {"Input", "Output", "MultiportInput", "Vector", "Bank", "BankOffset"})
  \cup ({"Output", "Input", "BankOutputOffset"} \X {">>"} \X {"MultiportInput"})
  \cup ({"Input", "MultiportInput"} \X {">"} \X {"Input", "MultiportInput"})
  \cup ({"MultiportOutput"} \X {">"}
        \X {"Input", "Output", "MultiportInput", "MultiportOutput", "Vector", "Bank", "BankOffset"})
  \cup ({"BankOutput"} \X {">"} \X {"Input", "MultiportInput", "Bank"})
  \cup ({"BankOutputOffset"} \X {">"}
        \X {"Input", "MultiportInput", "Bank", "BankOffset", "BankMultiportOffset"})
  \cup ({"BankMultiport"} \X {">"} \X {"MultiportInput", "Bank"})
  \cup ({"BankMultiportOffset"} \X {">"} \X {"MultiportInput", "Bank", "BankOffset"})

Orders(shape) == {f \in [DOMAIN shape -> DOMAIN shape] : \A i, j \in DOMAIN shape : f[i] = f[j] => i = j}

(* A statement; ports are accumulated only to be connected to at least two *)
(* ports (with one, the code reads past the end of the multiport).         *)
InitStatement ==
  \E overload \in Overloads :
    \E l \in Shapes(overload[1]), r \in Shapes(overload[3]) :
      \E order \in Orders(r), accumulated \in BOOLEAN :
        /\ accumulated => overload[1] = "Output" /\ overload[3] = "MultiportInput" /\ r[1] > 1
        /\ statement = [from |-> overload[1], op |-> overload[2], to |-> overload[3],
                        accumulated |-> accumulated,
                        left |-> Members(Bank("left", l, [i \in DOMAIN l |-> i]), "member"),
                        right |-> Members(Bank("right", r, order), "member")]

Init ==
  \/ /\ a \in TagInputs /\ b \in TagInputs /\ offset \in 0..MaxOffset
     /\ statement = <<>>
  \/ /\ a = TagAt(0, 0) /\ b = TagAt(0, 0) /\ offset = 0
     /\ InitStatement

Next == UNCHANGED vars

Spec == Init /\ [][Next]_vars

-----------------------------------------------------------------------------
(* The tags that the results can be.                                       *)
Candidates == [time : -MaxOffset - 1..MaxTime + MaxOffset, micro_step : Microstep]

(* Tag::delay returns the first tag an event scheduled with this delay may *)
(* have: for a delay of zero the very next tag, otherwise the first one of *)
(* the delayed time point.                                                 *)
DelayIsFirst ==
  ~Overflows(a, offset) =>
    /\ a \prec delay(a, offset)
    /\ \A c \in Candidates :
         a \prec c /\ c.time >= a.time + offset => delay(a, offset) \preceq c

(* Tag::subtract returns the latest tag that can still cause an event at   *)
(* or before the given tag over a connection with this delay.              *)
SubtractIsLatest ==
  LET causes == {c \in Candidates : ~Overflows(c, offset) /\ delay(c, offset) \preceq a}
  IN  /\ \A c \in causes : c \preceq subtract(a, offset)
      /\ \A c \in Candidates :
           ~Overflows(c, offset) /\ c \preceq subtract(a, offset) => c \in causes

(* Tag::decrement returns the last tag before the given one: what is       *)
(* released up to it leaves the tag itself unreleased.                     *)
DecrementIsLast == b \preceq decrement(a) <=> b \prec a

-----------------------------------------------------------------------------
Wired == statement # <<>>
Left == FlattenSeq(statement.left)
Right == FlattenSeq(statement.right)
Connections ==
  Drawn(statement.from, statement.op, statement.to, statement.left, statement.accumulated,
        statement.right)

(* Fanning out: also a single output to a bank does *)
FansOut ==
  \/ statement.op = ">>"
  \/ statement.from = "Output" /\ statement.to \in {"Vector", "Bank", "BankOffset"}

(* Is the right side in memory as it is in the bank?                       *)
InOrder == \A k \in 1..Len(Right) - 1 : Right[k].address < Right[k + 1].address

(* The k-th port on the right is connected with the k-th on the left, or   *)
(* with the left ports in turn, through all reactors of a bank -- in one   *)
(* overload, which sorts the ports by address, only if the reactors of the *)
(* bank happen to be allocated in ascending order.                         *)
PairedByIndex ==
  Wired /\ (InOrder \/ ~(statement.from = "MultiportOutput" /\ statement.to = "BankOffset")) =>
    \A edge \in Connections :
      \E k \in 1..Len(Right) : edge = <<Left[((k - 1) % Len(Left)) + 1], Right[k]>>

(* No wiring statement connects two sources to one port, wherever the      *)
(* ports lie in memory.                                                    *)
OneSource ==
  Wired => \A v, w \in Connections : v[2] = w[2] => v[1] = w[1]

(* No port is left out that has a partner: all ports are connected if      *)
(* there are as many on both sides (the warnings speak of ports that are   *)
(* not connected otherwise).  Accumulated ports are the exception.         *)
AllPartnersConnected ==
  Wired /\ ~statement.accumulated =>
    Cardinality(Connections) =
      IF FansOut \/ Len(Right) <= Len(Left) THEN Len(Right) ELSE Len(Left)

=============================================================================
