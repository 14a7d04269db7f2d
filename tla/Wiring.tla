------------------------------- MODULE Wiring -------------------------------
(***************************************************************************)
(* The wiring statements of the SDK: which connections are drawn when one  *)
(* writes  left-- > right  (or >> to fan out) between ports, multiports    *)
(* and the ports of a bank of reactors.                                    *)
(*                                                                         *)
(* Either side is a bank: a sequence of reactors, each a sequence with the *)
(* ports of one member.  A multiport is a bank of one reactor, a port a    *)
(* multiport of width one.  Members of banks exist once the banks and      *)
(* widths are set, so that no side is empty.  A port has an address, its   *)
(* place in memory; `connect_' goes through ports in this order.           *)
(***************************************************************************)
EXTENDS Integers, SequencesExt

(* The k-th left port with the k-th right port, as long as there are both. *)
Paired_fault(left, right) ==    \* the iterator on the right stands still
  {<<left[k], right[1]>> : k \in 1..Len(left)}

Paired_fault2(left, right) ==    \* the last pair is left out
  {<<left[k], right[k]>> : k \in {j \in 1..Len(left) : j < Len(right)}}

Paired(left, right) ==
  {<<left[k], right[k]>> : k \in 1..Len(left) \cap 1..Len(right)}

(* Right ports in turn with the left ports, from the first one again.      *)
RoundRobin(left, right) ==
  {<<left[((k - 1) % Len(left)) + 1], right[k]>> : k \in 1..Len(right)}

(* std::set<Port<T>*> is ordered by address. *)
InAddressOrder_fault(ports) ==    \* from the highest address down
  CHOOSE s \in [1..Cardinality(ports) -> ports] :
    \A i, j \in 1..Cardinality(ports) : i < j => s[j].address < s[i].address

InAddressOrder(ports) ==
  CHOOSE s \in [1..Cardinality(ports) -> ports] :
    \A i, j \in 1..Cardinality(ports) : i < j => s[i].address < s[j].address

connect_(left_ports, right_ports) ==
  Paired(InAddressOrder(left_ports), InAddressOrder(right_ports))

connect_fanout_(left_ports, right_ports) ==
  {<<InAddressOrder(left_ports)[1], q>> : q \in right_ports}

-----------------------------------------------------------------------------
(* Views of a bank.  A bank's operator->* takes a pointer to a member, or  *)
(* the address of the member in one of its reactors, from which it finds   *)
(* the member's offset: both stand for that member of every reactor.       *)

Members(bank, member) == [i \in DOMAIN bank |-> bank[i][member]]

InputPorts(bank) == [i \in DOMAIN bank |-> bank[i][1]]
InputMultiports(bank) == FlattenSeq(bank)
OutputPorts(bank) == [i \in DOMAIN bank |-> bank[i][1]]
OutputMultiports(bank) == FlattenSeq(bank)

-----------------------------------------------------------------------------
(* The overloads of connect(), by class *)

Output_Port(port, right) == {<<port, right[1][1]>>}

(* After operator+ the first right port gets this port; the test for the   *)
(* end of the right ports is inverted, so that the loop over the           *)
(* accumulated ports ends at once, unless there is a single right port,    *)
(* when it leaves the multiport.                                           *)
Accumulated(port, right) == {<<port, right[1][1]>>}

Output_MultiportInput(port, is_accumulated, right) ==
  IF is_accumulated THEN Accumulated(port, right) ELSE connect_({port}, ToSet(right[1]))

Output_fanout(port, is_accumulated, right) ==
  IF is_accumulated THEN Accumulated(port, right) ELSE connect_fanout_({port}, ToSet(right[1]))

Output_Bank(port, right) == {port} \X ToSet(InputPorts(right))

Input_Input(port, right) == connect_({port}, {right[1][1]})
Input_MultiportInput(port, right) == {<<port, right[1][1]>>}
Input_fanout(port, right) == connect_fanout_({port}, ToSet(right[1]))

MultiportOutput_Port(ports, right) == {<<ports[1], right[1][1]>>}
MultiportOutput_Multiport(ports, right) == Paired(ports, right[1])
MultiportOutput_Bank(ports, right) == Paired(ports, InputPorts(right))
MultiportOutput_BankOffset(ports, right) == connect_(ToSet(ports), ToSet(InputPorts(right)))

MultiportInput_Input(ports, right) == {<<ports[1], right[1][1]>>}
MultiportInput_MultiportInput(ports, right) == Paired(ports, right[1])

BankOutput_Input(left, right) == {<<OutputPorts(left)[1], right[1][1]>>}
BankOutput_MultiportInput(left, right) == Paired(OutputPorts(left), right[1])
BankOutput_Bank(left, right) == Paired(OutputPorts(left), InputPorts(right))

BankOutputOffset_Input(left, right) == {<<OutputPorts(left)[1], right[1][1]>>}
BankOutputOffset_MultiportInput(left, right) == Paired(OutputPorts(left), right[1])
BankOutputOffset_fanout(left, right) == RoundRobin(OutputPorts(left), right[1])
BankOutputOffset_Bank(left, right) == Paired(OutputPorts(left), InputPorts(right))
BankOutputOffset_BankOffset(left, right) == Paired(OutputPorts(left), InputPorts(right))
BankOutputOffset_BankMultiportOffset(left, right) ==
  Paired(OutputPorts(left), InputMultiports(right))

BankMultiport_MultiportInput(left, right) == Paired(OutputMultiports(left), right[1])
BankMultiport_Bank(left, right) == Paired(OutputMultiports(left), InputPorts(right))

BankMultiportOffset_MultiportInput(left, right) == Paired(OutputMultiports(left), right[1])
BankMultiportOffset_Bank(left, right) == Paired(OutputMultiports(left), InputPorts(right))
BankMultiportOffset_BankOffset(left, right) == Paired(OutputMultiports(left), InputPorts(right))

-----------------------------------------------------------------------------
(* operator> and operator>> of the proxies that operator-- returns: the    *)
(* overload that belongs to the kinds of the two sides                     *)

Output_WiringProxy(op, to, port, is_accumulated, right) ==
  IF op = ">>" THEN Output_fanout(port, is_accumulated, right)
  ELSE CASE to \in {"Input", "Output"} -> Output_Port(port, right)
         [] to = "MultiportInput" -> Output_MultiportInput(port, is_accumulated, right)
         [] to \in {"Vector", "Bank", "BankOffset"} -> Output_Bank(port, right)

Input_WiringProxy(op, to, port, right) ==
  IF op = ">>" THEN Input_fanout(port, right)
  ELSE CASE to = "Input" -> Input_Input(port, right)
         [] to = "MultiportInput" -> Input_MultiportInput(port, right)

MultiportOutput_WiringProxy(to, ports, right) ==
  CASE to \in {"Input", "Output"} -> MultiportOutput_Port(ports, right)
    [] to \in {"MultiportInput", "MultiportOutput"} -> MultiportOutput_Multiport(ports, right)
    [] to \in {"Vector", "Bank"} -> MultiportOutput_Bank(ports, right)
    [] to = "BankOffset" -> MultiportOutput_BankOffset(ports, right)

MultiportInput_WiringProxy(to, ports, right) ==
  CASE to = "Input" -> MultiportInput_Input(ports, right)
    [] to = "MultiportInput" -> MultiportInput_MultiportInput(ports, right)

BankOutput_WiringProxy(to, left, right) ==
  CASE to = "Input" -> BankOutput_Input(left, right)
    [] to = "MultiportInput" -> BankOutput_MultiportInput(left, right)
    [] to = "Bank" -> BankOutput_Bank(left, right)

BankOutputOffset_WiringProxy(op, to, left, right) ==
  IF op = ">>" THEN BankOutputOffset_fanout(left, right)
  ELSE CASE to = "Input" -> BankOutputOffset_Input(left, right)
         [] to = "MultiportInput" -> BankOutputOffset_MultiportInput(left, right)
         [] to = "Bank" -> BankOutputOffset_Bank(left, right)
         [] to = "BankOffset" -> BankOutputOffset_BankOffset(left, right)
         [] to = "BankMultiportOffset" -> BankOutputOffset_BankMultiportOffset(left, right)

BankMultiport_WiringProxy(to, left, right) ==
  CASE to = "MultiportInput" -> BankMultiport_MultiportInput(left, right)
    [] to = "Bank" -> BankMultiport_Bank(left, right)

BankMultiportOffset_WiringProxy(to, left, right) ==
  CASE to = "MultiportInput" -> BankMultiportOffset_MultiportInput(left, right)
    [] to = "Bank" -> BankMultiportOffset_Bank(left, right)
    [] to = "BankOffset" -> BankMultiportOffset_BankOffset(left, right)

(* The connections a statement draws.                                      *)
Drawn(from, op, to, left, is_accumulated, right) ==
  CASE from = "Output" -> Output_WiringProxy(op, to, left[1][1], is_accumulated, right)
    [] from = "Input" -> Input_WiringProxy(op, to, left[1][1], right)
    [] from = "MultiportOutput" -> MultiportOutput_WiringProxy(to, left[1], right)
    [] from = "MultiportInput" -> MultiportInput_WiringProxy(to, left[1], right)
    [] from = "BankOutput" -> BankOutput_WiringProxy(to, left, right)
    [] from = "BankOutputOffset" -> BankOutputOffset_WiringProxy(op, to, left, right)
    [] from = "BankMultiport" -> BankMultiport_WiringProxy(to, left, right)
    [] from = "BankMultiportOffset" -> BankMultiportOffset_WiringProxy(to, left, right)

=============================================================================
