------------------------------ MODULE Topology ------------------------------
(***************************************************************************)
(* What the loader leaves in a struct VM for run() and nothing changes     *)
(* afterwards: the nodes in the order of their declaration, their types,   *)
(* and the port table of every processor node.                             *)
(*                                                                         *)
(* Port[n] is a function on the ports of n that some add_wire() filled: a  *)
(* port outside DOMAIN Port[n] still has the NULL recp of ecalloc().       *)
(***************************************************************************)
EXTENDS Limits

CONSTANTS
  NNodes,       \* vm->nnodes
  Type,         \* Type[n] is vm->nodes[n].type
  Wire,         \* vm->wires
  Port          \* Port[n][p] is ((ProcNode *) vm->nodes[n].dat)->ports[p]

Node     == 0 .. NNodes - 1
NodeType == {"IO_NODE", "PROC_NODE", "BUFFER_NODE", "STACK_NODE"}

Proc      == {n \in Node : Type[n] = "PROC_NODE"}
BufNode   == {n \in Node : Type[n] = "BUFFER_NODE"}
StackNode == {n \in Node : Type[n] = "STACK_NODE"}

PortRec == [recp : Node, recp_port : PortIdx, wire : Wire]

Wired(n, p) == p \in DOMAIN Port[n]

(* The type of the node at the other end, which selects the row of         *)
(* port_table, and the wire in between.                                    *)
PeerType(n, p) == Type[Port[n][p].recp]
WireOf(n, p)   == Port[n][p].wire

TopologyOK ==
  /\ NNodes \in Nat
  /\ Type \in [Node -> NodeType]
  /\ \A n \in Proc : \A p \in DOMAIN Port[n] :
       p \in PortIdx /\ Port[n][p] \in PortRec

ASSUME TopologyAssumption == TopologyOK
=============================================================================
