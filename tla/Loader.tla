------------------------------- MODULE Loader -------------------------------
(***************************************************************************)
(* main() of noded: the first pass counts nodes and wires, vm_init()       *)
(* allocates as many, the second pass adds them one by one and run() is    *)
(* called on what they make.                                               *)
(*                                                                         *)
(* A file is a sequence of declarations.  Of a processor's body this       *)
(* module keeps what compile() hands back: the port names in the order of  *)
(* their first use, and whether it reported an error.                      *)
(***************************************************************************)
EXTENDS Limits, SequencesExt

CONSTANTS
  Names,        \* node names; "io" may be one of them
  PortNames,    \* port names
  Decls,        \* the declarations that a file may have
  MaxDecls      \* bound: how many it has

VARIABLES
  file,         \* the declarations
  seekable,     \* whether fseek() works on the file: not on a pipe
  pc,           \* "count", "build", or how the loading ended
  pos,          \* the declaration that is next
  nnodes,       \* nodes counted, the IO node included
  nwires,       \* wires counted
  nodes,        \* nodes[k + 1] is vm->nodes[k]: its type and its code
  ports,        \* ports[k + 1] is the port table of processor k
  nwired,       \* vm->wires_added
  rules,        \* rules[k + 1] is the NodeRule of node k
  dict          \* the symbol dictionary: dict[k + 1] is the name with the id k

vars == <<file, seekable, pc, pos, nnodes, nwires, nodes, ports, nwired, rules, dict>>
vmVars == <<nodes, ports, nwired, rules, dict>>

-----------------------------------------------------------------------------
(* The declarations.                                                       *)
Processor(name, used) ==
  [kind |-> "processor", name |-> name, ports |-> used, compiles |-> TRUE]
BadProcessor(name)    ==
  [kind |-> "processor", name |-> name, ports |-> << >>, compiles |-> FALSE]
Copy(name, source)    == [kind |-> "copy", name |-> name, source |-> source]
Buffer(name)          == [kind |-> "buffer", name |-> name]
Stack(name)           == [kind |-> "stack", name |-> name]
End(node, port)       == [node |-> node, port |-> port]
WireDecl(e1, e2)      == [kind |-> "wire", ends |-> <<e1, e2>>]
Garbage               == [kind |-> "garbage"]

NodeKinds == {"processor", "copy", "buffer", "stack"}

Decl ==
  {Processor(n, u) : n \in Names, u \in UNION {[1 .. k -> PortNames] : k \in 0 .. PORT_MAX}}
    \union {BadProcessor(n) : n \in Names} \union {Copy(n, m) : n, m \in Names}
    \union {Buffer(n) : n \in Names} \union {Stack(n) : n \in Names}
    \union {WireDecl(End(n, p), End(m, q)) : n, m \in Names, p, q \in PortNames}
    \union {Garbage}

ASSUME LoaderAssumption == Decls \subseteq Decl /\ MaxDecls \in Nat

-----------------------------------------------------------------------------
(* The dictionary: sym_id() of a name that it has not seen adds it at the *)
(* end.  Names of variables and labels, which compile() adds to it too,    *)
(* are left out.                                                           *)
First(S) == CHOOSE k \in S : \A j \in S : k <= j

Learn(known, s) == IF Contains(known, s) THEN known ELSE Append(known, s)

Interned(d, names) ==
  LET after[k \in 0 .. Len(names)] ==
        IF k = 0 THEN d ELSE Learn(after[k - 1], names[k])
  IN  after[Len(names)]

sym_id(d, s)  == First({k \in DOMAIN d : d[k] = s}) - 1
Ids(d, names) == [k \in DOMAIN names |-> sym_id(d, names[k])]
id_sym(id)    == dict[id + 1]

(* The node rules.  All names and ports are ids.                           *)
Rule(id, ids, is_proc) == [id |-> id, ports |-> ids, is_proc |-> is_proc]

IoPorts     == <<"in", "out", "err">>
BufferPorts == <<"elm", "idx">>
StackPorts  == <<"elm">>

(* The rule of a node with a name and ports that d knows.                  *)
RuleIn(d, name, names, is_proc) == Rule(sym_id(d, name), Ids(d, names), is_proc)

(* The node with an id, and its port with an id: the first that has it,    *)
(* counted from 0.                                                         *)
RulesOf(id)         == {k \in DOMAIN rules : rules[k].id = id}
find_rule(id)       == First(RulesOf(id)) - 1
PortsOf(node, id)   == {k \in DOMAIN rules[node + 1].ports : rules[node + 1].ports[k] = id}
find_port(node, id) == First(PortsOf(node, id)) - 1

-----------------------------------------------------------------------------
Init ==
  /\ file \in UNION {[1 .. k -> Decls] : k \in 0 .. MaxDecls}
  /\ seekable \in BOOLEAN
  /\ pc = "count" /\ pos = 1
  /\ nnodes = 1 /\ nwires = 0
  /\ nodes = << >> /\ ports = << >> /\ nwired = 0 /\ rules = << >> /\ dict = << >>

At(phase, kinds) == pc = phase /\ pos <= Len(file) /\ file[pos].kind \in kinds

(* send_error(): has_errors() ends the pass, and main() returns 1.  In a   *)
(* file that is not seekable the error is not counted.                     *)
Reject == pc' = "rejected" /\ UNCHANGED <<file, seekable, pos, nnodes, nwires, vmVars>>

(* errx() or a fatal signal.                                               *)
Abort == pc' = "aborted" /\ UNCHANGED <<file, seekable, pos, nnodes, nwires, vmVars>>

NextDecl == pos' = pos + 1 /\ UNCHANGED <<file, seekable, pc>>

-----------------------------------------------------------------------------

(* Defect: the first pass does not count copies of processors.             *)
CountNodeButCopies ==
  /\ At("count", NodeKinds)
  /\ nnodes' = IF file[pos].kind = "copy" THEN nnodes ELSE nnodes + 1
  /\ NextDecl
  /\ UNCHANGED <<nwires, vmVars>>

(* First pass.                                                             *)
CountNode ==
  /\ At("count", NodeKinds)
  /\ nnodes' = nnodes + 1
  /\ NextDecl
  /\ UNCHANGED <<nwires, vmVars>>

CountWire ==
  /\ At("count", {"wire"})
  /\ nwires' = nwires + 1
  /\ NextDecl
  /\ UNCHANGED <<nnodes, vmVars>>

(* Nothing is consumed: only an error that counts ends the loop.           *)
CountGarbage == At("count", {"garbage"}) /\ seekable /\ Reject

CountGarbageForEver == At("count", {"garbage"}) /\ ~seekable /\ UNCHANGED vars

(* Defect: the IO node is added, but not its rule.                         *)
RewindNoIoRule ==
  /\ pc = "count" /\ pos > Len(file) /\ seekable
  /\ pc' = "build" /\ pos' = 1
  /\ nodes' = <<[type |-> "IO_NODE", code |-> "none"]>>
  /\ ports' = << << >> >>
  /\ dict' = IoPorts \o <<"io">>
  /\ UNCHANGED <<file, seekable, nnodes, nwires, nwired, rules>>

(* vm_init(), the rewind, and the IO node with its rule.                   *)
Rewind ==
  /\ pc = "count" /\ pos > Len(file) /\ seekable
  /\ pc' = "build" /\ pos' = 1
  /\ nodes' = <<[type |-> "IO_NODE", code |-> "none"]>>
  /\ ports' = << << >> >>
  /\ dict' = IoPorts \o <<"io">>
  /\ rules' = <<RuleIn(dict', "io", IoPorts, FALSE)>>
  /\ UNCHANGED <<file, seekable, nnodes, nwires, nwired>>

RewindFails == pc = "count" /\ pos > Len(file) /\ ~seekable /\ Abort

-----------------------------------------------------------------------------
(* Second pass.                                                            *)

(* add_node() takes the next element of an array of nnodes.                *)
add_node(type, code, rule, d) ==
  IF Len(nodes) < nnodes
  THEN /\ nodes' = Append(nodes, [type |-> type, code |-> code])
       /\ ports' = Append(ports, << >>)
       /\ rules' = Append(rules, rule)
       /\ dict' = d
       /\ NextDecl
       /\ UNCHANGED <<nnodes, nwires, nwired>>
  ELSE Abort

(* A node with a name of its own, and ports that are named before it.      *)
NewNode(type, code, name, names, is_proc) ==
  LET d == Interned(dict, Append(names, name))
  IN  add_node(type, code, RuleIn(d, name, names, is_proc), d)

ScanProcessor ==
  /\ At("build", {"processor"})
  /\ LET d == file[pos]
     IN  \/ d.compiles /\ NewNode("PROC_NODE", d.name, d.name, d.ports, TRUE)
         \/ ~d.compiles /\ Reject

(* copy_proc_node() takes the node it is given for a processor.  The IO    *)
(* node has no data to read; the bytes of a buffer or of a stack become    *)
(* pointers, which are followed only later.                                *)
CopyOf(node, rule, d) ==
  \/ node.type = "PROC_NODE" /\ add_node("PROC_NODE", node.code, rule, d)
  \/ /\ node.type \in {"BUFFER_NODE", "STACK_NODE"}
     /\ add_node("PROC_NODE", "undefined", rule, d)
  \/ node.type = "IO_NODE" /\ Abort

ScanCopy ==
  /\ At("build", {"copy"})
  /\ LET d      == Interned(dict, <<file[pos].source>>)
         source == sym_id(d, file[pos].source)
         with   == Interned(d, <<file[pos].name>>)
         its    == rules[find_rule(source) + 1]
         rule   == Rule(sym_id(with, file[pos].name), its.ports, its.is_proc)
     IN  \/ RulesOf(source) = {} /\ Reject
         \/ RulesOf(source) # {} /\ CopyOf(nodes[find_rule(source) + 1], rule, with)

ScanBuffer ==
  /\ At("build", {"buffer"})
  /\ NewNode("BUFFER_NODE", "none", file[pos].name, BufferPorts, FALSE)

ScanStack ==
  /\ At("build", {"stack"})
  /\ NewNode("STACK_NODE", "none", file[pos].name, StackPorts, FALSE)

(* add_wire_to_port(): the table t of a processor with entry e at port p.  *)
Put(t, p, e) == [q \in DOMAIN t \union {p} |-> IF q = p THEN e ELSE t[q]]

(* Defect: the number of the wire is taken after it was incremented.       *)
EntryNextWire(recp, recp_port) ==
  [recp |-> recp, recp_port |-> recp_port, wire |-> nwired + 1]

Entry(recp, recp_port) == [recp |-> recp, recp_port |-> recp_port, wire |-> nwired]

IsProc(node) == nodes[node + 1].type = "PROC_NODE"

Attach(tables, node, port, e) ==
  IF IsProc(node) THEN [tables EXCEPT ![node + 1] = Put(@, port, e)] ELSE tables

(* Defect: the array of wires is taken to be full one wire too soon.       *)
add_wireNotTheLast(n1, p1, n2, p2, d) ==
  IF nwired + 1 < nwires
  THEN /\ nwired' = nwired + 1
       /\ ports' = Attach(Attach(ports, n1, p1, Entry(n2, p2)), n2, p2, Entry(n1, p1))
       /\ dict' = d
       /\ NextDecl
       /\ UNCHANGED <<nnodes, nwires, nodes, rules>>
  ELSE Abort

(* Defect: a wire is added to its first end only.                          *)
add_wireOneEnd(n1, p1, n2, p2, d) ==
  IF nwired < nwires
  THEN /\ nwired' = nwired + 1
       /\ ports' = Attach(ports, n1, p1, Entry(n2, p2))
       /\ dict' = d
       /\ NextDecl
       /\ UNCHANGED <<nnodes, nwires, nodes, rules>>
  ELSE Abort

(* The next wire, at both of its ends that are processors.                 *)
add_wire(n1, p1, n2, p2, d) ==
  IF nwired < nwires
  THEN /\ nwired' = nwired + 1
       /\ ports' = Attach(Attach(ports, n1, p1, Entry(n2, p2)), n2, p2, Entry(n1, p1))
       /\ dict' = d
       /\ NextDecl
       /\ UNCHANGED <<nnodes, nwires, nodes, rules>>
  ELSE Abort

(* What scan_wire() looks up: both nodes, and the port at each it finds.   *)
LookedAt(d, e) ==
  IF RulesOf(sym_id(d, e.node)) # {} THEN Interned(d, <<e.port>>) ELSE d

Looked(ends) ==
  LookedAt(LookedAt(Interned(dict, <<ends[1].node, ends[2].node>>), ends[1]), ends[2])

ScanWire ==
  /\ At("build", {"wire"})
  /\ LET d  == Looked(file[pos].ends)
         Node(e) == find_rule(sym_id(d, e.node))
         Port(e) == sym_id(d, e.port)
         Exists(e) ==
           RulesOf(sym_id(d, e.node)) # {} /\ PortsOf(Node(e), Port(e)) # {}
         e1 == file[pos].ends[1]
         e2 == file[pos].ends[2]
     IN  IF Exists(e1) /\ Exists(e2)
              /\ (rules[Node(e1) + 1].is_proc \/ rules[Node(e2) + 1].is_proc)
         THEN add_wire(Node(e1), find_port(Node(e1), Port(e1)),
                       Node(e2), find_port(Node(e2), Port(e2)), d)
         ELSE Reject

(* run(&vm).  The rules and the dictionary are freed; here they stay for   *)
(* the properties.                                                         *)
Run ==
  /\ pc = "build" /\ pos > Len(file)
  /\ pc' = "run"
  /\ UNCHANGED <<file, seekable, pos, nnodes, nwires, vmVars>>

Ended == pc \in {"rejected", "aborted", "run"} /\ UNCHANGED vars

Next ==
  \/ CountNode \/ CountWire \/ CountGarbage \/ CountGarbageForEver
  \/ Rewind \/ RewindFails
  \/ ScanProcessor \/ ScanCopy \/ ScanBuffer \/ ScanStack \/ ScanWire
  \/ Run \/ Ended

Spec == Init /\ [][Next]_vars

-----------------------------------------------------------------------------
NodeType == {"IO_NODE", "PROC_NODE", "BUFFER_NODE", "STACK_NODE"}
Symbols  == Names \union PortNames \union {"io", "in", "out", "err", "elm", "idx"}
PortRec  == [recp : 0 .. nnodes - 1, recp_port : PortIdx, wire : 0 .. nwires - 1]

TypeOK ==
  /\ file \in Seq(Decls)
  /\ pc \in {"count", "build", "rejected", "aborted", "run"}
  /\ pos \in 1 .. Len(file) + 1 /\ seekable \in BOOLEAN
  /\ nnodes \in Nat /\ nwires \in Nat /\ nwired \in 0 .. nwires
  /\ \A k \in DOMAIN nodes : nodes[k].type \in NodeType
  /\ DOMAIN ports = DOMAIN nodes /\ DOMAIN rules = DOMAIN nodes
  /\ dict \in Seq(Symbols) /\ IsInjective(dict)

(* Declarations of some kinds that the second pass has still to build.     *)
Left(kinds) == Cardinality({j \in pos .. Len(file) : file[j].kind \in kinds})

(* The two passes read the same file: the arrays that vm_init() allocates  *)
(* have room for every node and wire that the second pass adds, and none   *)
(* is left over when run() starts.                                         *)
CountsAgree ==
  pc = "build" => /\ nnodes = Len(nodes) + Left(NodeKinds)
                  /\ nwires = nwired + Left({"wire"})

(* The only declaration that can end the process, once the file has been   *)
(* rewound, is a copy of the IO node: never an add_node() or add_wire()    *)
(* beyond the arrays.                                                      *)
AbortsAtACopyOfIo ==
  pc = "aborted" /\ seekable => file[pos].kind = "copy" /\ file[pos].source = "io"

(* What run() gets is a topology as module Topology describes it.          *)
Loaded == INSTANCE Topology WITH
  NNodes <- nnodes,
  Type   <- [n \in 0 .. nnodes - 1 |-> nodes[n + 1].type],
  Wire   <- 0 .. nwires - 1,
  Port   <- [n \in 0 .. nnodes - 1 |-> ports[n + 1]]

RunsOnATopology == pc = "run" => Loaded!TopologyOK

-----------------------------------------------------------------------------
(* What the declarations say, without the order in which add_wire() wrote  *)
(* the tables, and without ids.  Node n is the n-th that is declared, and  *)
(* a name stands for the first node that has it.                           *)
NodeAt(n) == CHOOSE j \in DOMAIN file :
               /\ file[j].kind \in NodeKinds
               /\ Cardinality({k \in 1 .. j : file[k].kind \in NodeKinds}) = n
NameOf(n) == IF n = 0 THEN "io" ELSE file[NodeAt(n)].name
PortNameOf(n, p) == id_sym(rules[n + 1].ports[p + 1])

IsEnd(e, n, p) ==
  /\ e.node = NameOf(n) /\ \A m \in 0 .. n - 1 : e.node # NameOf(m)
  /\ p < Len(rules[n + 1].ports)
  /\ e.port = PortNameOf(n, p) /\ \A q \in 0 .. p - 1 : e.port # PortNameOf(n, q)

WirePositions == {j \in DOMAIN file : file[j].kind = "wire"}
Mentions(n, p) == {j \in WirePositions : \E s \in 1 .. 2 : IsEnd(file[j].ends[s], n, p)}

WireNumber(j) == Cardinality({k \in WirePositions : k < j})

(* Wire j joins port p of node n to port q of node m.                      *)
Joins(j, n, p, m, q) ==
  \E s \in 1 .. 2 : IsEnd(file[j].ends[s], n, p) /\ IsEnd(file[j].ends[3 - s], m, q)

(* When run() starts, every port of a processor is at the end of the last  *)
(* wire declared for it and knows the node, the port and the wire there.   *)
WiredAsDeclared ==
  pc = "run" => \A n \in Loaded!Proc : \A p \in PortIdx :
    /\ p \in DOMAIN ports[n + 1] <=> Mentions(n, p) # {}
    /\ p \in DOMAIN ports[n + 1] =>
         LET e == ports[n + 1][p]
         IN  \E j \in Mentions(n, p) :
               /\ \A k \in Mentions(n, p) : k <= j
               /\ e.wire = WireNumber(j)
               /\ Joins(j, n, p, e.recp, e.recp_port)
=============================================================================
