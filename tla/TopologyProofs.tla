--------------------------- MODULE TopologyProofs ---------------------------
(***************************************************************************)
(* What main() keeps of a file, and that what run() gets of it is the      *)
(* topology which the file describes: proofs about module Loader for files *)
(* of any length, with any names in them.                                  *)
(***************************************************************************)
EXTENDS LoaderProofs

IsSeq(s) == \E S : s \in Seq(S)

(* Entries of port tables when there are len nodes and w wires.            *)
Entries(len, w) == [recp : 0 .. len - 1, recp_port : PortIdx, wire : 0 .. w - 1]

TablesOK(tables, len, w) ==
  /\ IsSeq(tables) /\ Len(tables) = len
  /\ \A k \in 1 .. len : nodes[k].type = "PROC_NODE" =>
       \A p \in DOMAIN tables[k] : p \in PortIdx /\ tables[k][p] \in Entries(len, w)

RulesOK ==
  /\ IsSeq(rules) /\ Len(rules) = Len(nodes)
  /\ \A k \in 1 .. Len(nodes) : DOMAIN rules[k].ports \subseteq 1 .. PORT_MAX

(* What has been built of the virtual machine.                             *)
Built ==
  /\ \A k \in 1 .. Len(nodes) : nodes[k].type \in NodeType
  /\ TablesOK(ports, Len(nodes), nwired)
  /\ RulesOK
  /\ nwired <= nwires

(* Nothing is missing when it runs.                                        *)
Complete ==
  pc = "run" => nnodes = Len(nodes) /\ nwires = nwired /\ pos = Len(file) + 1

TInv ==
  /\ LInv /\ Built /\ Complete
  /\ pc \in {"count", "build", "rejected", "aborted", "run"} /\ seekable \in BOOLEAN

-----------------------------------------------------------------------------
(* Sequences, and the least of some numbers.                               *)
LEMMA Appended ==
  ASSUME NEW s, NEW e, IsSeq(s)
  PROVE  /\ IsSeq(Append(s, e))
         /\ Len(s) \in Nat /\ Len(Append(s, e)) = Len(s) + 1
         /\ \A k \in 1 .. Len(s) : Append(s, e)[k] = s[k]
         /\ Append(s, e)[Len(s) + 1] = e
<1>1. PICK S : s \in Seq(S)
  BY DEF IsSeq
<1> DEFINE T == S \union {e}
<1>2. s \in Seq(T)
  BY <1>1, SeqMonotonic
<1>3. e \in T
  OBVIOUS
<1> HIDE DEF T
<1>4. /\ Append(s, e) \in Seq(T) /\ Len(Append(s, e)) = Len(s) + 1
      /\ \A k \in 1 .. Len(s) : Append(s, e)[k] = s[k]
      /\ Append(s, e)[Len(s) + 1] = e
  BY <1>2, <1>3, AppendProperties
<1>5. Len(s) \in Nat
  BY <1>2, LenProperties
<1>6. IsSeq(Append(s, e))
  BY <1>4, Zenon DEF IsSeq
<1> QED
  BY <1>4, <1>5, <1>6

(* A sequence with another k-th element.                                   *)
Patch(s, k, e) == [s EXCEPT ![k] = e]

LEMMA Replaced ==
  ASSUME NEW s, NEW e, NEW k \in 1 .. Len(s), IsSeq(s)
  PROVE  /\ IsSeq(Patch(s, k, e))
         /\ Len(Patch(s, k, e)) = Len(s)
         /\ \A j \in 1 .. Len(s) : Patch(s, k, e)[j] = IF j = k THEN e ELSE s[j]
<1>1. PICK S : s \in Seq(S)
  BY DEF IsSeq
<1> DEFINE T == S \union {e}
<1>2. s \in Seq(T)
  BY <1>1, SeqMonotonic
<1>3. e \in T
  OBVIOUS
<1> HIDE DEF T
<1>4. /\ Patch(s, k, e) \in Seq(T)
      /\ Len(Patch(s, k, e)) = Len(s)
      /\ \A j \in 1 .. Len(s) : Patch(s, k, e)[j] = IF j = k THEN e ELSE s[j]
  BY <1>2, <1>3, ExceptSeq DEF Patch
<1>5. IsSeq(Patch(s, k, e))
  BY <1>4, Zenon DEF IsSeq
<1> QED
  BY <1>4, <1>5

LEMMA SeqDomain == ASSUME NEW s, IsSeq(s) PROVE DOMAIN s = 1 .. Len(s) /\ Len(s) \in Nat
BY LenProperties DEF IsSeq

(* What find_rule() and find_port() return if they find something.         *)
LEMMA Found ==
  ASSUME RulesOK, Len(nodes) \in Nat, NEW id, RulesOf(id) # {}
  PROVE  find_rule(id) \in 0 .. Len(nodes) - 1
<1>1. RulesOf(id) \subseteq 1 .. Len(nodes)
  BY SeqDomain DEF RulesOK, RulesOf
<1>2. First(RulesOf(id)) \in RulesOf(id)
  BY <1>1, LeastOf
<1> QED
  BY <1>1, <1>2 DEF find_rule

LEMMA FoundPort ==
  ASSUME RulesOK, NEW n \in 0 .. Len(nodes) - 1, Len(nodes) \in Nat,
         NEW id, PortsOf(n, id) # {}
  PROVE  find_port(n, id) \in PortIdx
<1>1. PortsOf(n, id) \subseteq 1 .. PORT_MAX
  BY DEF RulesOK, PortsOf
<1>2. First(PortsOf(n, id)) \in PortsOf(n, id)
  BY <1>1, LeastOf DEF PORT_MAX
<1> QED
  BY <1>1, <1>2 DEF find_port, PortIdx, PORT_MAX

-----------------------------------------------------------------------------
(* The ports of a processor that some file declares.                       *)
LEMMA DeclaredPorts ==
  ASSUME LInv, At("build", {"processor"}), file[pos].compiles
  PROVE  DOMAIN file[pos].ports \subseteq 1 .. PORT_MAX
<1>1. file[pos] \in Decl /\ file[pos].kind = "processor"
  BY LoaderAssumption DEF LInv, Shape, At
<1>2. /\ file[pos] \notin {Copy(n, m) : n, m \in Names}
      /\ file[pos] \notin {Buffer(n) : n \in Names} \union {Stack(n) : n \in Names}
      /\ file[pos] \notin {WireDecl(End(n, p), End(m, q)) : n, m \in Names, p, q \in PortNames}
      /\ file[pos] # Garbage
  BY <1>1 DEF Copy, Buffer, Stack, WireDecl, Garbage
<1>3. file[pos] \notin {BadProcessor(n) : n \in Names}
  BY DEF BadProcessor
<1> DEFINE Tables == UNION {[1 .. k -> PortNames] : k \in 0 .. PORT_MAX}
<1>4. file[pos] \in {Processor(n, u) : n \in Names, u \in Tables}
  BY <1>1, <1>2, <1>3 DEF Decl
<1>5. \A u \in Tables : DOMAIN u \subseteq 1 .. PORT_MAX
  BY DEF PORT_MAX
<1> HIDE DEF Tables
<1>6. PICK n \in Names, u \in Tables : file[pos] = Processor(n, u)
  BY <1>4
<1> QED
  BY <1>5, <1>6 DEF Processor

LEMMA TableRewind == TInv /\ Rewind => TInv'
<1> SUFFICES ASSUME TInv, Rewind PROVE TInv'
  OBVIOUS
<1>0. LInv'
  BY InvRewind DEF TInv
<1>1. /\ pc' = "build" /\ nodes' = <<[type |-> "IO_NODE", code |-> "none"]>>
      /\ ports' = << << >> >> /\ rules' = <<RuleIn(dict', "io", IoPorts, FALSE)>>
  BY DEF Rewind
<1>2. Len(nodes') = 1 /\ nodes'[1].type = "IO_NODE"
  BY <1>1
<1>3. TablesOK(ports, Len(nodes), nwired)'
  <2>1. ports' \in Seq({<< >>}) /\ Len(ports') = 1
    BY <1>1
  <2>2. IsSeq(ports')
    BY <2>1, Zenon DEF IsSeq
  <2> QED
    BY <1>2, <2>1, <2>2 DEF TablesOK
<1>4. RulesOK'
  <2> DEFINE r == RuleIn(dict', "io", IoPorts, FALSE)
  <2>1. DOMAIN r.ports = DOMAIN IoPorts
    BY DEF RuleIn, Rule, Ids
  <2>2. DOMAIN IoPorts = 1 .. 3
    BY DEF IoPorts
  <2> HIDE DEF r
  <2>3. rules' = <<r>>
    BY <1>1 DEF r
  <2>4. rules' \in Seq({r}) /\ Len(rules') = 1 /\ rules'[1] = r
    BY <2>3
  <2>5. IsSeq(rules')
    BY <2>4, Zenon DEF IsSeq
  <2> QED
    BY <1>2, <2>1, <2>2, <2>4, <2>5 DEF RulesOK, PORT_MAX
<1>5. \A k \in 1 .. Len(nodes') : nodes'[k].type \in NodeType
  BY <1>2 DEF NodeType
<1>6. (nwired <= nwires)'
  BY DEF TInv, LInv, Shape, CountsSoFar, Rewind
<1> QED
  BY <1>0, <1>1, <1>3, <1>4, <1>5, <1>6 DEF TInv, Built, Complete, Rewind

LEMMA TableAddNode ==
  ASSUME TInv, NEW kinds, kinds \subseteq NodeKinds, At("build", kinds),
         NEW type \in NodeType, NEW code, NEW rule, DOMAIN rule.ports \subseteq 1 .. PORT_MAX,
         NEW d, add_node(type, code, rule, d)
  PROVE  TInv'
<1>1. LInv' /\ NextDecl
  BY InvAddNode DEF TInv
<1>2. pc = "build" /\ pc' = "build" /\ seekable' = seekable
  BY <1>1 DEF At, NextDecl
<1>3. Len(nodes) < nnodes
  BY <1>2 DEF add_node, Abort
<1> DEFINE node == [type |-> type, code |-> code]
<1>4. /\ nodes' = Append(nodes, node) /\ ports' = Append(ports, << >>)
      /\ rules' = Append(rules, rule) /\ nwired' = nwired /\ nwires' = nwires
  BY <1>3 DEF add_node
<1>5. /\ \A k \in 1 .. Len(nodes) : nodes[k].type \in NodeType
      /\ TablesOK(ports, Len(nodes), nwired)
      /\ RulesOK /\ nwired <= nwires
  BY <1>2 DEF TInv, Built
<1>6. node.type = type
  OBVIOUS
<1> HIDE DEF node
<1>7. /\ Len(nodes) \in Nat /\ Len(nodes') = Len(nodes) + 1
      /\ \A k \in 1 .. Len(nodes) : nodes'[k] = nodes[k]
      /\ nodes'[Len(nodes) + 1] = node
  <2>1. IsSeq(nodes)
    BY DEF TInv, LInv, Shape, IsSeq
  <2> QED
    BY <1>4, <2>1, Appended
<1>8. \A k \in 1 .. Len(nodes') : nodes'[k].type \in NodeType
  <2> SUFFICES ASSUME NEW k \in 1 .. Len(nodes') PROVE nodes'[k].type \in NodeType
    OBVIOUS
  <2>1. CASE k = Len(nodes) + 1
    BY <1>6, <1>7, <2>1
  <2>2. CASE k \in 1 .. Len(nodes)
    BY <1>5, <1>7, <2>2
  <2> QED
    BY <1>7, <2>1, <2>2
<1>9. TablesOK(ports, Len(nodes), nwired)'
  <2>1. IsSeq(ports) /\ Len(ports) = Len(nodes)
    BY <1>5 DEF TablesOK
  <2>2. /\ IsSeq(ports') /\ Len(ports') = Len(nodes')
        /\ \A k \in 1 .. Len(nodes) : ports'[k] = ports[k]
        /\ ports'[Len(nodes) + 1] = << >>
    BY <1>4, <1>7, <2>1, Appended
  <2>3. ASSUME NEW k \in 1 .. Len(nodes'), nodes'[k].type = "PROC_NODE",
               NEW p \in DOMAIN ports'[k]
        PROVE  p \in PortIdx /\ ports'[k][p] \in Entries(Len(nodes'), nwired')
    <3>1. k \in 1 .. Len(nodes)
      BY <1>7, <2>2, <2>3
    <3>2. p \in PortIdx /\ ports[k][p] \in Entries(Len(nodes), nwired)
      BY <1>5, <1>7, <2>2, <2>3, <3>1 DEF TablesOK
    <3>3. Entries(Len(nodes), nwired) \subseteq Entries(Len(nodes'), nwired')
      <4>1. 0 .. Len(nodes) - 1 \subseteq 0 .. Len(nodes') - 1
        BY <1>7
      <4> QED
        BY <1>4, <4>1 DEF Entries
    <3> QED
      BY <2>2, <3>1, <3>2, <3>3
  <2> QED
    BY <2>2, <2>3 DEF TablesOK
<1>10. RulesOK'
  <2>1. IsSeq(rules) /\ Len(rules) = Len(nodes)
    BY <1>5 DEF RulesOK
  <2>2. /\ IsSeq(rules') /\ Len(rules') = Len(nodes')
        /\ \A k \in 1 .. Len(nodes) : rules'[k] = rules[k]
        /\ rules'[Len(nodes) + 1] = rule
    BY <1>4, <1>7, <2>1, Appended
  <2>3. ASSUME NEW k \in 1 .. Len(nodes')
        PROVE  DOMAIN rules'[k].ports \subseteq 1 .. PORT_MAX
    <3>1. CASE k = Len(nodes) + 1
      BY <2>2, <3>1
    <3>2. CASE k \in 1 .. Len(nodes)
      BY <1>5, <2>2, <3>2 DEF RulesOK
    <3> QED
      BY <1>7, <3>1, <3>2
  <2> QED
    BY <2>2, <2>3 DEF RulesOK
<1> QED
  BY <1>1, <1>2, <1>4, <1>5, <1>8, <1>9, <1>10 DEF TInv, Built, Complete

-----------------------------------------------------------------------------
LEMMA TableAttach ==
  ASSUME NEW t, NEW w \in Nat, TablesOK(t, Len(nodes), w), Len(nodes) \in Nat,
         NEW n \in 0 .. Len(nodes) - 1, NEW p \in PortIdx, NEW e \in Entries(Len(nodes), w)
  PROVE  TablesOK(Attach(t, n, p, e), Len(nodes), w)
<1>1. CASE ~ IsProc(n)
  BY <1>1 DEF Attach
<1>2. CASE IsProc(n)
  <2> DEFINE new == Put(t[n + 1], p, e)
  <2>1. Attach(t, n, p, e) = Patch(t, n + 1, new)
    BY <1>2 DEF Attach, Patch
  <2>2. /\ DOMAIN new = DOMAIN t[n + 1] \union {p}
        /\ \A q \in DOMAIN new : new[q] = IF q = p THEN e ELSE t[n + 1][q]
    BY DEF Put
  <2>3. n + 1 \in 1 .. Len(t) /\ Len(t) = Len(nodes) /\ IsSeq(t)
    BY DEF TablesOK
  <2> HIDE DEF new
  <2> DEFINE u == Patch(t, n + 1, new)
  <2>4. /\ IsSeq(u) /\ Len(u) = Len(nodes)
        /\ \A k \in 1 .. Len(nodes) : u[k] = IF k = n + 1 THEN new ELSE t[k]
    BY <2>3, Replaced
  <2> HIDE DEF u
  <2>5. ASSUME NEW k \in 1 .. Len(nodes), nodes[k].type = "PROC_NODE", NEW q \in DOMAIN u[k]
        PROVE  q \in PortIdx /\ u[k][q] \in Entries(Len(nodes), w)
    <3>1. \A r \in DOMAIN t[k] : r \in PortIdx /\ t[k][r] \in Entries(Len(nodes), w)
      BY <2>5 DEF TablesOK
    <3>2. CASE k # n + 1
      BY <2>4, <2>5, <3>1, <3>2
    <3>3. CASE k = n + 1
      <4>1. u[k] = new
        BY <2>4, <3>3
      <4>2. CASE q = p
        BY <2>2, <2>5, <4>1, <4>2
      <4>3. CASE q # p
        BY <2>2, <2>5, <3>1, <3>3, <4>1, <4>3
      <4> QED
        BY <4>2, <4>3
    <3> QED
      BY <3>2, <3>3
  <2>6. TablesOK(u, Len(nodes), w)
    BY <2>4, <2>5 DEF TablesOK
  <2> QED
    BY <2>1, <2>6 DEF u
<1> QED
  BY <1>1, <1>2

LEMMA TableAddWire ==
  ASSUME TInv, At("build", {"wire"}),
         NEW n1 \in 0 .. Len(nodes) - 1, NEW p1 \in PortIdx,
         NEW n2 \in 0 .. Len(nodes) - 1, NEW p2 \in PortIdx,
         NEW d, add_wire(n1, p1, n2, p2, d)
  PROVE  TInv'
<1>1. LInv' /\ NextDecl
  BY InvAddWire DEF TInv
<1>2. pc = "build" /\ pc' = "build" /\ seekable' = seekable
  BY <1>1 DEF At, NextDecl
<1>3. nwired < nwires
  BY <1>2 DEF add_wire, Abort
<1> DEFINE e1 == Entry(n1, p1)
           e2 == Entry(n2, p2)
           first  == Attach(ports, n1, p1, e2)
           second == Attach(first, n2, p2, e1)
<1>4. /\ ports' = second /\ nwired' = nwired + 1 /\ nwires' = nwires
      /\ nodes' = nodes /\ rules' = rules
  BY <1>3 DEF add_wire
<1>5. nwired \in Nat /\ Len(nodes) \in Nat
  <2>1. IsSeq(nodes)
    BY DEF TInv, LInv, Shape, IsSeq
  <2> QED
    BY <2>1, SeqDomain DEF TInv, LInv, Shape
<1>6. /\ \A k \in 1 .. Len(nodes) : nodes[k].type \in NodeType
      /\ TablesOK(ports, Len(nodes), nwired)
      /\ RulesOK
  BY <1>2 DEF TInv, Built
<1>7. TablesOK(ports, Len(nodes), nwired + 1)
  <2>1. Entries(Len(nodes), nwired) \subseteq Entries(Len(nodes), nwired + 1)
    <3>1. 0 .. nwired - 1 \subseteq 0 .. (nwired + 1) - 1
      BY <1>5
    <3> QED
      BY <3>1 DEF Entries
  <2> QED
    BY <1>6, <2>1 DEF TablesOK
<1>8. e1 \in Entries(Len(nodes), nwired + 1) /\ e2 \in Entries(Len(nodes), nwired + 1)
  <2>1. nwired \in 0 .. (nwired + 1) - 1
    BY <1>5
  <2> QED
    BY <2>1 DEF Entry, Entries
<1>9. TablesOK(second, Len(nodes), nwired + 1)
  <2> HIDE DEF e1, e2
  <2>1. TablesOK(first, Len(nodes), nwired + 1)
    BY <1>5, <1>7, <1>8, TableAttach
  <2> HIDE DEF first
  <2> QED
    BY <1>5, <1>8, <2>1, TableAttach
<1> HIDE DEF second
<1>10. TablesOK(ports, Len(nodes), nwired)'
  BY <1>4, <1>9 DEF TablesOK
<1>11. RulesOK'
  BY <1>4, <1>6 DEF RulesOK
<1>12. (nwired <= nwires)'
  BY <1>3, <1>4, <1>5 DEF TInv, LInv, Shape
<1> QED
  BY <1>1, <1>2, <1>4, <1>6, <1>10, <1>11, <1>12 DEF TInv, Built, Complete

(* run() starts when nothing is left of the file.                          *)
LEMMA TableRun == TInv /\ Run => TInv'
<1> SUFFICES ASSUME TInv, Run PROVE TInv'
  OBVIOUS
<1>1. /\ pc = "build" /\ pc' = "run" /\ pos > Len(file)
      /\ UNCHANGED <<file, seekable, pos, nnodes, nwires, nodes, ports, nwired, rules, dict>>
  BY DEF Run, vmVars
<1>2. LInv'
  BY InvEnds DEF TInv, Run
<1>3. Built'
  BY <1>1 DEF TInv, Built, TablesOK, RulesOK
<1>4. nnodes = Len(nodes) /\ nwires = nwired /\ pos = Len(file) + 1
  <2>1. pos \in Nat /\ Len(file) \in Nat /\ nwired \in Nat
    BY DEF TInv, LInv, Shape
  <2>2. \A K : Left(K) = 0
    <3>1. \A K : {j \in pos .. Len(file) : file[j].kind \in K} = {}
      BY <1>1, <2>1
    <3> QED
      BY <3>1, FS_EmptySet DEF Left
  <2>3. IsSeq(nodes)
    BY DEF TInv, LInv, Shape, IsSeq
  <2>4. Len(nodes) \in Nat
    BY <2>3, SeqDomain
  <2>5. Left(NodeKinds) = 0 /\ Left({"wire"}) = 0
    BY <2>2
  <2>6. pos = Len(file) + 1
    BY <1>1, <2>1 DEF TInv, LInv, Shape
  <2> QED
    BY <1>1, <2>1, <2>4, <2>5, <2>6 DEF TInv, LInv, CountsAgree
<1>5. seekable' \in BOOLEAN
  BY <1>1 DEF TInv
<1> QED
  BY <1>1, <1>2, <1>3, <1>4, <1>5 DEF TInv, Complete

-----------------------------------------------------------------------------
(* The first pass, and what ends the loading, build nothing.               *)
LEMMA TableKeeps ==
  ASSUME TInv, LInv', UNCHANGED <<vmVars, seekable>>, nwires <= nwires',
         pc' \in {"count", "rejected", "aborted"}
  PROVE  TInv'
<1>1. (nwired <= nwires)'
  BY DEF TInv, Built, LInv, Shape, vmVars
<1>2. Built'
  BY <1>1 DEF TInv, Built, TablesOK, RulesOK, vmVars
<1> QED
  BY <1>2 DEF TInv, Complete

LEMMA TableReject == TInv /\ (Reject \/ Abort) => TInv'
<1> SUFFICES ASSUME TInv, Reject \/ Abort PROVE TInv'
  OBVIOUS
<1>1. LInv' /\ pc' \in {"rejected", "aborted"}
  BY InvReject DEF TInv
<1>2. UNCHANGED <<vmVars, seekable>> /\ nwires <= nwires'
  BY DEF Reject, Abort, TInv, LInv, Shape
<1> QED
  BY <1>1, <1>2, TableKeeps

-----------------------------------------------------------------------------
(* What the tables have to do with the declarations.  The rule of a node   *)
(* has its name, and ports that the dictionary d knows.                    *)
RuleNamed(d, r, name) ==
  /\ r.id \in 0 .. Len(d) - 1 /\ d[r.id + 1] = name
  /\ r.ports \in Seq(0 .. Len(d) - 1)

Named == \A n \in 0 .. Len(nodes) - 1 : RuleNamed(dict, rules[n + 1], NameOf(n))

(* Nobody but the first node is the console.                               *)
IoIsFirst == \A k \in 1 .. Len(nodes) : nodes[k].type = "IO_NODE" => k = 1

(* What the second pass has read it has built.                             *)
Progress ==
  pc \in {"build", "run"} => /\ Len(nodes) = 1 + Passed(NodeKinds)
                             /\ nwired = Passed({"wire"})

(* End s of the wire that declaration j makes is port p of node n.         *)
EndAt(j, s, n, p) == IsEnd(file[j].ends[s], n, p)

(* A wire joins two ports of nodes that were declared before it.           *)
Resolved ==
  pc \in {"build", "run"} =>
    \A j \in 1 .. pos - 1 : file[j].kind = "wire" => \A s \in 1 .. 2 :
      \E m \in 0 .. Len(nodes) - 1, q \in PortIdx : EndAt(j, s, m, q)

(* The declarations that the second pass has read of wires at a port.      *)
Wires(n, p) ==
  {j \in 1 .. pos - 1 : file[j].kind = "wire" /\ \E s \in 1 .. 2 : EndAt(j, s, n, p)}

WiresBefore(j) == Cardinality({k \in 1 .. j - 1 : file[k].kind \in {"wire"}})

(* Entry e of a port is that of its last wire.                             *)
IsLastWire(n, p, e) ==
  \E j \in Wires(n, p) :
    /\ \A k \in Wires(n, p) : k <= j
    /\ e.wire = WiresBefore(j)
    /\ \E s \in 1 .. 2 : EndAt(j, s, n, p) /\ EndAt(j, 3 - s, e.recp, e.recp_port)

WiredAt(n, p) ==
  /\ p \in DOMAIN ports[n + 1] <=> Wires(n, p) # {}
  /\ p \in DOMAIN ports[n + 1] => IsLastWire(n, p, ports[n + 1][p])

Wired ==
  pc \in {"build", "run"} =>
    \A n \in 0 .. Len(nodes) - 1 : nodes[n + 1].type = "PROC_NODE" =>
      \A p \in PortIdx : WiredAt(n, p)

DInv == Dict(dict) /\ Named /\ IoIsFirst /\ Progress /\ Resolved /\ Wired

-----------------------------------------------------------------------------
(* The names in declarations.                                              *)
LEMMA DeclaredProcessor ==
  ASSUME NEW x \in Decl, x.kind = "processor", x.compiles
  PROVE  /\ x.name \in Symbols /\ x.ports \in Seq(Symbols)
         /\ DOMAIN x.ports \subseteq 1 .. PORT_MAX
<1>1. /\ x \notin {Copy(n, m) : n, m \in Names}
      /\ x \notin {Buffer(n) : n \in Names} \union {Stack(n) : n \in Names}
      /\ x \notin {WireDecl(End(n, p), End(m, q)) : n, m \in Names, p, q \in PortNames}
      /\ x # Garbage
  BY DEF Copy, Buffer, Stack, WireDecl, Garbage
<1>2. x \notin {BadProcessor(n) : n \in Names}
  BY DEF BadProcessor
<1> DEFINE Tables == UNION {[1 .. k -> PortNames] : k \in 0 .. PORT_MAX}
<1>3. x \in {Processor(n, u) : n \in Names, u \in Tables}
  BY <1>1, <1>2 DEF Decl
<1>4. \A u \in Tables : u \in Seq(Symbols) /\ DOMAIN u \subseteq 1 .. PORT_MAX
  <2> SUFFICES ASSUME NEW k \in 0 .. PORT_MAX, NEW u \in [1 .. k -> PortNames]
               PROVE  u \in Seq(Symbols) /\ DOMAIN u \subseteq 1 .. PORT_MAX
    OBVIOUS
  <2>1. k \in Nat /\ 1 .. k \subseteq 1 .. PORT_MAX
    BY DEF PORT_MAX
  <2>2. u \in [1 .. k -> Symbols]
    BY DEF Symbols
  <2> QED
    BY <2>1, <2>2, IsASeq
<1> HIDE DEF Tables
<1>5. PICK n \in Names, u \in Tables : x = Processor(n, u)
  BY <1>3
<1> QED
  BY <1>4, <1>5 DEF Processor, Symbols

LEMMA DeclaredCopy ==
  ASSUME NEW x \in Decl, x.kind = "copy"
  PROVE  x.name \in Symbols /\ x.source \in Symbols
<1>1. x \in {Copy(n, m) : n, m \in Names}
  BY DEF Decl, Processor, BadProcessor, Buffer, Stack, WireDecl, Garbage
<1> QED
  BY <1>1 DEF Copy, Symbols

LEMMA DeclaredDevice ==
  ASSUME NEW x \in Decl, x.kind \in {"buffer", "stack"}
  PROVE  x.name \in Symbols
<1>1. x \in {Buffer(n) : n \in Names} \union {Stack(n) : n \in Names}
  BY DEF Decl, Processor, BadProcessor, Copy, WireDecl, Garbage
<1> QED
  BY <1>1 DEF Buffer, Stack, Symbols

LEMMA DeclaredWire ==
  ASSUME NEW x \in Decl, x.kind = "wire"
  PROVE  /\ x.ends[1].node \in Symbols /\ x.ends[1].port \in Symbols
         /\ x.ends[2].node \in Symbols /\ x.ends[2].port \in Symbols
<1>1. x \in {WireDecl(End(n, p), End(m, q)) : n, m \in Names, p, q \in PortNames}
  BY DEF Decl, Processor, BadProcessor, Copy, Buffer, Stack, Garbage
<1>2. PICK n \in Names, m \in Names, p \in PortNames, q \in PortNames :
        x = WireDecl(End(n, p), End(m, q))
  BY <1>1
<1>3. x.ends = <<End(n, p), End(m, q)>>
  BY <1>2 DEF WireDecl
<1> QED
  BY <1>3 DEF End, Symbols

-----------------------------------------------------------------------------
(* Node number n is the n-th that the file declares.                       *)
LEMMA NodeAtPos ==
  ASSUME TInv, pos <= Len(file), file[pos].kind \in NodeKinds
  PROVE  NodeAt(1 + Passed(NodeKinds)) = pos
<1> DEFINE Upto(j) == {k \in 1 .. j : file[k].kind \in NodeKinds}
<1>1. /\ file \in Seq(Decls) /\ DOMAIN file = 1 .. Len(file) /\ Len(file) \in Nat
      /\ pos \in 1 .. Len(file)
  BY LenProperties DEF TInv, LInv, Shape
<1>2. \A j \in Nat : IsFiniteSet(Upto(j)) /\ Cardinality(Upto(j)) \in Nat
  <2> SUFFICES ASSUME NEW j \in Nat
               PROVE  IsFiniteSet(Upto(j)) /\ Cardinality(Upto(j)) \in Nat
    OBVIOUS
  <2>1. IsFiniteSet(1 .. j) /\ Upto(j) \subseteq 1 .. j
    BY FS_Interval
  <2> HIDE DEF Upto
  <2> QED
    BY <2>1, FS_Subset, FS_CardinalityType
<1>3. \A i, j \in Nat : i <= j => Cardinality(Upto(i)) <= Cardinality(Upto(j))
  <2> SUFFICES ASSUME NEW i \in Nat, NEW j \in Nat, i <= j
               PROVE  Cardinality(Upto(i)) <= Cardinality(Upto(j))
    OBVIOUS
  <2>1. Upto(i) \subseteq Upto(j)
    OBVIOUS
  <2> HIDE DEF Upto
  <2> QED
    BY <1>2, <2>1, FS_Subset
<1>4. ASSUME NEW j \in 1 .. Len(file), file[j].kind \in NodeKinds
      PROVE  Cardinality(Upto(j)) = Cardinality(Upto(j - 1)) + 1
  <2>1. j \in Nat \ {0}
    BY <1>1
  <2>2. Cardinality(Upto(j)) = Cardinality(Upto(j - 1))
          + (IF file[j].kind \in NodeKinds THEN 1 ELSE 0)
    BY <2>1, WithLast
  <2> QED
    BY <1>4, <2>2
<1>5. Passed(NodeKinds) = Cardinality(Upto(pos - 1))
  BY DEF Passed
<1> DEFINE Is(j) == /\ file[j].kind \in NodeKinds
                    /\ Cardinality(Upto(j)) = 1 + Passed(NodeKinds)
<1>6. Is(pos)
  <2>1. pos - 1 \in Nat
    BY <1>1
  <2> HIDE DEF Upto
  <2>2. Cardinality(Upto(pos)) = Cardinality(Upto(pos - 1)) + 1
    BY <1>1, <1>4
  <2> QED
    BY <1>2, <1>5, <2>1, <2>2
<1>7. ASSUME NEW j \in 1 .. Len(file), Is(j) PROVE j = pos
  <2> HIDE DEF Upto
  <2>1. CASE j < pos
    <3>1. Cardinality(Upto(j)) <= Cardinality(Upto(pos - 1)) /\ pos - 1 \in Nat
      BY <1>1, <1>3, <2>1
    <3> QED
      BY <1>2, <1>5, <1>7, <3>1
  <2>2. CASE pos < j
    <3>1. Cardinality(Upto(pos)) <= Cardinality(Upto(j - 1)) /\ j - 1 \in Nat
      BY <1>1, <1>3, <2>2
    <3>2. Cardinality(Upto(j)) = Cardinality(Upto(j - 1)) + 1
      BY <1>4, <1>7
    <3> QED
      BY <1>2, <1>6, <1>7, <3>1, <3>2
  <2> QED
    BY <1>1, <2>1, <2>2
<1>8. NodeAt(1 + Passed(NodeKinds)) = CHOOSE j \in DOMAIN file : Is(j)
  BY DEF NodeAt
<1> HIDE DEF Is
<1> QED
  BY <1>1, <1>6, <1>7, <1>8

(* What is counted of the file when a declaration has been passed.         *)
LEMMA PassedNext ==
  ASSUME LInv, NextDecl, NEW K, pos <= Len(file)
  PROVE  /\ Passed(K) \in Nat
         /\ file[pos].kind \in K => Passed(K)' = Passed(K) + 1
         /\ file[pos].kind \notin K => Passed(K)' = Passed(K)
<1>1. pos \in Nat \ {0} /\ pos' - 1 = pos /\ file' = file
  BY DEF LInv, Shape, NextDecl
<1>2. Passed(K) \in Nat
  BY PassedType DEF LInv
<1>5. Passed(K)' = Passed(K) + (IF file[pos].kind \in K THEN 1 ELSE 0)
  <2>1. Passed(K)' = Cardinality({j \in 1 .. pos : file[j].kind \in K})
    BY <1>1 DEF Passed
  <2>2. Cardinality({j \in 1 .. pos : file[j].kind \in K})
          = Cardinality({j \in 1 .. pos - 1 : file[j].kind \in K})
              + (IF file[pos].kind \in K THEN 1 ELSE 0)
    BY <1>1, WithLast, ZenonT(30)
  <2> QED
    BY <2>1, <2>2 DEF Passed
<1>3. CASE file[pos].kind \in K
  BY <1>2, <1>3, <1>5
<1>4. CASE file[pos].kind \notin K
  BY <1>2, <1>4, <1>5
<1> QED
  BY <1>2, <1>3, <1>4

-----------------------------------------------------------------------------
(* What the dictionary finds.                                              *)
LEMMA BuiltFacts ==
  ASSUME TInv
  PROVE  /\ Len(nodes) \in Nat /\ nwired \in Nat
         /\ IsSeq(nodes) /\ IsSeq(rules) /\ Len(rules) = Len(nodes)
         /\ DOMAIN rules = 1 .. Len(nodes) /\ RulesOK
<1>1. IsSeq(nodes) /\ nwired \in Nat
  BY DEF TInv, LInv, Shape, IsSeq
<1>2. IsSeq(rules) /\ Len(rules) = Len(nodes) /\ RulesOK
  BY DEF TInv, Built, RulesOK
<1> QED
  BY <1>1, <1>2, SeqDomain

(* A rule remains right when the dictionary grows.                         *)
LEMMA RuleKept ==
  ASSUME NEW d, NEW e, Dict(d), Dict(e), Grows(d, e), NEW r, NEW s, RuleNamed(d, r, s)
  PROVE  RuleNamed(e, r, s)
<1>1. Len(d) \in Nat /\ Len(e) \in Nat /\ Len(d) <= Len(e)
  BY LenProperties DEF Dict, Grows
<1>2. 0 .. Len(d) - 1 \subseteq 0 .. Len(e) - 1
  BY <1>1
<1>3. r.ports \in Seq(0 .. Len(e) - 1)
  BY <1>2, SeqMonotonic DEF RuleNamed
<1>4. e[r.id + 1] = d[r.id + 1] /\ r.id \in 0 .. Len(e) - 1
  BY <1>1, <1>2 DEF RuleNamed, Grows
<1> QED
  BY <1>3, <1>4 DEF RuleNamed

(* find_rule() and find_port() find what the declarations mean.            *)
LEMMA FindsEnd ==
  ASSUME TInv, Named, NEW d, Dict(dict), Dict(d), Grows(dict, d),
         NEW e, Contains(d, e.node), Contains(d, e.port),
         RulesOf(sym_id(d, e.node)) # {},
         PortsOf(find_rule(sym_id(d, e.node)), sym_id(d, e.port)) # {}
  PROVE  LET n == find_rule(sym_id(d, e.node))
             p == find_port(n, sym_id(d, e.port))
         IN  n \in 0 .. Len(nodes) - 1 /\ p \in PortIdx /\ IsEnd(e, n, p)
<1> DEFINE id  == sym_id(d, e.node)
           pid == sym_id(d, e.port)
           n   == find_rule(id)
           p   == find_port(n, pid)
<1>1. /\ Len(nodes) \in Nat /\ DOMAIN rules = 1 .. Len(nodes) /\ RulesOK
      /\ Len(dict) \in Nat /\ Len(d) \in Nat /\ Len(dict) <= Len(d)
      /\ \A i \in 0 .. Len(dict) - 1 : d[i + 1] = dict[i + 1]
  BY BuiltFacts, LenProperties DEF Dict, Grows
<1>2. /\ id \in 0 .. Len(d) - 1 /\ \A i \in 0 .. Len(d) - 1 : d[i + 1] = e.node <=> i = id
      /\ pid \in 0 .. Len(d) - 1 /\ \A i \in 0 .. Len(d) - 1 : d[i + 1] = e.port <=> i = pid
  BY SymId
<1> HIDE DEF id, pid
<1>3. /\ RulesOf(id) \subseteq 1 .. Len(nodes) /\ RulesOf(id) # {}
      /\ n + 1 \in RulesOf(id) /\ \A k \in RulesOf(id) : n + 1 <= k
      /\ n \in 0 .. Len(nodes) - 1
  <2>1. RulesOf(id) \subseteq 1 .. Len(nodes) /\ RulesOf(id) # {}
    BY <1>1 DEF RulesOf, id
  <2>2. First(RulesOf(id)) \in RulesOf(id) /\ \A k \in RulesOf(id) : First(RulesOf(id)) <= k
    BY <1>1, <2>1, LeastOf
  <2>3. n = First(RulesOf(id)) - 1
    BY DEF find_rule
  <2> QED
    BY <1>1, <2>1, <2>2, <2>3
<1> HIDE DEF n
<1>4. rules[n + 1].id = id
  BY <1>3 DEF RulesOf
<1>5. \A m \in 0 .. Len(nodes) - 1 :
        /\ rules[m + 1].id \in 0 .. Len(dict) - 1
        /\ d[rules[m + 1].id + 1] = NameOf(m)
  BY <1>1 DEF Named, RuleNamed
<1>6. e.node = NameOf(n)
  <2>1. d[id + 1] = NameOf(n)
    BY <1>3, <1>4, <1>5
  <2> QED
    BY <1>2, <2>1
<1>7. \A m \in 0 .. n - 1 : e.node # NameOf(m)
  <2> SUFFICES ASSUME NEW m \in 0 .. n - 1, e.node = NameOf(m) PROVE FALSE
    OBVIOUS
  <2>1. m \in 0 .. Len(nodes) - 1
    BY <1>1, <1>3
  <2>2. rules[m + 1].id = id
    <3>1. rules[m + 1].id \in 0 .. Len(d) - 1
      BY <1>1, <1>5, <2>1
    <3>2. d[rules[m + 1].id + 1] = e.node
      BY <1>5, <2>1
    <3> QED
      BY <1>2, <3>1, <3>2
  <2>3. m + 1 \in RulesOf(id)
    BY <1>1, <2>1, <2>2 DEF RulesOf
  <2> QED
    BY <1>3, <2>1, <2>3
<1> DEFINE ids == rules[n + 1].ports
<1>8. /\ ids \in Seq(0 .. Len(dict) - 1) /\ DOMAIN ids = 1 .. Len(ids) /\ Len(ids) \in Nat
      /\ \A k \in 1 .. Len(ids) : ids[k] \in 0 .. Len(dict) - 1
  <2>1. ids \in Seq(0 .. Len(dict) - 1)
    BY <1>3 DEF Named, RuleNamed
  <2> QED
    BY <2>1, LenProperties, ElementOfSeq
<1>9. PortsOf(n, pid) = {k \in DOMAIN ids : ids[k] = pid}
  BY DEF PortsOf
<1>10. PortsOf(n, pid) # {}
  BY DEF n, id, pid
<1> HIDE DEF ids
<1>11. p + 1 \in PortsOf(n, pid) /\ \A k \in PortsOf(n, pid) : p + 1 <= k
  <2>1. PortsOf(n, pid) \subseteq Nat
    BY <1>8, <1>9
  <2>2. /\ First(PortsOf(n, pid)) \in PortsOf(n, pid)
        /\ \A k \in PortsOf(n, pid) : First(PortsOf(n, pid)) <= k
    BY <1>10, <2>1, LeastOf
  <2>3. p = First(PortsOf(n, pid)) - 1
    BY DEF find_port
  <2> QED
    BY <2>1, <2>2, <2>3
<1>12. p \in PortIdx
  BY <1>1, <1>3, <1>10, FoundPort
<1> HIDE DEF p
<1>13. p + 1 \in 1 .. Len(ids) /\ ids[p + 1] = pid
  BY <1>8, <1>9, <1>11
<1>14. \A q \in 0 .. Len(ids) - 1 : PortNameOf(n, q) = d[ids[q + 1] + 1]
  <2> SUFFICES ASSUME NEW q \in 0 .. Len(ids) - 1
               PROVE  PortNameOf(n, q) = d[ids[q + 1] + 1]
    OBVIOUS
  <2>1. PortNameOf(n, q) = dict[ids[q + 1] + 1]
    BY DEF PortNameOf, id_sym, ids
  <2>2. ids[q + 1] \in 0 .. Len(dict) - 1
    BY <1>8
  <2> QED
    BY <1>1, <2>1, <2>2
<1>15. p < Len(ids) /\ e.port = PortNameOf(n, p)
  <2>1. p \in 0 .. Len(ids) - 1
    BY <1>8, <1>12, <1>13 DEF PortIdx, PORT_MAX
  <2> QED
    BY <1>2, <1>8, <1>13, <1>14, <2>1
<1>16. \A q \in 0 .. p - 1 : e.port # PortNameOf(n, q)
  <2> SUFFICES ASSUME NEW q \in 0 .. p - 1, e.port = PortNameOf(n, q) PROVE FALSE
    OBVIOUS
  <2>1. q \in 0 .. Len(ids) - 1 /\ p \in Int
    BY <1>8, <1>12, <1>13 DEF PortIdx, PORT_MAX
  <2>2. ids[q + 1] \in 0 .. Len(d) - 1 /\ d[ids[q + 1] + 1] = e.port
    BY <1>1, <1>8, <1>14, <2>1
  <2>3. q + 1 \in PortsOf(n, pid)
    BY <1>2, <1>8, <1>9, <2>1, <2>2
  <2> QED
    BY <1>11, <2>1, <2>3
<1>17. IsEnd(e, n, p)
  BY <1>6, <1>7, <1>15, <1>16 DEF IsEnd, ids
<1> QED
  BY <1>3, <1>12, <1>17 DEF p, n, id, pid

(* After scan_wire() has looked up the ends of a wire, the dictionary has  *)
(* the names of their nodes, and of their ports where it found the node.   *)
LEMMA LooksUp ==
  ASSUME Dict(dict), NEW x \in Decl, x.kind = "wire"
  PROVE  LET d == Looked(x.ends)
         IN  /\ Dict(d) /\ Grows(dict, d)
             /\ \A s \in 1 .. 2 :
                  /\ Contains(d, x.ends[s].node)
                  /\ RulesOf(sym_id(d, x.ends[s].node)) # {} => Contains(d, x.ends[s].port)
<1> DEFINE e1 == x.ends[1]
           e2 == x.ends[2]
           names == <<e1.node, e2.node>>
           c == Interned(dict, names)
           b == LookedAt(c, e1)
           d == LookedAt(b, e2)
<1>1. /\ e1.node \in Symbols /\ e1.port \in Symbols
      /\ e2.node \in Symbols /\ e2.port \in Symbols
  BY DeclaredWire
<1> HIDE DEF e1, e2
<1>2. Dict(c) /\ Grows(dict, c) /\ Contains(c, e1.node) /\ Contains(c, e2.node)
  <2>1. names \in Seq(Symbols) /\ Len(names) = 2 /\ names[1] = e1.node /\ names[2] = e2.node
    BY <1>1
  <2> HIDE DEF names
  <2>2. Dict(c) /\ Grows(dict, c) /\ \A k \in 1 .. Len(names) : Contains(c, names[k])
    BY <2>1, Interns
  <2> HIDE DEF c
  <2>3. Contains(c, names[1]) /\ Contains(c, names[2])
    BY <2>1, <2>2
  <2> QED
    BY <2>1, <2>2, <2>3
<1> HIDE DEF c
<1>3. ASSUME NEW f, Dict(f), NEW e, e.port \in Symbols
      PROVE  /\ Dict(LookedAt(f, e)) /\ Grows(f, LookedAt(f, e))
             /\ RulesOf(sym_id(f, e.node)) # {} => Contains(LookedAt(f, e), e.port)
  <2> DEFINE one == <<e.port>>
  <2>1. one \in Seq(Symbols) /\ Len(one) = 1 /\ one[1] = e.port
    BY <1>3
  <2> HIDE DEF one
  <2>2. /\ Dict(Interned(f, one)) /\ Grows(f, Interned(f, one))
        /\ Contains(Interned(f, one), e.port)
    <3>1. /\ Dict(Interned(f, one)) /\ Grows(f, Interned(f, one))
          /\ \A k \in 1 .. Len(one) : Contains(Interned(f, one), one[k])
      BY <1>3, <2>1, Interns
    <3>2. Contains(Interned(f, one), one[1])
      BY <2>1, <3>1
    <3> QED
      BY <2>1, <3>1, <3>2
  <2>3. LookedAt(f, e) = IF RulesOf(sym_id(f, e.node)) # {} THEN Interned(f, one) ELSE f
    BY DEF LookedAt, one
  <2>4. Grows(f, f)
    BY <1>3, LenProperties DEF Grows, Dict
  <2> QED
    BY <1>3, <2>2, <2>3, <2>4
<1>4. /\ Dict(b) /\ Grows(c, b)
      /\ RulesOf(sym_id(c, e1.node)) # {} => Contains(b, e1.port)
  BY <1>1, <1>2, <1>3
<1> HIDE DEF b
<1>5. /\ Dict(d) /\ Grows(b, d)
      /\ RulesOf(sym_id(b, e2.node)) # {} => Contains(d, e2.port)
  BY <1>1, <1>3, <1>4
<1>6. d = Looked(x.ends)
  BY DEF Looked, d, b, c, names, e1, e2
<1> HIDE DEF d
<1>7. Grows(c, d) /\ Grows(dict, d) /\ Grows(dict, b)
  BY <1>2, <1>4, <1>5, GrowsOn
<1>8. Contains(b, e2.node) /\ Contains(d, e1.node) /\ Contains(d, e2.node)
  BY <1>2, <1>4, <1>5, <1>7, StillKnown
<1>9. ASSUME NEW f, Dict(f), Grows(f, d), NEW s, Contains(f, s)
      PROVE  sym_id(f, s) = sym_id(d, s)
  <2>1. /\ sym_id(f, s) \in 0 .. Len(f) - 1 /\ f[sym_id(f, s) + 1] = s
        /\ \A i \in 0 .. Len(d) - 1 : d[i + 1] = s => i = sym_id(d, s)
    <3>1. Contains(d, s)
      BY <1>5, <1>9, StillKnown
    <3> QED
      BY <1>5, <1>9, <3>1, SymId
  <2>2. Len(f) \in Nat /\ Len(d) \in Nat /\ Len(f) <= Len(d)
    BY <1>5, <1>9, LenProperties DEF Dict, Grows
  <2>3. d[sym_id(f, s) + 1] = s /\ sym_id(f, s) \in 0 .. Len(d) - 1
    BY <1>9, <2>1, <2>2 DEF Grows
  <2> QED
    BY <2>1, <2>3
<1>10. sym_id(c, e1.node) = sym_id(d, e1.node) /\ sym_id(b, e2.node) = sym_id(d, e2.node)
  BY <1>2, <1>4, <1>5, <1>7, <1>8, <1>9
<1>11. /\ RulesOf(sym_id(d, e1.node)) # {} => Contains(d, e1.port)
       /\ RulesOf(sym_id(d, e2.node)) # {} => Contains(d, e2.port)
  BY <1>4, <1>5, <1>10, StillKnown
<1>12. \A s \in 1 .. 2 : x.ends[s] = e1 \/ x.ends[s] = e2
  BY DEF e1, e2
<1> QED
  BY <1>5, <1>6, <1>7, <1>8, <1>11, <1>12

-----------------------------------------------------------------------------
(* What the second pass does at a declaration: it adds a node or a wire,   *)
(* refuses the file, or ends the process at a copy of the console.         *)
AddsNode(type, code, rule, d) ==
  /\ At("build", NodeKinds)
  /\ type \in NodeType \ {"IO_NODE"}
  /\ Dict(d) /\ Grows(dict, d)
  /\ RuleNamed(d, rule, file[pos].name) /\ DOMAIN rule.ports \subseteq 1 .. PORT_MAX
  /\ add_node(type, code, rule, d)

AddsWire(n1, p1, n2, p2, d) ==
  /\ At("build", {"wire"})
  /\ n1 \in 0 .. Len(nodes) - 1 /\ p1 \in PortIdx
  /\ n2 \in 0 .. Len(nodes) - 1 /\ p2 \in PortIdx
  /\ Dict(d) /\ Grows(dict, d)
  /\ EndAt(pos, 1, n1, p1) /\ EndAt(pos, 2, n2, p2)
  /\ add_wire(n1, p1, n2, p2, d)

CopiesIo == Abort /\ file[pos].kind = "copy" /\ file[pos].source = "io"

Adds ==
  \/ \E type, code, rule, d : AddsNode(type, code, rule, d)
  \/ \E n1, p1, n2, p2, d : AddsWire(n1, p1, n2, p2, d)

LEMMA DeclAt ==
  ASSUME TInv, NEW kinds, At("build", kinds)
  PROVE  file[pos] \in Decl /\ file[pos].kind \in kinds
BY LoaderAssumption DEF TInv, LInv, Shape, At

(* A rule for a name and ports that the dictionary has just learnt.        *)
LEMMA NewNodeAdds ==
  ASSUME TInv, DInv, NEW kind \in NodeKinds, At("build", {kind}),
         NEW type \in NodeType \ {"IO_NODE"}, NEW code, NEW is_proc,
         NEW names \in Seq(Symbols), DOMAIN names \subseteq 1 .. PORT_MAX,
         file[pos].name \in Symbols,
         NewNode(type, code, file[pos].name, names, is_proc)
  PROVE  Adds
<1> DEFINE name == file[pos].name
           all  == Append(names, name)
           d    == Interned(dict, all)
           rule == RuleIn(d, name, names, is_proc)
<1>1. /\ all \in Seq(Symbols) /\ Len(all) = Len(names) + 1 /\ Len(names) \in Nat
      /\ \A k \in 1 .. Len(names) : all[k] = names[k]
      /\ all[Len(names) + 1] = name
      /\ DOMAIN names = 1 .. Len(names)
  BY AppendProperties, LenProperties
<1> HIDE DEF all
<1>2. Dict(d) /\ Grows(dict, d) /\ \A k \in 1 .. Len(all) : Contains(d, all[k])
  BY <1>1, Interns DEF DInv
<1>3. /\ Contains(d, name)
      /\ \A k \in 1 .. Len(names) : Contains(d, names[k])
  <2> HIDE DEF d, name
  <2> QED
    BY <1>1, <1>2
<1>4. add_node(type, code, rule, d)
  BY DEF NewNode, all
<1> HIDE DEF d, name
<1>5. rule.id = sym_id(d, name) /\ rule.ports = [k \in DOMAIN names |-> sym_id(d, names[k])]
  BY DEF RuleIn, Rule, Ids
<1> HIDE DEF rule
<1>6. rule.ports \in Seq(0 .. Len(d) - 1) /\ DOMAIN rule.ports \subseteq 1 .. PORT_MAX
  <2>1. \A k \in 1 .. Len(names) : sym_id(d, names[k]) \in 0 .. Len(d) - 1
    BY <1>2, <1>3, SymId
  <2>2. rule.ports \in [1 .. Len(names) -> 0 .. Len(d) - 1]
    BY <1>1, <1>5, <2>1
  <2> QED
    BY <1>1, <1>5, <2>2, IsASeq
<1>7. rule.id \in 0 .. Len(d) - 1 /\ d[rule.id + 1] = name
  BY <1>2, <1>3, <1>5, SymId
<1>8. RuleNamed(d, rule, file[pos].name)
  BY <1>6, <1>7 DEF RuleNamed, name
<1>9. At("build", NodeKinds)
  BY DEF At
<1>10. AddsNode(type, code, rule, d)
  BY <1>2, <1>4, <1>6, <1>8, <1>9 DEF AddsNode
<1> QED
  BY <1>10 DEF Adds

LEMMA CopyAdds ==
  ASSUME TInv, DInv, ScanCopy
  PROVE  Reject \/ CopiesIo \/ Adds
<1>1. At("build", {"copy"}) /\ file[pos].kind = "copy"
  BY DEF ScanCopy, At
<1>2. file[pos].name \in Symbols /\ file[pos].source \in Symbols
  BY <1>1, DeclAt, DeclaredCopy
<1> DEFINE name == file[pos].name
           from == file[pos].source
           d    == Interned(dict, <<from>>)
           source == sym_id(d, from)
           with == Interned(d, <<name>>)
           n    == find_rule(source)
           its  == rules[n + 1]
           rule == Rule(sym_id(with, name), its.ports, its.is_proc)
<1>3. \/ Reject
      \/ RulesOf(source) # {} /\ CopyOf(nodes[n + 1], rule, with)
  BY DEF ScanCopy
<1>4. ASSUME NEW f, Dict(f), NEW s \in Symbols
      PROVE  LET e == Interned(f, <<s>>) IN Dict(e) /\ Grows(f, e) /\ Contains(e, s)
  <2> DEFINE one == <<s>>
  <2>1. one \in Seq(Symbols) /\ Len(one) = 1 /\ one[1] = s
    OBVIOUS
  <2> HIDE DEF one
  <2>2. /\ Dict(Interned(f, one)) /\ Grows(f, Interned(f, one))
        /\ \A k \in 1 .. Len(one) : Contains(Interned(f, one), one[k])
    BY <1>4, <2>1, Interns
  <2>3. Contains(Interned(f, one), one[1])
    BY <2>1, <2>2
  <2> QED
    BY <2>1, <2>2, <2>3 DEF one
<1> HIDE DEF name, from
<1>5. Dict(d) /\ Grows(dict, d) /\ Contains(d, from)
  BY <1>2, <1>4 DEF DInv, from
<1> HIDE DEF d
<1>6. Dict(with) /\ Grows(d, with) /\ Contains(with, name)
  BY <1>2, <1>4, <1>5 DEF name
<1> HIDE DEF with
<1>7. Grows(dict, with) /\ Dict(dict)
  BY <1>5, <1>6, GrowsOn DEF DInv
<1>8. ASSUME RulesOf(source) # {}
      PROVE  n \in 0 .. Len(nodes) - 1 /\ its.id = source /\ n + 1 \in 1 .. Len(nodes)
  <2>1. Len(nodes) \in Nat /\ DOMAIN rules = 1 .. Len(nodes) /\ RulesOK
    BY BuiltFacts
  <2>2. n \in 0 .. Len(nodes) - 1
    BY <1>8, <2>1, Found
  <2>3. First(RulesOf(source)) \in RulesOf(source)
    <3>1. RulesOf(source) \subseteq Nat
      BY <2>1 DEF RulesOf
    <3> QED
      BY <1>8, <3>1, LeastOf
  <2>4. First(RulesOf(source)) = n + 1
    BY <2>1, <2>3 DEF find_rule, RulesOf
  <2> QED
    BY <2>1, <2>2, <2>3, <2>4 DEF RulesOf
<1> HIDE DEF n
<1>9. ASSUME NEW code, RulesOf(source) # {}, add_node("PROC_NODE", code, rule, with)
      PROVE  Adds
  <2>1. rule.id = sym_id(with, name) /\ rule.ports = its.ports
    BY DEF Rule
  <2> HIDE DEF rule
  <2>2. rule.id \in 0 .. Len(with) - 1 /\ with[rule.id + 1] = name
    BY <1>6, <2>1, SymId
  <2>3. rule.ports \in Seq(0 .. Len(with) - 1)
    <3>1. RuleNamed(dict, its, NameOf(n))
      BY <1>8, <1>9 DEF DInv, Named
    <3>2. RuleNamed(with, its, NameOf(n))
      BY <1>6, <1>7, <3>1, RuleKept
    <3> QED
      BY <2>1, <3>2 DEF RuleNamed
  <2>4. DOMAIN rule.ports \subseteq 1 .. PORT_MAX
    BY <1>8, <1>9, <2>1, BuiltFacts DEF RulesOK
  <2>5. "PROC_NODE" \in NodeType \ {"IO_NODE"} /\ At("build", NodeKinds)
    BY <1>1 DEF NodeType, At, NodeKinds
  <2>6. AddsNode("PROC_NODE", code, rule, with)
    BY <1>6, <1>7, <1>9, <2>2, <2>3, <2>4, <2>5 DEF AddsNode, RuleNamed, name
  <2> QED
    BY <2>6 DEF Adds
<1>10. ASSUME RulesOf(source) # {}, nodes[n + 1].type = "IO_NODE", Abort
       PROVE  CopiesIo
  <2>1. n = 0 /\ rules[1].id = source
    BY <1>8, <1>10 DEF DInv, IoIsFirst
  <2>2. rules[1].id \in 0 .. Len(dict) - 1 /\ dict[rules[1].id + 1] = "io"
    <3>1. RuleNamed(dict, rules[0 + 1], NameOf(0))
      BY <1>8, <1>10, <2>1 DEF DInv, Named
    <3> QED
      BY <3>1 DEF RuleNamed, NameOf
  <2>3. Len(dict) \in Nat
    BY <1>7, LenProperties DEF Dict
  <2>4. d[source + 1] = "io"
    BY <1>5, <2>1, <2>2, <2>3 DEF Grows
  <2>5. d[source + 1] = from
    BY <1>5, SymId
  <2> QED
    BY <1>1, <1>10, <2>4, <2>5 DEF CopiesIo, from
<1> HIDE DEF source, rule
<1>11. ASSUME RulesOf(source) # {}, CopyOf(nodes[n + 1], rule, with)
       PROVE  CopiesIo \/ Adds
  BY <1>9, <1>10, <1>11 DEF CopyOf
<1> QED
  BY <1>3, <1>11

LEMMA WireAdds ==
  ASSUME TInv, DInv, ScanWire
  PROVE  Reject \/ Adds
<1>1. At("build", {"wire"}) /\ file[pos].kind = "wire"
  BY DEF ScanWire, At
<1> DEFINE d == Looked(file[pos].ends)
           Node(e) == find_rule(sym_id(d, e.node))
           Port(e) == sym_id(d, e.port)
           Exists(e) == RulesOf(sym_id(d, e.node)) # {} /\ PortsOf(Node(e), Port(e)) # {}
           e1 == file[pos].ends[1]
           e2 == file[pos].ends[2]
<1>2. \/ Reject
      \/ /\ Exists(e1) /\ Exists(e2)
         /\ add_wire(Node(e1), find_port(Node(e1), Port(e1)),
                     Node(e2), find_port(Node(e2), Port(e2)), d)
  BY DEF ScanWire
<1>3. file[pos] \in Decl
  BY <1>1, DeclAt
<1>4. /\ Dict(d) /\ Grows(dict, d)
      /\ Contains(d, e1.node) /\ Contains(d, e2.node)
      /\ Exists(e1) => Contains(d, e1.port)
      /\ Exists(e2) => Contains(d, e2.port)
  <2>1. \A s \in 1 .. 2 :
          /\ Contains(d, file[pos].ends[s].node)
          /\ RulesOf(sym_id(d, file[pos].ends[s].node)) # {}
               => Contains(d, file[pos].ends[s].port)
    BY <1>1, <1>3, LooksUp DEF DInv
  <2>2. Dict(d) /\ Grows(dict, d)
    BY <1>1, <1>3, LooksUp DEF DInv
  <2> HIDE DEF d
  <2> QED
    BY <2>1, <2>2
<1> HIDE DEF d, e1, e2
<1>5. ASSUME NEW e, Exists(e), Contains(d, e.node), Contains(d, e.port)
      PROVE  /\ Node(e) \in 0 .. Len(nodes) - 1
             /\ find_port(Node(e), Port(e)) \in PortIdx
             /\ IsEnd(e, Node(e), find_port(Node(e), Port(e)))
  BY <1>4, <1>5, FindsEnd DEF DInv
<1> HIDE DEF Node, Port, Exists
<1>6. ASSUME Exists(e1), Exists(e2),
             add_wire(Node(e1), find_port(Node(e1), Port(e1)),
                      Node(e2), find_port(Node(e2), Port(e2)), d)
      PROVE  Adds
  <2>1. AddsWire(Node(e1), find_port(Node(e1), Port(e1)),
                 Node(e2), find_port(Node(e2), Port(e2)), d)
    BY <1>1, <1>4, <1>5, <1>6 DEF AddsWire, EndAt, e1, e2
  <2> QED
    BY <2>1 DEF Adds
<1> QED
  BY <1>2, <1>6

LEMMA Builds ==
  ASSUME TInv, DInv, ScanProcessor \/ ScanCopy \/ ScanBuffer \/ ScanStack \/ ScanWire
  PROVE  Reject \/ CopiesIo \/ Adds
<1>1. CASE ScanProcessor
  <2>1. At("build", {"processor"}) /\ "processor" \in NodeKinds
        /\ "PROC_NODE" \in NodeType \ {"IO_NODE"}
    BY <1>1 DEF ScanProcessor, NodeKinds, NodeType
  <2>2. file[pos] \in Decl /\ file[pos].kind = "processor"
    BY <2>1, DeclAt
  <2>3. ASSUME file[pos].compiles, NEW is_proc,
               NewNode("PROC_NODE", file[pos].name, file[pos].name, file[pos].ports, is_proc)
        PROVE  Adds
    <3>1. /\ file[pos].name \in Symbols /\ file[pos].ports \in Seq(Symbols)
          /\ DOMAIN file[pos].ports \subseteq 1 .. PORT_MAX
      BY <2>2, <2>3, DeclaredProcessor
    <3> QED
      BY <2>1, <2>3, <3>1, NewNodeAdds
  <2> QED
    BY <1>1, <2>3 DEF ScanProcessor
<1>2. ASSUME NEW kind \in {"buffer", "stack"}, At("build", {kind}),
             NEW type \in {"BUFFER_NODE", "STACK_NODE"},
             NEW names \in {BufferPorts, StackPorts}, NEW is_proc,
             NewNode(type, "none", file[pos].name, names, is_proc)
      PROVE  Adds
  <2>1. /\ kind \in NodeKinds /\ type \in NodeType \ {"IO_NODE"}
    BY DEF NodeKinds, NodeType
  <2>2. names \in Seq(Symbols) /\ DOMAIN names \subseteq 1 .. PORT_MAX
    <3>1. {"elm", "idx"} \subseteq Symbols
      BY DEF Symbols
    <3>2. BufferPorts \in Seq(Symbols) /\ DOMAIN BufferPorts = 1 .. 2
      BY <3>1 DEF BufferPorts
    <3>3. StackPorts \in Seq(Symbols) /\ DOMAIN StackPorts = 1 .. 1
      BY <3>1 DEF StackPorts
    <3> QED
      BY <3>2, <3>3 DEF PORT_MAX
  <2>3. file[pos].name \in Symbols
    BY <1>2, DeclAt, DeclaredDevice
  <2> QED
    BY <1>2, <2>1, <2>2, <2>3, NewNodeAdds
<1>3. CASE ScanBuffer
  <2>1. /\ At("build", {"buffer"})
        /\ \E is_proc : NewNode("BUFFER_NODE", "none", file[pos].name, BufferPorts, is_proc)
    BY <1>3, Zenon DEF ScanBuffer
  <2> QED
    BY <1>2, <2>1
<1>4. CASE ScanStack
  <2>1. /\ At("build", {"stack"})
        /\ \E is_proc : NewNode("STACK_NODE", "none", file[pos].name, StackPorts, is_proc)
    BY <1>4, Zenon DEF ScanStack
  <2> QED
    BY <1>2, <2>1
<1> QED
  BY <1>1, <1>3, <1>4, CopyAdds, WireAdds

-----------------------------------------------------------------------------
(* The ends of a wire stay what they are when nodes and names are added.   *)
LEMMA EndsStay ==
  ASSUME TInv, Named, Dict(dict), Dict(dict'), Grows(dict, dict'), file' = file,
         \A k \in 1 .. Len(nodes) : rules'[k] = rules[k],
         NEW n \in 0 .. Len(nodes) - 1, NEW p \in PortIdx, NEW j, NEW s
  PROVE  EndAt(j, s, n, p)' <=> EndAt(j, s, n, p)
<1>1. \A m : NameOf(m)' = NameOf(m)
  BY DEF NameOf, NodeAt
<1>2. rules'[n + 1] = rules[n + 1]
  BY BuiltFacts
<1> DEFINE ids == rules[n + 1].ports
<1>3. ids \in Seq(0 .. Len(dict) - 1)
  BY DEF Named, RuleNamed
<1> HIDE DEF ids
<1>4. Len(ids) \in Nat /\ \A k \in 1 .. Len(ids) : ids[k] \in 0 .. Len(dict) - 1
  BY <1>3, LenProperties, ElementOfSeq
<1>5. ASSUME NEW q \in 0 .. Len(ids) - 1 PROVE PortNameOf(n, q)' = PortNameOf(n, q)
  <2>1. PortNameOf(n, q) = dict[ids[q + 1] + 1] /\ PortNameOf(n, q)' = dict'[ids[q + 1] + 1]
    BY <1>2 DEF PortNameOf, id_sym, ids
  <2>2. ids[q + 1] \in 0 .. Len(dict) - 1 /\ Len(dict) \in Nat
    BY <1>4, LenProperties DEF Dict
  <2> QED
    BY <2>1, <2>2, SMTT(30) DEF Grows
<1>6. p < Len(ids) => p \in 0 .. Len(ids) - 1 /\ 0 .. p - 1 \subseteq 0 .. Len(ids) - 1
  BY <1>4 DEF PortIdx, PORT_MAX
<1>7. Len(rules[n + 1].ports) = Len(ids) /\ Len(rules'[n + 1].ports) = Len(ids)
  BY <1>2 DEF ids
<1> DEFINE e == file[j].ends[s]
<1>8. EndAt(j, s, n, p) <=>
        /\ e.node = NameOf(n) /\ \A m \in 0 .. n - 1 : e.node # NameOf(m)
        /\ p < Len(ids)
        /\ e.port = PortNameOf(n, p) /\ \A q \in 0 .. p - 1 : e.port # PortNameOf(n, q)
  BY <1>7 DEF EndAt, IsEnd
<1>9. EndAt(j, s, n, p)' <=>
        /\ e.node = NameOf(n) /\ \A m \in 0 .. n - 1 : e.node # NameOf(m)
        /\ p < Len(ids)
        /\ e.port = PortNameOf(n, p)' /\ \A q \in 0 .. p - 1 : e.port # PortNameOf(n, q)'
  BY <1>1, <1>7 DEF EndAt, IsEnd
<1> HIDE DEF e
<1> QED
  BY <1>5, <1>6, <1>8, <1>9

(* An end is one port of one node.                                         *)
LEMMA OneEnd ==
  ASSUME NEW j, NEW s, NEW n \in Nat, NEW m \in Nat, NEW p \in Nat, NEW q \in Nat,
         EndAt(j, s, n, p), EndAt(j, s, m, q)
  PROVE  n = m /\ p = q
<1>1. n = m
  <2>1. CASE n < m
    <3>1. n \in 0 .. m - 1
      BY <2>1
    <3> QED
      BY <3>1 DEF EndAt, IsEnd
  <2>2. CASE m < n
    <3>1. m \in 0 .. n - 1
      BY <2>2
    <3> QED
      BY <3>1 DEF EndAt, IsEnd
  <2> QED
    BY <2>1, <2>2
<1>2. p = q
  <2>1. CASE p < q
    <3>1. p \in 0 .. q - 1
      BY <2>1
    <3> QED
      BY <1>1, <3>1 DEF EndAt, IsEnd
  <2>2. CASE q < p
    <3>1. q \in 0 .. p - 1
      BY <2>2
    <3> QED
      BY <1>1, <3>1 DEF EndAt, IsEnd
  <2> QED
    BY <2>1, <2>2
<1> QED
  BY <1>1, <1>2

(* A port whose entry and wires stay as they are.                          *)
LEMMA WiredStays ==
  ASSUME TInv, DInv, pc = "build", Dict(dict'), Grows(dict, dict'), file' = file,
         \A k \in 1 .. Len(nodes) : rules'[k] = rules[k],
         NEW n \in 0 .. Len(nodes) - 1, nodes[n + 1].type = "PROC_NODE", NEW p \in PortIdx,
         Wires(n, p)' = Wires(n, p),
         p \in DOMAIN ports'[n + 1] <=> p \in DOMAIN ports[n + 1],
         p \in DOMAIN ports[n + 1] => ports'[n + 1][p] = ports[n + 1][p]
  PROVE  WiredAt(n, p)'
<1>1. WiredAt(n, p)
  BY DEF DInv, Wired
<1>2. ASSUME p \in DOMAIN ports[n + 1] PROVE IsLastWire(n, p, ports[n + 1][p])'
  <2> DEFINE e == ports[n + 1][p]
  <2>1. e \in Entries(Len(nodes), nwired)
    <3>1. n + 1 \in 1 .. Len(nodes)
      BY BuiltFacts
    <3> QED
      BY <1>2, <3>1 DEF TInv, Built, TablesOK
  <2>2. e.recp \in 0 .. Len(nodes) - 1 /\ e.recp_port \in PortIdx
    BY <2>1 DEF Entries
  <2>3. PICK j \in Wires(n, p) :
          /\ \A k \in Wires(n, p) : k <= j
          /\ e.wire = WiresBefore(j)
          /\ \E s \in 1 .. 2 : EndAt(j, s, n, p) /\ EndAt(j, 3 - s, e.recp, e.recp_port)
    BY <1>1, <1>2 DEF WiredAt, IsLastWire
  <2>4. PICK s \in 1 .. 2 : EndAt(j, s, n, p) /\ EndAt(j, 3 - s, e.recp, e.recp_port)
    BY <2>3
  <2>5. PICK recp, recp_port : recp = e.recp /\ recp_port = e.recp_port
    OBVIOUS
  <2>6. EndAt(j, s, n, p)' /\ EndAt(j, 3 - s, recp, recp_port)'
    BY <2>2, <2>4, <2>5, EndsStay DEF DInv
  <2>7. WiresBefore(j)' = WiresBefore(j)
    BY DEF WiresBefore
  <2>8. ports'[n + 1][p].recp = recp /\ ports'[n + 1][p].recp_port = recp_port
        /\ ports'[n + 1][p].wire = WiresBefore(j)'
    BY <1>2, <2>3, <2>5, <2>7
  <2> HIDE DEF e
  <2>9. EndAt(j, s, n, p)' /\ EndAt(j, 3 - s, ports[n + 1][p].recp, ports[n + 1][p].recp_port)'
    BY <2>6, <2>8
  <2> QED
    BY <2>3, <2>4, <2>8, <2>9 DEF IsLastWire
<1> QED
  BY <1>1, <1>2 DEF WiredAt

-----------------------------------------------------------------------------
LEMMA InvAddsNode ==
  ASSUME TInv, DInv, NEW type, NEW code, NEW rule, NEW d, AddsNode(type, code, rule, d)
  PROVE  TInv' /\ DInv'
<1> DEFINE L == Len(nodes)
<1>1. /\ At("build", NodeKinds) /\ type \in NodeType /\ type # "IO_NODE"
      /\ Dict(d) /\ Grows(dict, d) /\ RuleNamed(d, rule, file[pos].name)
      /\ DOMAIN rule.ports \subseteq 1 .. PORT_MAX
      /\ add_node(type, code, rule, d)
  BY DEF AddsNode
<1>2. TInv'
  BY <1>1, TableAddNode
<1>3. LInv /\ LInv' /\ NextDecl
  BY <1>1, InvAddNode DEF TInv
<1>4. /\ pc = "build" /\ pc' = "build" /\ pos <= Len(file) /\ file[pos].kind \in NodeKinds
      /\ file' = file /\ pos' = pos + 1 /\ pos \in Nat /\ Len(file) \in Nat
  BY <1>1, <1>3 DEF At, NextDecl, LInv, Shape
<1>5. file[pos].kind # "wire"
  BY <1>4 DEF NodeKinds
<1>6. Len(nodes) < nnodes
  BY <1>1, <1>4 DEF add_node, Abort
<1> DEFINE node == [type |-> type, code |-> code]
<1>7. /\ nodes' = Append(nodes, node) /\ ports' = Append(ports, << >>)
      /\ rules' = Append(rules, rule) /\ nwired' = nwired /\ dict' = d
  BY <1>1, <1>6 DEF add_node
<1>8. node.type = type
  OBVIOUS
<1> HIDE DEF node
<1>9. /\ L \in Nat /\ IsSeq(nodes) /\ IsSeq(rules) /\ IsSeq(ports)
      /\ Len(rules) = L /\ Len(ports) = L
  BY BuiltFacts DEF TInv, Built, TablesOK
<1>10. /\ Len(nodes') = L + 1 /\ \A k \in 1 .. L : nodes'[k] = nodes[k]
       /\ nodes'[L + 1].type = type
       /\ \A k \in 1 .. L : rules'[k] = rules[k] /\ ports'[k] = ports[k]
       /\ rules'[L + 1] = rule /\ ports'[L + 1] = << >>
  BY <1>7, <1>8, <1>9, Appended
<1>11. Dict(dict) /\ Named /\ Dict(dict') /\ Grows(dict, dict')
  BY <1>1, <1>7 DEF DInv
<1>12. L = 1 + Passed(NodeKinds) /\ nwired = Passed({"wire"})
  BY <1>4 DEF DInv, Progress
<1>13. Progress'
  <2>1. Passed(NodeKinds) \in Nat /\ Passed(NodeKinds)' = Passed(NodeKinds) + 1
    BY <1>3, <1>4, PassedNext
  <2>2. Passed({"wire"})' = Passed({"wire"})
    BY <1>3, <1>4, <1>5, PassedNext
  <2> QED
    BY <1>7, <1>10, <1>12, <2>1, <2>2 DEF Progress
<1>14. \A m : NameOf(m)' = NameOf(m)
  BY <1>4 DEF NameOf, NodeAt
<1>15. NameOf(L) = file[pos].name
  <2>1. Passed(NodeKinds) \in Nat /\ NodeAt(L) = pos
    BY <1>3, <1>4, <1>12, NodeAtPos, PassedNext
  <2> QED
    BY <1>12, <2>1 DEF NameOf
<1>16. Named'
  <2> SUFFICES ASSUME NEW n \in 0 .. L PROVE RuleNamed(dict', rules'[n + 1], NameOf(n)')
    BY <1>9, <1>10 DEF Named
  <2>1. CASE n = L
    BY <1>1, <1>7, <1>10, <1>14, <1>15, <2>1
  <2>2. CASE n # L
    <3>1. n \in 0 .. L - 1 /\ rules'[n + 1] = rules[n + 1]
      BY <1>9, <1>10, <2>2
    <3>2. RuleNamed(dict, rules[n + 1], NameOf(n))
      BY <1>11, <3>1 DEF Named
    <3>3. RuleNamed(dict', rules[n + 1], NameOf(n))
      BY <1>11, <3>2, RuleKept
    <3> QED
      BY <1>14, <3>1, <3>3
  <2> QED
    BY <2>1, <2>2
<1>17. IoIsFirst'
  <2> SUFFICES ASSUME NEW k \in 1 .. L + 1, nodes'[k].type = "IO_NODE" PROVE k = 1
    BY <1>10 DEF IoIsFirst
  <2>1. k \in 1 .. L /\ nodes[k].type = "IO_NODE"
    BY <1>1, <1>9, <1>10
  <2> QED
    BY <2>1 DEF DInv, IoIsFirst
<1>18. \A n \in 0 .. L - 1, p \in PortIdx : \A j, s : EndAt(j, s, n, p)' <=> EndAt(j, s, n, p)
  BY <1>4, <1>10, <1>11, EndsStay
<1>19. \A j \in 1 .. pos' - 1 : file'[j].kind = "wire" => j \in 1 .. pos - 1
  BY <1>4, <1>5
<1>20. Resolved'
  <2> SUFFICES ASSUME NEW j \in 1 .. pos' - 1, file'[j].kind = "wire", NEW s \in 1 .. 2
               PROVE  \E m \in 0 .. Len(nodes') - 1, q \in PortIdx : EndAt(j, s, m, q)'
    BY DEF Resolved
  <2>1. j \in 1 .. pos - 1 /\ file[j].kind = "wire"
    BY <1>4, <1>19
  <2>2. PICK m \in 0 .. L - 1, q \in PortIdx : EndAt(j, s, m, q)
    BY <1>4, <2>1 DEF DInv, Resolved
  <2>3. EndAt(j, s, m, q)' /\ m \in 0 .. Len(nodes') - 1
    BY <1>9, <1>10, <1>18, <2>2
  <2> QED
    BY <2>3
<1>21. Wired'
  <2> SUFFICES ASSUME NEW n \in 0 .. L, nodes'[n + 1].type = "PROC_NODE", NEW p \in PortIdx
               PROVE  WiredAt(n, p)'
    BY <1>9, <1>10 DEF Wired
  <2>1. CASE n = L
    <3>1. ASSUME NEW j \in Wires(n, p)' PROVE FALSE
      <4>1. j \in 1 .. pos - 1 /\ file[j].kind = "wire"
        BY <1>4, <1>19, <3>1 DEF Wires
      <4>2. PICK s \in 1 .. 2 : EndAt(j, s, n, p)'
        BY <3>1 DEF Wires
      <4>3. PICK m \in 0 .. L - 1, q \in PortIdx : EndAt(j, s, m, q)
        BY <1>4, <4>1 DEF DInv, Resolved
      <4>4. file'[j].ends[s].node = NameOf(m)
        BY <1>4, <4>3 DEF EndAt, IsEnd
      <4>5. file'[j].ends[s].node # NameOf(m)'
        BY <2>1, <4>2, <4>3 DEF EndAt, IsEnd
      <4> QED
        BY <1>14, <4>4, <4>5
    <3>2. DOMAIN ports'[n + 1] = {}
      BY <1>10, <2>1
    <3> QED
      BY <3>1, <3>2 DEF WiredAt
  <2>2. CASE n # L
    <3>1. n \in 0 .. L - 1 /\ n + 1 \in 1 .. L
      BY <1>9, <2>2
    <3>2. nodes[n + 1].type = "PROC_NODE" /\ ports'[n + 1] = ports[n + 1]
      BY <1>10, <3>1
    <3>3. Wires(n, p)' = Wires(n, p)
      <4>1. \A j, s : EndAt(j, s, n, p)' <=> EndAt(j, s, n, p)
        BY <1>18, <3>1
      <4>2. \A j \in 1 .. pos - 1 : j \in 1 .. pos' - 1
        BY <1>4
      <4> QED
        BY <1>4, <1>19, <4>1, <4>2 DEF Wires
    <3> QED
      BY <1>4, <1>10, <1>11, <3>1, <3>2, <3>3, WiredStays
  <2> QED
    BY <2>1, <2>2
<1> QED
  BY <1>2, <1>11, <1>13, <1>16, <1>17, <1>20, <1>21 DEF DInv

-----------------------------------------------------------------------------
(* The table of a processor when an entry has been written into a table.   *)
LEMMA AttachAt ==
  ASSUME NEW t, IsSeq(t), NEW m \in 0 .. Len(t) - 1, NEW q, NEW e,
         NEW n \in 0 .. Len(t) - 1, IsProc(n), NEW p
  PROVE  LET u == Attach(t, m, q, e)
         IN  /\ IsSeq(u) /\ Len(u) = Len(t)
             /\ p \in DOMAIN u[n + 1] <=> p \in DOMAIN t[n + 1] \/ (n = m /\ p = q)
             /\ n = m /\ p = q => u[n + 1][p] = e
             /\ p \in DOMAIN t[n + 1] /\ ~(n = m /\ p = q) => u[n + 1][p] = t[n + 1][p]
<1> DEFINE u == Attach(t, m, q, e)
           new == Put(t[m + 1], q, e)
<1>1. CASE ~ IsProc(m)
  BY <1>1 DEF Attach
<1>2. CASE IsProc(m)
  <2>1. u = Patch(t, m + 1, new)
    BY <1>2 DEF Attach, Patch
  <2>2. /\ DOMAIN new = DOMAIN t[m + 1] \union {q}
        /\ \A r \in DOMAIN new : new[r] = IF r = q THEN e ELSE t[m + 1][r]
    BY DEF Put
  <2> HIDE DEF new, u
  <2>3. Len(t) \in Nat
    BY SeqDomain
  <2>4. /\ IsSeq(u) /\ Len(u) = Len(t)
        /\ u[n + 1] = IF n = m THEN new ELSE t[n + 1]
    BY <2>1, <2>3, Replaced
  <2> QED
    BY <2>2, <2>4 DEF u
<1> QED
  BY <1>1, <1>2

LEMMA InvAddsWire ==
  ASSUME TInv, DInv, NEW n1, NEW p1, NEW n2, NEW p2, NEW d, AddsWire(n1, p1, n2, p2, d)
  PROVE  TInv' /\ DInv'
<1> DEFINE L == Len(nodes)
<1>1. /\ At("build", {"wire"})
      /\ n1 \in 0 .. L - 1 /\ p1 \in PortIdx /\ n2 \in 0 .. L - 1 /\ p2 \in PortIdx
      /\ Dict(d) /\ Grows(dict, d)
      /\ EndAt(pos, 1, n1, p1) /\ EndAt(pos, 2, n2, p2)
      /\ add_wire(n1, p1, n2, p2, d)
  BY DEF AddsWire
<1>2. TInv'
  BY <1>1, TableAddWire
<1>3. LInv /\ LInv' /\ NextDecl
  BY <1>1, InvAddWire DEF TInv
<1>4. PICK here : here = pos
  OBVIOUS
<1>5. /\ pc = "build" /\ pc' = "build" /\ pos <= Len(file) /\ file[here].kind = "wire"
      /\ file' = file /\ pos' = pos + 1 /\ here \in Nat \ {0} /\ pos' - 1 = here
  BY <1>1, <1>3, <1>4 DEF At, NextDecl, LInv, Shape
<1>6. nwired < nwires
  BY <1>1, <1>5 DEF add_wire, Abort
<1> DEFINE e1 == Entry(n1, p1)
           e2 == Entry(n2, p2)
           first == Attach(ports, n1, p1, e2)
<1>7. /\ ports' = Attach(first, n2, p2, e1)
      /\ nwired' = nwired + 1 /\ dict' = d /\ nodes' = nodes /\ rules' = rules
  BY <1>1, <1>6 DEF add_wire
<1>8. L \in Nat /\ nwired \in Nat /\ IsSeq(ports) /\ Len(ports) = L
  BY BuiltFacts DEF TInv, Built, TablesOK
<1>9. /\ e1.recp = n1 /\ e1.recp_port = p1 /\ e1.wire = nwired
      /\ e2.recp = n2 /\ e2.recp_port = p2 /\ e2.wire = nwired
  BY DEF Entry
<1> HIDE DEF e1, e2
<1>10. Dict(dict) /\ Named /\ Dict(dict') /\ Grows(dict, dict')
  BY <1>1, <1>7 DEF DInv
<1>11. nwired = Passed({"wire"}) /\ L = 1 + Passed(NodeKinds)
  BY <1>5 DEF DInv, Progress
<1>12. Progress'
  <2>1. Passed({"wire"})' = Passed({"wire"}) + 1
    BY <1>3, <1>4, <1>5, PassedNext
  <2>2. Passed(NodeKinds)' = Passed(NodeKinds)
    <3>1. file[pos].kind \notin NodeKinds
      BY <1>4, <1>5 DEF NodeKinds
    <3> QED
      BY <1>3, <1>5, <3>1, PassedNext
  <2> QED
    BY <1>7, <1>11, <2>1, <2>2 DEF Progress
<1>13. \A m : NameOf(m)' = NameOf(m)
  BY <1>5 DEF NameOf, NodeAt
<1>14. Named'
  <2> SUFFICES ASSUME NEW n \in 0 .. L - 1 PROVE RuleNamed(dict', rules'[n + 1], NameOf(n)')
    BY <1>7 DEF Named
  <2>1. RuleNamed(dict, rules[n + 1], NameOf(n))
    BY <1>10 DEF Named
  <2> QED
    BY <1>7, <1>10, <1>13, <2>1, RuleKept
<1>15. IoIsFirst'
  BY <1>7 DEF DInv, IoIsFirst
<1>16. \A n \in 0 .. L - 1, p \in PortIdx : \A j, s : EndAt(j, s, n, p)' <=> EndAt(j, s, n, p)
  BY <1>5, <1>7, <1>10, EndsStay
<1>17. EndAt(here, 1, n1, p1) /\ EndAt(here, 2, n2, p2)
  BY <1>1, <1>4
<1>18. Resolved'
  <2> SUFFICES ASSUME NEW j \in 1 .. here, file[j].kind = "wire", NEW s \in 1 .. 2
               PROVE  \E m \in 0 .. L - 1, q \in PortIdx : EndAt(j, s, m, q)'
    BY <1>5, <1>7 DEF Resolved
  <2>1. CASE j = here
    <3>1. EndAt(here, 1, n1, p1)' /\ EndAt(here, 2, n2, p2)'
      BY <1>1, <1>16, <1>17
    <3>2. s = 1 \/ s = 2
      OBVIOUS
    <3> QED
      BY <1>1, <2>1, <3>1, <3>2
  <2>2. CASE j # here
    <3>1. j \in 1 .. pos - 1
      BY <1>4, <1>5, <2>2
    <3>2. PICK m \in 0 .. L - 1, q \in PortIdx : EndAt(j, s, m, q)
      BY <1>5, <3>1 DEF DInv, Resolved
    <3> QED
      BY <1>16, <3>2
  <2> QED
    BY <2>1, <2>2
<1>19. Wired'
  <2> SUFFICES ASSUME NEW n \in 0 .. L - 1, nodes[n + 1].type = "PROC_NODE", NEW p \in PortIdx
               PROVE  WiredAt(n, p)'
    BY <1>7 DEF Wired
  <2> DEFINE first1 == n = n1 /\ p = p1
             second2 == n = n2 /\ p = p2
  <2>1. /\ p \in DOMAIN ports'[n + 1] <=> p \in DOMAIN ports[n + 1] \/ first1 \/ second2
        /\ second2 => ports'[n + 1][p] = e1
        /\ first1 /\ ~ second2 => ports'[n + 1][p] = e2
        /\ p \in DOMAIN ports[n + 1] /\ ~ first1 /\ ~ second2
             => ports'[n + 1][p] = ports[n + 1][p]
    <3>1. IsProc(n)
      BY DEF IsProc
    <3>2. /\ IsSeq(first) /\ Len(first) = L
          /\ p \in DOMAIN first[n + 1] <=> p \in DOMAIN ports[n + 1] \/ first1
          /\ first1 => first[n + 1][p] = e2
          /\ p \in DOMAIN ports[n + 1] /\ ~ first1 => first[n + 1][p] = ports[n + 1][p]
      <4>1. n1 \in 0 .. Len(ports) - 1 /\ n \in 0 .. Len(ports) - 1 /\ IsSeq(ports)
        BY <1>1, <1>8
      <4> DEFINE u == Attach(ports, n1, p1, e2)
      <4>2. /\ IsSeq(u) /\ Len(u) = Len(ports)
            /\ p \in DOMAIN u[n + 1] <=> p \in DOMAIN ports[n + 1] \/ (n = n1 /\ p = p1)
            /\ n = n1 /\ p = p1 => u[n + 1][p] = e2
            /\ p \in DOMAIN ports[n + 1] /\ ~ (n = n1 /\ p = p1)
                 => u[n + 1][p] = ports[n + 1][p]
        BY <3>1, <4>1, AttachAt
      <4> HIDE DEF u
      <4>3. u = first
        BY DEF u
      <4> HIDE DEF first
      <4> QED
        BY <1>8, <4>2, <4>3
    <3> HIDE DEF first
    <3>3. /\ p \in DOMAIN ports'[n + 1] <=> p \in DOMAIN first[n + 1] \/ second2
          /\ second2 => ports'[n + 1][p] = e1
          /\ p \in DOMAIN first[n + 1] /\ ~ second2 => ports'[n + 1][p] = first[n + 1][p]
      BY <1>1, <1>7, <3>1, <3>2, AttachAt
    <3> QED
      BY <3>2, <3>3
  <2>2. \A j, s : EndAt(j, s, n, p)' <=> EndAt(j, s, n, p)
    BY <1>16
  <2>3. /\ n \in Nat /\ p \in Nat /\ n1 \in Nat /\ p1 \in Nat /\ n2 \in Nat /\ p2 \in Nat
    BY <1>1 DEF PortIdx, PORT_MAX
  <2>4. EndAt(here, 1, n, p) <=> first1
    BY <1>17, <2>3, OneEnd
  <2>5. EndAt(here, 2, n, p) <=> second2
    BY <1>17, <2>3, OneEnd
  <2>6. Wires(n, p)' = {j \in 1 .. here : file[j].kind = "wire"
                                            /\ \E s \in 1 .. 2 : EndAt(j, s, n, p)}
    BY <1>5, <2>2 DEF Wires
  <2>7. Wires(n, p) = {j \in 1 .. here - 1 : file[j].kind = "wire"
                                               /\ \E s \in 1 .. 2 : EndAt(j, s, n, p)}
    BY <1>4 DEF Wires
  <2> HIDE DEF first
  <2>8. CASE ~ first1 /\ ~ second2
    <3>1. here \notin Wires(n, p)'
      <4>1. \A s \in 1 .. 2 : s = 1 \/ s = 2
        OBVIOUS
      <4> QED
        BY <2>4, <2>5, <2>6, <2>8, <4>1
    <3>2. \A j \in 1 .. here : j = here \/ j \in 1 .. here - 1
      BY <1>5
    <3>3. 1 .. here - 1 \subseteq 1 .. here
      BY <1>5
    <3>4. Wires(n, p)' = Wires(n, p)
      BY <2>6, <2>7, <3>1, <3>2, <3>3
    <3> QED
      BY <1>5, <1>7, <1>10, <2>1, <2>8, <3>4, WiredStays
  <2>9. ASSUME NEW m \in 0 .. L - 1, NEW q \in PortIdx, NEW s \in 1 .. 2,
               p \in DOMAIN ports'[n + 1],
               ports'[n + 1][p].recp = m, ports'[n + 1][p].recp_port = q,
               ports'[n + 1][p].wire = nwired,
               EndAt(here, s, n, p), EndAt(here, 3 - s, m, q)
        PROVE  WiredAt(n, p)'
    <3>1. here \in Wires(n, p)' /\ \A k \in Wires(n, p)' : k <= here
      BY <1>5, <2>6, <2>9
    <3>2. WiresBefore(here)' = nwired
      BY <1>4, <1>5, <1>11 DEF WiresBefore, Passed
    <3>3. EndAt(here, s, n, p)' /\ EndAt(here, 3 - s, m, q)'
      BY <1>16, <2>9
    <3>4. EndAt(here, 3 - s, ports[n + 1][p].recp, ports[n + 1][p].recp_port)'
      BY <2>9, <3>3
    <3>5. IsLastWire(n, p, ports[n + 1][p])'
      BY <2>9, <3>1, <3>2, <3>3, <3>4 DEF IsLastWire
    <3> QED
      BY <2>9, <3>1, <3>5 DEF WiredAt
  <2>10. CASE second2
    <3>1. EndAt(here, 2, n, p) /\ EndAt(here, 3 - 2, n1, p1)
      BY <1>17, <2>5, <2>10
    <3>2. p \in DOMAIN ports'[n + 1] /\ ports'[n + 1][p] = e1
      BY <2>1, <2>10
    <3> QED
      BY <1>1, <1>9, <2>9, <3>1, <3>2
  <2>11. CASE first1 /\ ~ second2
    <3>1. EndAt(here, 1, n, p) /\ EndAt(here, 3 - 1, n2, p2)
      BY <1>17, <2>4, <2>11
    <3>2. p \in DOMAIN ports'[n + 1] /\ ports'[n + 1][p] = e2
      BY <2>1, <2>11
    <3> QED
      BY <1>1, <1>9, <2>9, <3>1, <3>2
  <2> QED
    BY <2>8, <2>10, <2>11
<1> QED
  BY <1>2, <1>10, <1>12, <1>14, <1>15, <1>18, <1>19 DEF DInv

-----------------------------------------------------------------------------
LEMMA DInvInit == Init => TInv /\ DInv
<1> SUFFICES ASSUME Init PROVE TInv /\ DInv
  OBVIOUS
<1>1. LInv
  BY InvInit
<1>2. /\ nodes = << >> /\ ports = << >> /\ rules = << >> /\ dict = << >>
      /\ nwired = 0 /\ nwires = 0 /\ pc = "count" /\ seekable \in BOOLEAN
  BY DEF Init
<1>3. IsSeq(<< >>) /\ Len(<< >>) = 0
  <2>1. << >> \in Seq({})
    OBVIOUS
  <2> QED
    BY <2>1, Zenon DEF IsSeq
<1>4. Built
  BY <1>2, <1>3 DEF Built, TablesOK, RulesOK
<1>5. Dict(dict)
  BY <1>2 DEF Dict, IsInjective
<1>6. Named /\ IoIsFirst /\ Progress /\ Resolved /\ Wired
  BY <1>2, <1>3 DEF Named, IoIsFirst, Progress, Resolved, Wired
<1> QED
  BY <1>1, <1>2, <1>4, <1>5, <1>6 DEF TInv, Complete, DInv

(* A step that builds nothing.                                             *)
LEMMA DInvKeeps ==
  ASSUME DInv, UNCHANGED <<vmVars, file>>,
         pc' \notin {"build", "run"} \/ (pc \in {"build", "run"} /\ pos' = pos)
  PROVE  DInv'
<1>1. UNCHANGED <<nodes, ports, nwired, rules, dict, file>>
  BY DEF vmVars
<1>2. \A m : NameOf(m)' = NameOf(m)
  BY <1>1 DEF NameOf, NodeAt
<1>3. Dict(dict)' /\ Named' /\ IoIsFirst'
  BY <1>1, <1>2 DEF DInv, Named, IoIsFirst
<1>4. CASE pc' \notin {"build", "run"}
  BY <1>3, <1>4 DEF DInv, Progress, Resolved, Wired
<1>5. CASE pc \in {"build", "run"} /\ pos' = pos
  <2>1. Progress'
    BY <1>1, <1>5 DEF DInv, Progress, Passed
  <2>2. \A j, s, n, p : EndAt(j, s, n, p)' <=> EndAt(j, s, n, p)
    BY <1>1, <1>2 DEF EndAt, IsEnd, PortNameOf, id_sym
  <2>3. Resolved'
    BY <1>1, <1>5, <2>2 DEF DInv, Resolved
  <2>4. \A n, p : WiredAt(n, p)' <=> WiredAt(n, p)
    <3>1. \A n, p : Wires(n, p)' = Wires(n, p)
      BY <1>1, <1>5, <2>2 DEF Wires
    <3>2. \A j : WiresBefore(j)' = WiresBefore(j)
      BY <1>1 DEF WiresBefore
    <3>3. \A n, p : IsLastWire(n, p, ports[n + 1][p])' <=> IsLastWire(n, p, ports[n + 1][p])
      BY <1>1, <2>2, <3>1, <3>2 DEF IsLastWire
    <3> QED
      BY <1>1, <3>1, <3>3 DEF WiredAt
  <2>5. Wired'
    BY <1>1, <1>5, <2>4 DEF DInv, Wired
  <2> QED
    BY <1>3, <2>1, <2>3, <2>5 DEF DInv
<1> QED
  BY <1>4, <1>5

LEMMA DInvRewind == TInv /\ DInv /\ Rewind => DInv'
<1> SUFFICES ASSUME TInv, DInv, Rewind PROVE DInv'
  OBVIOUS
<1>1. /\ pc = "count" /\ pc' = "build" /\ pos' = 1
      /\ nodes' = <<[type |-> "IO_NODE", code |-> "none"]>>
      /\ dict' = IoPorts \o <<"io">>
      /\ rules' = <<RuleIn(dict', "io", IoPorts, FALSE)>>
      /\ nwired' = nwired
  BY DEF Rewind
<1>2. Len(nodes') = 1 /\ nodes'[1].type = "IO_NODE"
  BY <1>1
<1>3. /\ dict' \in Seq(Symbols) /\ Len(dict') = 4 /\ DOMAIN dict' = 1 .. 4
      /\ dict'[1] = "in" /\ dict'[2] = "out" /\ dict'[3] = "err" /\ dict'[4] = "io"
  <2> DEFINE io == <<"io">>
  <2>1. /\ IoPorts \in Seq(Symbols) /\ Len(IoPorts) = 3
        /\ IoPorts[1] = "in" /\ IoPorts[2] = "out" /\ IoPorts[3] = "err"
        /\ io \in Seq(Symbols) /\ Len(io) = 1 /\ io[1] = "io"
    BY DEF IoPorts, Symbols
  <2>2. dict' = IoPorts \o io
    BY <1>1
  <2> DEFINE both == IoPorts \o io
  <2> HIDE DEF io
  <2>3. /\ both \in Seq(Symbols)
        /\ Len(both) = Len(IoPorts) + Len(io)
        /\ \A i \in 1 .. Len(IoPorts) + Len(io) :
             both[i] = IF i <= Len(IoPorts) THEN IoPorts[i] ELSE io[i - Len(IoPorts)]
    BY <2>1, ConcatProperties
  <2> HIDE DEF both
  <2>4. Len(both) = 4 /\ \A i \in 1 .. 4 : both[i] = IF i <= 3 THEN IoPorts[i] ELSE io[i - 3]
    BY <2>1, <2>3
  <2>5. both[1] = "in" /\ both[2] = "out" /\ both[3] = "err" /\ both[4] = io[1]
    BY <2>1, <2>4
  <2>6. DOMAIN both = 1 .. 4
    BY <2>3, <2>4, LenProperties
  <2>7. both = dict'
    BY <2>2 DEF both
  <2> QED
    BY <2>1, <2>3, <2>4, <2>5, <2>6, <2>7
<1>4. Dict(dict')
  <2>1. IsInjective(dict')
    BY <1>3 DEF IsInjective
  <2> QED
    BY <1>3, <2>1 DEF Dict
<1>5. Len(dict') = 4 /\ Contains(dict', "io")
      /\ Contains(dict', "in") /\ Contains(dict', "out") /\ Contains(dict', "err")
  BY <1>3 DEF Contains
<1> DEFINE rule == RuleIn(dict', "io", IoPorts, FALSE)
<1>6. rule.id = sym_id(dict', "io")
      /\ rule.ports = [k \in 1 .. 3 |-> sym_id(dict', IoPorts[k])]
  <2>1. DOMAIN IoPorts = 1 .. 3
    BY DEF IoPorts
  <2> QED
    BY <2>1 DEF RuleIn, Rule, Ids
<1>7. rules'[1] = rule
  BY <1>1
<1> HIDE DEF rule
<1>8. \A k \in 1 .. 3 : sym_id(dict', IoPorts[k]) \in 0 .. 3
  <2>1. \A k \in 1 .. 3 : Contains(dict', IoPorts[k])
    BY <1>5 DEF IoPorts
  <2>2. \A k \in 1 .. 3 : sym_id(dict', IoPorts[k]) \in 0 .. Len(dict') - 1
    BY <1>4, <2>1, SymId
  <2> QED
    BY <1>3, <2>2
<1>9. rule.ports \in Seq(0 .. 3)
  BY <1>6, <1>8, IsASeq
<1>10. rule.id \in 0 .. 3 /\ dict'[rule.id + 1] = "io"
  BY <1>4, <1>5, <1>6, SymId
<1>11. Named'
  <2>1. RuleNamed(dict', rules'[1], "io")
    BY <1>5, <1>7, <1>9, <1>10 DEF RuleNamed
  <2>2. NameOf(0)' = "io"
    BY DEF NameOf
  <2> QED
    BY <1>2, <2>1, <2>2 DEF Named
<1>12. IoIsFirst'
  BY <1>2 DEF IoIsFirst
<1>13. Progress'
  <2>1. \A K : Passed(K)' = 0
    <3>1. \A K : {j \in 1 .. pos' - 1 : file'[j].kind \in K} = {}
      BY <1>1
    <3> QED
      BY <3>1, FS_EmptySet DEF Passed
  <2>2. nwired = 0
    BY <1>1 DEF TInv, LInv, CountsSoFar
  <2> QED
    BY <1>1, <1>2, <2>1, <2>2 DEF Progress
<1>14. Resolved'
  BY <1>1 DEF Resolved
<1>15. Wired'
  BY <1>2 DEF Wired
<1> QED
  BY <1>4, <1>11, <1>12, <1>13, <1>14, <1>15 DEF DInv

IInv == TInv /\ DInv /\ AbortsAtACopyOfIo

LEMMA IInvNext == IInv /\ [Next]_vars => IInv'
<1> SUFFICES ASSUME IInv, [Next]_vars PROVE IInv'
  OBVIOUS
<1>1. TInv /\ DInv /\ AbortsAtACopyOfIo /\ LInv
  BY DEF IInv, TInv
<1>2. ArraysSuffice
  BY <1>1 DEF AbortsAtACopyOfIo, ArraysSuffice
<1>3. LInv'
  BY <1>1, <1>2, InvNext
<1>4. CASE UNCHANGED vars
  <2>1. TInv'
    BY <1>1, <1>3, <1>4 DEF vars, TInv, Built, Complete, TablesOK, RulesOK
  <2>2. DInv'
    BY <1>1, <1>4, DInvKeeps DEF vars, vmVars, DInv, Progress, Resolved, Wired
  <2> QED
    BY <1>1, <1>4, <2>1, <2>2 DEF IInv, vars, AbortsAtACopyOfIo
<1>5. CASE CountNode \/ CountWire
  <2>1. /\ UNCHANGED <<file, vmVars, seekable>> /\ pc' = "count"
        /\ nwires' = nwires \/ nwires' = nwires + 1
    BY <1>5 DEF CountNode, CountWire, At, NextDecl
  <2>2. nwires <= nwires'
    BY <1>1, <2>1 DEF LInv, Shape
  <2> QED
    BY <1>1, <1>3, <2>1, <2>2, TableKeeps, DInvKeeps DEF IInv, AbortsAtACopyOfIo
<1>6. ASSUME Reject \/ Abort PROVE TInv' /\ DInv' /\ file' = file /\ pos' = pos
  <2>1. UNCHANGED <<vmVars, file>> /\ pos' = pos /\ pc' \in {"rejected", "aborted"}
    BY <1>6 DEF Reject, Abort
  <2> QED
    BY <1>1, <1>6, <2>1, TableReject, DInvKeeps
<1>7. CASE Reject
  BY <1>6, <1>7 DEF IInv, AbortsAtACopyOfIo, Reject
<1>8. CASE CountGarbage
  BY <1>7, <1>8 DEF CountGarbage
<1>9. CASE RewindFails
  BY <1>6, <1>9 DEF RewindFails, Abort, IInv, AbortsAtACopyOfIo
<1>10. CASE CountGarbageForEver \/ Ended
  BY <1>4, <1>10 DEF CountGarbageForEver, Ended
<1>11. CASE Rewind
  BY <1>1, <1>11, TableRewind, DInvRewind DEF IInv, AbortsAtACopyOfIo, Rewind
<1>12. CASE ScanProcessor \/ ScanCopy \/ ScanBuffer \/ ScanStack \/ ScanWire
  <2>1. CASE CopiesIo
    BY <1>6, <2>1 DEF CopiesIo, IInv, AbortsAtACopyOfIo
  <2>2. ASSUME NEW type, NEW code, NEW rule, NEW d, AddsNode(type, code, rule, d)
        PROVE  IInv'
    <3>1. pc' = "build"
      BY <1>1, <2>2, InvAddNode DEF AddsNode, At, NextDecl
    <3> QED
      BY <1>1, <2>2, <3>1, InvAddsNode DEF IInv, AbortsAtACopyOfIo
  <2>3. ASSUME NEW n1, NEW p1, NEW n2, NEW p2, NEW d, AddsWire(n1, p1, n2, p2, d)
        PROVE  IInv'
    <3>1. pc' = "build"
      BY <1>1, <2>3, InvAddWire DEF AddsWire, At, NextDecl
    <3> QED
      BY <1>1, <2>3, <3>1, InvAddsWire DEF IInv, AbortsAtACopyOfIo
  <2> QED
    BY <1>1, <1>7, <1>12, <2>1, <2>2, <2>3, Builds DEF Adds
<1>13. CASE Run
  <2>1. UNCHANGED <<vmVars, file>> /\ pos' = pos /\ pc = "build" /\ pc' = "run"
    BY <1>13 DEF Run
  <2> QED
    BY <1>1, <1>13, <2>1, TableRun, DInvKeeps DEF IInv, AbortsAtACopyOfIo
<1> QED
  BY <1>4, <1>5, <1>7, <1>8, <1>9, <1>10, <1>11, <1>12, <1>13 DEF Next

LEMMA Invariance == Spec => []IInv
<1>1. Init => IInv
  BY DInvInit DEF Init, IInv, AbortsAtACopyOfIo
<1> QED
  BY <1>1, IInvNext, PTL DEF Spec

-----------------------------------------------------------------------------
LEMMA IsTyped == IInv => TypeOK
<1> SUFFICES ASSUME IInv PROVE TypeOK
  OBVIOUS
<1>1. TInv /\ DInv
  BY DEF IInv
<1>2. /\ IsSeq(nodes) /\ IsSeq(rules) /\ IsSeq(ports)
      /\ Len(rules) = Len(nodes) /\ Len(ports) = Len(nodes)
  BY <1>1, BuiltFacts DEF TInv, Built, TablesOK
<1>3. DOMAIN nodes = 1 .. Len(nodes) /\ DOMAIN ports = DOMAIN nodes /\ DOMAIN rules = DOMAIN nodes
  BY <1>2, SeqDomain
<1>4. nwired \in 0 .. nwires
  BY <1>1 DEF TInv, Built, LInv, Shape
<1> QED
  BY <1>1, <1>3, <1>4 DEF TypeOK, TInv, LInv, Shape, Built, DInv, Dict

LEMMA IsTopology == TInv => RunsOnATopology
<1> SUFFICES ASSUME TInv, pc = "run" PROVE Loaded!TopologyOK
  BY DEF RunsOnATopology
<1>1. /\ nnodes = Len(nodes) /\ nwires = nwired /\ nnodes \in Nat
      /\ \A k \in 1 .. Len(nodes) : nodes[k].type \in NodeType
      /\ TablesOK(ports, Len(nodes), nwired)
  BY DEF TInv, LInv, Shape, Built, Complete
<1>2. \A n \in 0 .. nnodes - 1 : n + 1 \in 1 .. Len(nodes)
  BY <1>1
<1> DEFINE type == [n \in 0 .. nnodes - 1 |-> nodes[n + 1].type]
<1>3. type \in [Loaded!Node -> Loaded!NodeType]
  BY <1>1, <1>2 DEF Loaded!Node, Loaded!NodeType, NodeType
<1>4. ASSUME NEW n \in Loaded!Proc,
             NEW p \in DOMAIN [m \in 0 .. nnodes - 1 |-> ports[m + 1]][n]
      PROVE  /\ p \in PortIdx
             /\ [m \in 0 .. nnodes - 1 |-> ports[m + 1]][n][p] \in Loaded!PortRec
  <2>1. n \in 0 .. nnodes - 1 /\ nodes[n + 1].type = "PROC_NODE"
    BY <1>4 DEF Loaded!Proc, Loaded!Node
  <2>2. p \in DOMAIN ports[n + 1]
    BY <1>4, <2>1
  <2>3. p \in PortIdx /\ ports[n + 1][p] \in Entries(Len(nodes), nwired)
    BY <1>1, <1>2, <2>1, <2>2 DEF TablesOK
  <2> QED
    BY <1>1, <2>1, <2>3 DEF Entries, Loaded!PortRec, Loaded!Node,
                            PortIdx, PORT_MAX, Loaded!PortIdx, Loaded!PORT_MAX
<1> QED
  BY <1>1, <1>3, <1>4 DEF Loaded!TopologyOK, PortIdx, PORT_MAX,
                          Loaded!PortIdx, Loaded!PORT_MAX

LEMMA IsWiredAsDeclared == IInv => WiredAsDeclared
<1> SUFFICES ASSUME IInv, pc = "run", NEW n \in Loaded!Proc, NEW p \in PortIdx
             PROVE  /\ p \in DOMAIN ports[n + 1] <=> Mentions(n, p) # {}
                    /\ p \in DOMAIN ports[n + 1] =>
                         LET e == ports[n + 1][p]
                         IN  \E j \in Mentions(n, p) :
                               /\ \A k \in Mentions(n, p) : k <= j
                               /\ e.wire = WireNumber(j)
                               /\ Joins(j, n, p, e.recp, e.recp_port)
  BY DEF WiredAsDeclared
<1>1. /\ nnodes = Len(nodes) /\ pos = Len(file) + 1 /\ Len(file) \in Nat
      /\ DOMAIN file = 1 .. Len(file)
  BY LenProperties DEF IInv, TInv, LInv, Shape, Complete
<1>2. n \in 0 .. Len(nodes) - 1 /\ nodes[n + 1].type = "PROC_NODE"
  BY <1>1 DEF Loaded!Proc, Loaded!Node
<1>3. WiredAt(n, p)
  BY <1>2 DEF IInv, DInv, Wired
<1>4. pos - 1 = Len(file)
  BY <1>1
<1>5. Mentions(n, p) = Wires(n, p)
  BY <1>1, <1>4 DEF Mentions, WirePositions, Wires, EndAt
<1>6. \A j \in 1 .. Len(file) : WireNumber(j) = WiresBefore(j)
  <2> SUFFICES ASSUME NEW j \in 1 .. Len(file) PROVE WireNumber(j) = WiresBefore(j)
    OBVIOUS
  <2>1. {k \in WirePositions : k < j} = {k \in 1 .. j - 1 : file[k].kind \in {"wire"}}
    BY <1>1 DEF WirePositions
  <2> QED
    BY <2>1 DEF WireNumber, WiresBefore
<1>7. Wires(n, p) \subseteq 1 .. Len(file)
  BY <1>4 DEF Wires
<1>8. \A j, m, q : Joins(j, n, p, m, q) <=>
                    \E s \in 1 .. 2 : EndAt(j, s, n, p) /\ EndAt(j, 3 - s, m, q)
  BY DEF Joins, EndAt
<1> QED
  BY <1>3, <1>5, <1>6, <1>7, <1>8 DEF WiredAt, IsLastWire

(* Whatever the file, what main() keeps of it stays well formed; no name   *)
(* has two ids.                                                            *)
THEOREM TypeCorrect == Spec => []TypeOK
BY Invariance, IsTyped, PTL

(* Once the file has been read again, only a copy of the console ends      *)
(* noded.                                                                  *)
THEOREM OnlyACopyOfIoAborts == Spec => []AbortsAtACopyOfIo
<1>1. IInv => AbortsAtACopyOfIo
  BY DEF IInv
<1> QED
  BY <1>1, Invariance, PTL

(* The tables that add_wire() wrote while the file was read are ports and  *)
(* wires of the nodes that were added, none of which is missing when run() *)
(* starts: what the proofs about the virtual machine assume of it.         *)
THEOREM LoadsATopology == Spec => []RunsOnATopology
<1>1. IInv => RunsOnATopology
  BY IsTopology DEF IInv
<1> QED
  BY <1>1, Invariance, PTL

(* However names, ids, rules and tables lie between them, a processor that *)
(* runs is wired as the file says: at each port is the last wire that was  *)
(* declared for it, with the node and the port at its other end.           *)
THEOREM LoadsWhatIsDeclared == Spec => []WiredAsDeclared
BY Invariance, IsWiredAsDeclared, PTL
=============================================================================
