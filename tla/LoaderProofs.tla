---------------------------- MODULE LoaderProofs -----------------------------
(***************************************************************************)
(* Proofs about module Loader, for files of any length with any            *)
(* declarations in them.                                                   *)
(***************************************************************************)
EXTENDS Loader, FiniteSetTheorems, SequenceTheorems, WellFoundedInduction, TLAPS

(* Declarations of some kinds among those that the first pass has read.    *)
Passed(kinds) == Cardinality({j \in 1 .. pos - 1 : file[j].kind \in kinds})

Shape ==
  /\ file \in Seq(Decls)
  /\ pos \in 1 .. Len(file) + 1
  /\ nnodes \in Nat /\ nwires \in Nat /\ nwired \in Nat
  /\ \E S : nodes \in Seq(S)

(* The first pass counts what it reads, and builds nothing.                *)
CountsSoFar ==
  pc = "count" => /\ nnodes = 1 + Passed(NodeKinds)
                  /\ nwires = Passed({"wire"})
                  /\ nwired = 0

(* No add_node() and no add_wire() finds its array full.                   *)
ArraysSuffice == pc = "aborted" /\ seekable => file[pos].kind = "copy"

LInv == Shape /\ CountsSoFar /\ CountsAgree

-----------------------------------------------------------------------------
(* Declarations of some kinds in a part of a file, with its first or its   *)
(* last one and without.                                                   *)
LEMMA WithFirst ==
  ASSUME NEW f, NEW kinds, NEW a \in Nat, NEW b \in Nat, a <= b
  PROVE  /\ Cardinality({j \in a .. b : f[j].kind \in kinds}) \in Nat
         /\ Cardinality({j \in a + 1 .. b : f[j].kind \in kinds}) \in Nat
         /\ Cardinality({j \in a .. b : f[j].kind \in kinds})
              = Cardinality({j \in a + 1 .. b : f[j].kind \in kinds})
                  + (IF f[a].kind \in kinds THEN 1 ELSE 0)
<1> DEFINE All  == {j \in a .. b : f[j].kind \in kinds}
           Rest == {j \in a + 1 .. b : f[j].kind \in kinds}
<1>1. IsFiniteSet(a + 1 .. b) /\ IsFiniteSet(a .. b)
  BY FS_Interval
<1>2. IsFiniteSet(Rest) /\ IsFiniteSet(All)
  BY <1>1, FS_Subset
<1>3. All = IF f[a].kind \in kinds THEN Rest \union {a} ELSE Rest
  OBVIOUS
<1>4. a \notin Rest
  OBVIOUS
<1> HIDE DEF All, Rest
<1>5. Cardinality(Rest) \in Nat /\ Cardinality(All) \in Nat
  BY <1>2, FS_CardinalityType
<1>6. Cardinality(Rest \union {a}) = Cardinality(Rest) + 1
  BY <1>2, <1>4, FS_AddElement
<1>7. Cardinality(All) = Cardinality(Rest) + (IF f[a].kind \in kinds THEN 1 ELSE 0)
  BY <1>3, <1>5, <1>6
<1> QED
  BY <1>5, <1>7 DEF All, Rest

LEMMA WithLast ==
  ASSUME NEW f, NEW kinds, NEW b \in Nat \ {0}
  PROVE  /\ Cardinality({j \in 1 .. b - 1 : f[j].kind \in kinds}) \in Nat
         /\ Cardinality({j \in 1 .. b : f[j].kind \in kinds})
              = Cardinality({j \in 1 .. b - 1 : f[j].kind \in kinds})
                  + (IF f[b].kind \in kinds THEN 1 ELSE 0)
<1> DEFINE All  == {j \in 1 .. b : f[j].kind \in kinds}
           Rest == {j \in 1 .. b - 1 : f[j].kind \in kinds}
<1>1. IsFiniteSet(1 .. b - 1) /\ IsFiniteSet(1 .. b)
  BY FS_Interval
<1>2. IsFiniteSet(Rest) /\ IsFiniteSet(All)
  BY <1>1, FS_Subset
<1>3. All = IF f[b].kind \in kinds THEN Rest \union {b} ELSE Rest
  OBVIOUS
<1>4. b \notin Rest
  OBVIOUS
<1> HIDE DEF All, Rest
<1>5. Cardinality(Rest) \in Nat /\ Cardinality(All) \in Nat
  BY <1>2, FS_CardinalityType
<1>6. Cardinality(Rest \union {b}) = Cardinality(Rest) + 1
  BY <1>2, <1>4, FS_AddElement
<1>7. Cardinality(All) = Cardinality(Rest) + (IF f[b].kind \in kinds THEN 1 ELSE 0)
  BY <1>3, <1>5, <1>6
<1> QED
  BY <1>5, <1>7 DEF All, Rest

LEMMA PassedType == Shape => \A K : Passed(K) \in Nat
<1> SUFFICES ASSUME Shape, NEW K PROVE Passed(K) \in Nat
  OBVIOUS
<1>1. pos \in Nat \ {0}
  BY DEF Shape
<1> QED
  BY <1>1, WithLast DEF Passed

-----------------------------------------------------------------------------
LEMMA InvInit == Init => LInv
<1> SUFFICES ASSUME Init PROVE LInv
  OBVIOUS
<1>1. file \in Seq(Decls)
  BY LoaderAssumption DEF Init
<1>2. Shape
  BY <1>1 DEF Init, Shape
<1>3. CountsSoFar
  <2>1. \A kinds : {j \in 1 .. pos - 1 : file[j].kind \in kinds} = {}
    BY DEF Init
  <2> QED
    BY <2>1, FS_EmptySet DEF Init, CountsSoFar, Passed
<1>4. CountsAgree
  BY DEF Init, CountsAgree
<1> QED
  BY <1>2, <1>3, <1>4 DEF LInv

(* A step that ends the loading.                                           *)
LEMMA InvEnds ==
  ASSUME LInv, UNCHANGED <<file, pos, nnodes, nwires, vmVars>>,
         pc' \notin {"count", "build"}
  PROVE  LInv'
BY DEF LInv, Shape, CountsSoFar, CountsAgree, vmVars

(* The first pass at a declaration that it counts.                         *)
LEMMA InvCount ==
  ASSUME LInv, NEW kinds, At("count", kinds), NextDecl, UNCHANGED vmVars,
         nnodes' = nnodes + (IF file[pos].kind \in NodeKinds THEN 1 ELSE 0),
         nwires' = nwires + (IF file[pos].kind \in {"wire"} THEN 1 ELSE 0)
  PROVE  LInv'
<1>1. Shape'
  BY DEF LInv, Shape, At, NextDecl, vmVars
<1>2. \A K : Passed(K)' = Passed(K) + (IF file[pos].kind \in K THEN 1 ELSE 0)
  <2> SUFFICES ASSUME NEW K
               PROVE  Passed(K)' = Passed(K) + (IF file[pos].kind \in K THEN 1 ELSE 0)
    OBVIOUS
  <2>1. pos \in Nat \ {0} /\ pos' - 1 = pos /\ file' = file
    BY DEF LInv, Shape, At, NextDecl
  <2> QED
    BY <2>1, WithLast DEF Passed
<1>3. \A K : Passed(K) \in Nat
  BY PassedType DEF LInv
<1>4. CountsSoFar'
  BY <1>2, <1>3 DEF LInv, Shape, CountsSoFar, At, NextDecl, vmVars
<1>5. CountsAgree'
  BY DEF CountsAgree, At, NextDecl
<1> QED
  BY <1>1, <1>4, <1>5 DEF LInv

LEMMA InvRewind == LInv /\ Rewind => LInv'
<1> SUFFICES ASSUME LInv, Rewind PROVE LInv'
  OBVIOUS
<1>1. Shape'
  <2>1. nodes' \in Seq({[type |-> "IO_NODE", code |-> "none"]})
    BY DEF Rewind
  <2>2. \E S : nodes' \in Seq(S)
    BY <2>1, Zenon
  <2> QED
    BY <2>2 DEF LInv, Shape, Rewind
<1>2. \A K : Left(K)' = Passed(K)
  <2>1. pos' = 1 /\ pos - 1 = Len(file) /\ file' = file
    BY DEF LInv, Shape, Rewind
  <2> QED
    BY <2>1 DEF Left, Passed
<1>3. Len(nodes') = 1
  BY DEF Rewind
<1>4. CountsAgree'
  <2>1. Passed({"wire"}) \in Nat
    BY PassedType DEF LInv
  <2>2. nnodes' = 1 + Passed(NodeKinds) /\ nwires' = Passed({"wire"}) /\ nwired' = 0
    BY DEF LInv, CountsSoFar, Rewind
  <2>3. Left(NodeKinds)' = Passed(NodeKinds) /\ Left({"wire"})' = Passed({"wire"})
    BY <1>2
  <2> QED
    BY <1>3, <2>1, <2>2, <2>3 DEF CountsAgree
<1>5. CountsSoFar'
  BY DEF CountsSoFar, Rewind
<1> QED
  BY <1>1, <1>4, <1>5 DEF LInv

-----------------------------------------------------------------------------
(* The second pass at a declaration: what is left, with it and without.    *)
LEMMA LeftFacts ==
  ASSUME LInv, NEW kinds, At("build", kinds)
  PROVE  \A K : /\ Left(K) \in Nat
                /\ NextDecl =>
                     /\ Left(K)' \in Nat
                     /\ Left(K) = Left(K)' + (IF file[pos].kind \in K THEN 1 ELSE 0)
<1> SUFFICES ASSUME NEW K
             PROVE  /\ Left(K) \in Nat
                    /\ NextDecl =>
                         /\ Left(K)' \in Nat
                         /\ Left(K) = Left(K)' + (IF file[pos].kind \in K THEN 1 ELSE 0)
  OBVIOUS
<1>1. pos \in Nat /\ Len(file) \in Nat /\ pos <= Len(file)
  BY DEF LInv, Shape, At
<1>2. NextDecl => file' = file /\ pos' = pos + 1
  BY DEF NextDecl
<1> DEFINE Later == Cardinality({j \in pos + 1 .. Len(file) : file[j].kind \in K})
<1>3. /\ Left(K) \in Nat /\ Later \in Nat
      /\ Left(K) = Later + (IF file[pos].kind \in K THEN 1 ELSE 0)
  <2> DEFINE All == Cardinality({j \in pos .. Len(file) : file[j].kind \in K})
  <2>1. /\ All \in Nat /\ Later \in Nat
        /\ All = Later + (IF file[pos].kind \in K THEN 1 ELSE 0)
    <3>1. CASE file[pos].kind \in K
      BY <1>1, <3>1, WithFirst
    <3>2. CASE file[pos].kind \notin K
      BY <1>1, <3>2, WithFirst
    <3> QED
      BY <3>1, <3>2
  <2>2. Left(K) = All
    BY DEF Left
  <2> HIDE DEF All, Later
  <2> QED
    BY <2>1, <2>2
<1>4. NextDecl => Left(K)' = Later
  BY <1>2 DEF Left
<1> QED
  BY <1>3, <1>4

(* The declaration that is next is one of those that are left.             *)
LEMMA OneIsLeft ==
  ASSUME LInv, NEW K, pos <= Len(file), file[pos].kind \in K
  PROVE  Left(K) \in Nat \ {0}
<1>1. pos \in Nat /\ Len(file) \in Nat
  BY DEF LInv, Shape
<1>2. /\ Left(K) \in Nat
      /\ Cardinality({j \in pos + 1 .. Len(file) : file[j].kind \in K}) \in Nat
      /\ Left(K) = Cardinality({j \in pos + 1 .. Len(file) : file[j].kind \in K}) + 1
  BY <1>1, WithFirst DEF Left
<1> QED
  BY <1>2

(* add_node() has room for the node, and leaves no more of it than needed. *)
LEMMA InvAddNode ==
  ASSUME LInv, NEW kinds, kinds \subseteq NodeKinds, At("build", kinds),
         NEW type, NEW code, NEW rule, NEW d, add_node(type, code, rule, d)
  PROVE  LInv' /\ NextDecl
<1>1. PICK S : nodes \in Seq(S)
  BY DEF LInv, Shape
<1>2. file[pos].kind \in NodeKinds
  BY DEF At
<1>3. /\ file[pos].kind \in NodeKinds /\ file[pos].kind \notin {"wire"}
      /\ pos \in Nat /\ Len(file) \in Nat /\ pos <= Len(file)
      /\ pc = "build"
  BY <1>2 DEF LInv, Shape, At, NodeKinds
<1>4. Len(nodes) < nnodes
  <2>1. nnodes = Len(nodes) + Left(NodeKinds) /\ Len(nodes) \in Nat
    BY <1>1, <1>3 DEF LInv, CountsAgree
  <2>2. Left(NodeKinds) \in Nat \ {0}
    BY <1>3, OneIsLeft
  <2> QED
    BY <2>1, <2>2
<1>5. /\ nodes' = Append(nodes, [type |-> type, code |-> code])
      /\ NextDecl /\ UNCHANGED <<nnodes, nwires, nwired>>
  BY <1>4 DEF add_node
<1> DEFINE T == S \union {[type |-> type, code |-> code]}
<1>6. nodes \in Seq(T) /\ nodes' \in Seq(T) /\ Len(nodes') = Len(nodes) + 1
  BY <1>1, <1>5
<1>7. Shape'
  BY <1>3, <1>5, <1>6 DEF LInv, Shape, NextDecl
<1>8. CountsAgree'
  <2>1. /\ Left(NodeKinds)' \in Nat /\ Left(NodeKinds) = Left(NodeKinds)' + 1
        /\ Left({"wire"})' = Left({"wire"})
    BY <1>3, <1>5, LeftFacts
  <2>2. nnodes = Len(nodes) + Left(NodeKinds) /\ nwires = nwired + Left({"wire"})
    BY <1>3 DEF LInv, CountsAgree
  <2>3. Len(nodes) \in Nat
    BY <1>1
  <2> QED
    BY <1>5, <1>6, <2>1, <2>2, <2>3 DEF CountsAgree
<1>9. CountsSoFar'
  BY <1>3, <1>5 DEF CountsSoFar, NextDecl
<1> QED
  BY <1>5, <1>7, <1>8, <1>9 DEF LInv

LEMMA InvAddWire ==
  ASSUME LInv, At("build", {"wire"}),
         NEW n1, NEW p1, NEW n2, NEW p2, NEW d, add_wire(n1, p1, n2, p2, d)
  PROVE  LInv' /\ NextDecl
<1>1. /\ file[pos].kind \in {"wire"} /\ file[pos].kind \notin NodeKinds
      /\ pos \in Nat /\ Len(file) \in Nat /\ pos <= Len(file)
      /\ pc = "build"
  BY DEF LInv, Shape, At, NodeKinds
<1>2. nwired < nwires
  <2>1. nwires = nwired + Left({"wire"})
    BY <1>1 DEF LInv, CountsAgree
  <2>2. Left({"wire"}) \in Nat \ {0}
    BY <1>1, OneIsLeft
  <2> QED
    BY <2>1, <2>2 DEF LInv, Shape
<1>3. nwired' = nwired + 1 /\ NextDecl /\ UNCHANGED <<nnodes, nwires, nodes>>
  BY <1>2 DEF add_wire
<1>4. Shape'
  BY <1>1, <1>3 DEF LInv, Shape, NextDecl
<1>5. CountsAgree'
  <2>1. /\ Left({"wire"})' \in Nat /\ Left({"wire"}) = Left({"wire"})' + 1
        /\ Left(NodeKinds)' = Left(NodeKinds)
    BY <1>1, <1>3, LeftFacts
  <2>2. nnodes = Len(nodes) + Left(NodeKinds) /\ nwires = nwired + Left({"wire"})
    BY <1>1 DEF LInv, CountsAgree
  <2>3. nwired \in Nat
    BY DEF LInv, Shape
  <2> QED
    BY <1>3, <2>1, <2>2, <2>3 DEF CountsAgree
<1>6. CountsSoFar'
  BY <1>1, <1>3 DEF CountsSoFar, NextDecl
<1> QED
  BY <1>3, <1>4, <1>5, <1>6 DEF LInv

-----------------------------------------------------------------------------
LEMMA InvReject == LInv /\ (Reject \/ Abort) => LInv' /\ pc' \in {"rejected", "aborted"}
BY InvEnds DEF Reject, Abort

(* A step of the second pass keeps the invariant, and aborts at a copy     *)
(* only.                                                                   *)
LEMMA InvBuild ==
  ASSUME LInv, ScanProcessor \/ ScanCopy \/ ScanBuffer \/ ScanStack \/ ScanWire
  PROVE  LInv' /\ (pc' = "aborted" => file'[pos'].kind = "copy")
<1>1. ASSUME NEW kinds, kinds \subseteq NodeKinds, At("build", kinds),
             NEW type, NEW code, NEW rule, NEW d, add_node(type, code, rule, d)
      PROVE  LInv' /\ pc' # "aborted"
  BY <1>1, InvAddNode DEF At, NextDecl
<1>2. CASE ScanProcessor
  <2>1. At("build", {"processor"}) /\ {"processor"} \subseteq NodeKinds
    BY <1>2 DEF ScanProcessor, NodeKinds
  <2>2. CASE Reject
    BY <2>2, InvReject DEF Reject
  <2>3. CASE NewNode("PROC_NODE", file[pos].name, file[pos].name, file[pos].ports, TRUE)
    <3>1. \E code, rule, d : add_node("PROC_NODE", code, rule, d)
      BY <2>3, Zenon DEF NewNode
    <3> QED
      BY <1>1, <2>1, <3>1
  <2> QED
    BY <1>2, <2>2, <2>3 DEF ScanProcessor
<1>3. CASE ScanCopy
  <2>1. At("build", {"copy"}) /\ {"copy"} \subseteq NodeKinds /\ file[pos].kind = "copy"
    BY <1>3 DEF ScanCopy, NodeKinds, At
  <2>2. CASE Reject
    BY <2>2, InvReject DEF Reject
  <2>3. ASSUME NEW node, NEW rule, NEW d, CopyOf(node, rule, d)
        PROVE  LInv' /\ (pc' = "aborted" => file'[pos'].kind = "copy")
    <3>1. CASE Abort
      BY <2>1, <3>1, InvReject DEF Abort
    <3>2. CASE \E code : add_node("PROC_NODE", code, rule, d)
      BY <1>1, <2>1, <3>2
    <3> QED
      BY <2>3, <3>1, <3>2 DEF CopyOf
  <2> QED
    BY <1>3, <2>2, <2>3 DEF ScanCopy
<1>4. CASE ScanBuffer
  <2>1. At("build", {"buffer"}) /\ {"buffer"} \subseteq NodeKinds
    BY <1>4 DEF ScanBuffer, NodeKinds
  <2>2. \E code, rule, d : add_node("BUFFER_NODE", code, rule, d)
    BY <1>4, Zenon DEF ScanBuffer, NewNode
  <2> QED
    BY <1>1, <2>1, <2>2
<1>5. CASE ScanStack
  <2>1. At("build", {"stack"}) /\ {"stack"} \subseteq NodeKinds
    BY <1>5 DEF ScanStack, NodeKinds
  <2>2. \E code, rule, d : add_node("STACK_NODE", code, rule, d)
    BY <1>5, Zenon DEF ScanStack, NewNode
  <2> QED
    BY <1>1, <2>1, <2>2
<1>6. CASE ScanWire
  <2>1. At("build", {"wire"})
    BY <1>6 DEF ScanWire
  <2>2. CASE Reject
    BY <2>2, InvReject DEF Reject
  <2>3. CASE \E n1, p1, n2, p2, d : add_wire(n1, p1, n2, p2, d)
    BY <2>1, <2>3, InvAddWire DEF At, NextDecl
  <2> QED
    BY <1>6, <2>2, <2>3 DEF ScanWire
<1> QED
  BY <1>2, <1>3, <1>4, <1>5, <1>6

LEMMA InvNext == LInv /\ ArraysSuffice /\ [Next]_vars => LInv' /\ ArraysSuffice'
<1> SUFFICES ASSUME LInv, ArraysSuffice, [Next]_vars PROVE LInv' /\ ArraysSuffice'
  OBVIOUS
<1>1. CASE UNCHANGED vars
  BY <1>1 DEF vars, LInv, Shape, CountsSoFar, CountsAgree, ArraysSuffice, Passed, Left
<1>2. CASE CountNode
  <2>1. file[pos].kind \in NodeKinds /\ file[pos].kind \notin {"wire"}
    BY <1>2 DEF CountNode, At, NodeKinds
  <2>2. nwires \in Nat
    BY DEF LInv, Shape
  <2>3. LInv'
    BY <1>2, <2>1, <2>2, InvCount DEF CountNode
  <2> QED
    BY <1>2, <2>3 DEF CountNode, At, NextDecl, ArraysSuffice
<1>3. CASE CountWire
  <2>1. file[pos].kind \notin NodeKinds /\ file[pos].kind \in {"wire"}
    BY <1>3 DEF CountWire, At, NodeKinds
  <2>2. nnodes \in Nat
    BY DEF LInv, Shape
  <2>3. LInv'
    BY <1>3, <2>1, <2>2, InvCount DEF CountWire
  <2> QED
    BY <1>3, <2>3 DEF CountWire, At, NextDecl, ArraysSuffice
<1>4. CASE CountGarbage
  BY <1>4, InvReject DEF CountGarbage, Reject, ArraysSuffice
<1>5. CASE CountGarbageForEver \/ Ended
  BY <1>1, <1>5 DEF CountGarbageForEver, Ended
<1>6. CASE Rewind
  BY <1>6, InvRewind DEF Rewind, ArraysSuffice
<1>7. CASE RewindFails
  BY <1>7, InvReject DEF RewindFails, Abort, ArraysSuffice
<1>8. CASE ScanProcessor \/ ScanCopy \/ ScanBuffer \/ ScanStack \/ ScanWire
  BY <1>8, InvBuild DEF ArraysSuffice
<1>9. CASE Run
  BY <1>9, InvEnds DEF Run, ArraysSuffice
<1> QED
  BY <1>1, <1>2, <1>3, <1>4, <1>5, <1>6, <1>7, <1>8, <1>9 DEF Next

LEMMA Inductive == Spec => [](LInv /\ ArraysSuffice)
<1>1. Init => LInv /\ ArraysSuffice
  BY InvInit DEF Init, ArraysSuffice
<1> QED
  BY <1>1, InvNext, PTL DEF Spec

(* noded reads a file twice, and the second pass finds what the first one  *)
(* has counted: at any time the arrays of vm_init() have just enough room  *)
(* for the nodes and wires that the file has still to declare.             *)
THEOREM PassesCountTheSame == Spec => []CountsAgree
<1>1. LInv /\ ArraysSuffice => CountsAgree
  BY DEF LInv
<1> QED
  BY <1>1, Inductive, PTL

(* Once a file could be rewound, neither add_node() nor add_wire() ends    *)
(* noded for want of room: only copy_proc_node() may.                      *)
THEOREM ArraysNeverFull == Spec => []ArraysSuffice
BY Inductive, PTL

-----------------------------------------------------------------------------
(* The least of some numbers: induction rests on it.                       *)
LEMMA LeastOf ==
  ASSUME NEW T, T \subseteq Nat, T # {}
  PROVE  First(T) \in T /\ \A j \in T : First(T) <= j
<1>1. IsWellFoundedOn({ss \in Nat \X Nat : ss[1] < ss[2]}, Nat)
  BY NatLessThanWellFounded DEF OpToRel
<1>2. PICK x \in T : \A y \in T : ~ (<<y, x>> \in {ss \in Nat \X Nat : ss[1] < ss[2]})
  BY <1>1, WFMin
<1>3. \A y \in T : ~(y < x)
  BY <1>2
<1>4. \A y \in T : x <= y
  BY <1>3
<1> QED
  BY <1>4 DEF First

-----------------------------------------------------------------------------
(* The dictionary: a name has one id, and keeps it when others are added.  *)
Dict(d)       == d \in Seq(Symbols) /\ IsInjective(d)
Grows(d, e)   == Len(d) <= Len(e) /\ \A k \in 1 .. Len(d) : e[k] = d[k]

LEMMA GrowsOn ==
  ASSUME NEW c, NEW d, NEW e, Dict(c), Dict(d), Dict(e), Grows(c, d), Grows(d, e)
  PROVE  Grows(c, e)
<1>1. Len(c) \in Nat /\ Len(d) \in Nat /\ Len(e) \in Nat
  BY LenProperties DEF Dict
<1> QED
  BY <1>1 DEF Grows

LEMMA StillKnown ==
  ASSUME NEW d, NEW e, Dict(d), Dict(e), Grows(d, e), NEW s, Contains(d, s)
  PROVE  Contains(e, s)
<1>1. Len(d) \in Nat /\ Len(e) \in Nat
  BY LenProperties DEF Dict
<1> QED
  BY <1>1 DEF Grows, Contains

LEMMA SymId ==
  ASSUME NEW d, Dict(d), NEW s, Contains(d, s)
  PROVE  /\ sym_id(d, s) \in 0 .. Len(d) - 1
         /\ \A i \in 0 .. Len(d) - 1 : d[i + 1] = s <=> i = sym_id(d, s)
<1>1. DOMAIN d = 1 .. Len(d) /\ Len(d) \in Nat
  BY LenProperties DEF Dict
<1> DEFINE T == {k \in DOMAIN d : d[k] = s}
<1>2. T \subseteq Nat /\ T # {}
  BY <1>1 DEF Contains
<1>3. First(T) \in T
  BY <1>2, LeastOf
<1>4. First(T) \in 1 .. Len(d) /\ d[First(T)] = s
  BY <1>1, <1>3
<1>5. sym_id(d, s) = First(T) - 1
  BY DEF sym_id
<1> HIDE DEF T
<1>6. \A j, k \in 1 .. Len(d) : d[j] = d[k] => j = k
  BY <1>1 DEF Dict, IsInjective
<1> QED
  BY <1>1, <1>4, <1>5, <1>6

LEMMA Learns ==
  ASSUME NEW d, Dict(d), NEW s \in Symbols
  PROVE  /\ Dict(Learn(d, s))
         /\ Grows(d, Learn(d, s))
         /\ Contains(Learn(d, s), s)
<1>1. DOMAIN d = 1 .. Len(d) /\ Len(d) \in Nat /\ d \in Seq(Symbols)
  BY LenProperties DEF Dict
<1>2. CASE Contains(d, s)
  BY <1>1, <1>2 DEF Learn, Grows
<1>3. CASE ~ Contains(d, s)
  <2> DEFINE e == Append(d, s)
  <2>1. /\ e \in Seq(Symbols) /\ Len(e) = Len(d) + 1
        /\ \A i \in 1 .. Len(d) : e[i] = d[i]
        /\ e[Len(d) + 1] = s
    BY <1>1, AppendProperties
  <2>2. Learn(d, s) = e
    BY <1>3 DEF Learn
  <2> HIDE DEF e
  <2>3. DOMAIN e = 1 .. Len(d) + 1
    BY <2>1, LenProperties
  <2>4. \A i \in 1 .. Len(d) : d[i] # s
    BY <1>3 DEF Contains
  <2>5. \A j, k \in 1 .. Len(d) : d[j] = d[k] => j = k
    BY <1>1 DEF Dict, IsInjective
  <2>6. ASSUME NEW j \in 1 .. Len(d) + 1, NEW k \in 1 .. Len(d) + 1, e[j] = e[k]
        PROVE  j = k
    <3>1. CASE j = Len(d) + 1
      BY <1>1, <2>1, <2>4, <2>6, <3>1
    <3>2. CASE k = Len(d) + 1
      BY <1>1, <2>1, <2>4, <2>6, <3>2
    <3>3. CASE j \in 1 .. Len(d) /\ k \in 1 .. Len(d)
      BY <2>1, <2>5, <2>6, <3>3
    <3> QED
      BY <1>1, <3>1, <3>2, <3>3
  <2>7. IsInjective(e)
    BY <2>3, <2>6 DEF IsInjective
  <2> QED
    BY <1>1, <2>1, <2>2, <2>7 DEF Dict, Grows, Contains
<1> QED
  BY <1>2, <1>3

(* The dictionary after each of some names.                                *)
Interning(g, n, d, names) ==
  /\ g[0] = d
  /\ \A k \in 1 .. n : g[k] = Learn(g[k - 1], names[k])

LEMMA Internable ==
  ASSUME NEW d, NEW names, NEW n \in Nat
  PROVE  \E g : DOMAIN g = 0 .. n /\ Interning(g, n, d, names)
<1> DEFINE Exists(m) == \E g : DOMAIN g = 0 .. m /\ Interning(g, m, d, names)
           Fails == {m \in Nat : ~ Exists(m)}
<1>1. Exists(0)
  <2> DEFINE g == [k \in 0 .. 0 |-> d]
  <2>1. DOMAIN g = 0 .. 0 /\ g[0] = d
    OBVIOUS
  <2> HIDE DEF g
  <2>2. Interning(g, 0, d, names)
    BY <2>1 DEF Interning
  <2> QED
    BY <2>1, <2>2
<1>2. CASE Fails # {}
  <2> DEFINE m == First(Fails)
  <2>1. m \in Fails /\ \A j \in Fails : m <= j
    <3> HIDE DEF Exists
    <3> QED
      BY <1>2, LeastOf
  <2> HIDE DEF m
  <2>2. m \in Nat /\ ~ Exists(m) /\ m # 0
    BY <1>1, <2>1
  <2>3. Exists(m - 1)
    <3>1. m - 1 \in Nat /\ m - 1 \notin Fails
      BY <2>1, <2>2
    <3> QED
      BY <3>1
  <2>4. PICK g : DOMAIN g = 0 .. m - 1 /\ Interning(g, m - 1, d, names)
    BY <2>3
  <2> DEFINE h == [k \in 0 .. m |-> IF k = m THEN Learn(g[m - 1], names[m]) ELSE g[k]]
  <2>5. h[0] = d
    BY <2>2, <2>4 DEF Interning
  <2>6. ASSUME NEW k \in 1 .. m PROVE h[k] = Learn(h[k - 1], names[k])
    <3>1. h[k - 1] = g[k - 1]
      BY <2>2
    <3>2. CASE k = m
      BY <3>1, <3>2
    <3>3. CASE k # m
      BY <2>2, <2>4, <3>1, <3>3 DEF Interning
    <3> QED
      BY <3>2, <3>3
  <2>7. DOMAIN h = 0 .. m
    OBVIOUS
  <2> HIDE DEF h
  <2>8. Interning(h, m, d, names)
    BY <2>5, <2>6 DEF Interning
  <2> QED
    BY <2>2, <2>7, <2>8
<1> QED
  BY <1>2

LEMMA InternedUnfold ==
  ASSUME NEW d, NEW names, Len(names) \in Nat
  PROVE  \E g : Interning(g, Len(names), d, names) /\ Interned(d, names) = g[Len(names)]
<1> DEFINE body(g) == [k \in 0 .. Len(names) |->
                         IF k = 0 THEN d ELSE Learn(g[k - 1], names[k])]
           after == CHOOSE g : g = body(g)
<1>1. PICK g : DOMAIN g = 0 .. Len(names) /\ Interning(g, Len(names), d, names)
  BY Internable
<1> DEFINE h == [k \in 0 .. Len(names) |-> g[k]]
<1>2. \A k \in 0 .. Len(names) : h[k] = body(h)[k]
  BY <1>1 DEF Interning
<1>3. h = body(h)
  <2>1. h = [k \in 0 .. Len(names) |-> h[k]] /\ body(h) = [k \in 0 .. Len(names) |-> body(h)[k]]
    OBVIOUS
  <2> HIDE DEF h, body
  <2> QED
    BY <1>2, <2>1
<1>4. after = body(after)
  <2> HIDE DEF body, h
  <2> QED
    BY <1>3
<1>5. Interning(after, Len(names), d, names)
  <2> HIDE DEF after
  <2> QED
    BY <1>4 DEF Interning
<1>6. Interned(d, names) = after[Len(names)]
  BY DEF Interned
<1> QED
  BY <1>5, <1>6

LEMMA Interns ==
  ASSUME NEW d, Dict(d), NEW names \in Seq(Symbols)
  PROVE  /\ Dict(Interned(d, names))
         /\ Grows(d, Interned(d, names))
         /\ \A k \in 1 .. Len(names) : Contains(Interned(d, names), names[k])
<1>1. Len(names) \in Nat /\ \A k \in 1 .. Len(names) : names[k] \in Symbols
  BY LenProperties, ElementOfSeq
<1>2. PICK g : Interning(g, Len(names), d, names) /\ Interned(d, names) = g[Len(names)]
  BY <1>1, InternedUnfold
<1> DEFINE Right(m) == /\ Dict(g[m]) /\ Grows(d, g[m])
                       /\ \A k \in 1 .. m : Contains(g[m], names[k])
           Wrong == {m \in 0 .. Len(names) : ~ Right(m)}
<1>3. CASE Wrong # {}
  <2> DEFINE m == First(Wrong)
  <2>1. m \in Wrong /\ \A j \in Wrong : m <= j
    <3> HIDE DEF Right
    <3>1. Wrong \subseteq Nat
      BY <1>1
    <3> QED
      BY <1>3, <3>1, LeastOf
  <2> HIDE DEF m
  <2>2. m \in 0 .. Len(names) /\ ~ Right(m)
    BY <2>1
  <2>3. m # 0
    <3>1. Right(0)
      BY <1>2, LenProperties DEF Interning, Grows, Dict
    <3> QED
      BY <2>2, <3>1
  <2>4. Right(m - 1)
    <3>1. m - 1 \in 0 .. Len(names) /\ m - 1 \notin Wrong
      BY <1>1, <2>1, <2>2, <2>3
    <3> QED
      BY <3>1
  <2>5. g[m] = Learn(g[m - 1], names[m]) /\ names[m] \in Symbols
    BY <1>1, <1>2, <2>2, <2>3 DEF Interning
  <2>6. Dict(g[m]) /\ Grows(g[m - 1], g[m]) /\ Contains(g[m], names[m])
    BY <2>4, <2>5, Learns
  <2>7. Grows(d, g[m]) /\ \A s : Contains(g[m - 1], s) => Contains(g[m], s)
    BY <2>4, <2>6, GrowsOn, StillKnown
  <2>8. \A k \in 1 .. m : Contains(g[m], names[k])
    <3> SUFFICES ASSUME NEW k \in 1 .. m PROVE Contains(g[m], names[k])
      OBVIOUS
    <3>1. CASE k = m
      BY <2>6, <3>1
    <3>2. CASE k # m
      BY <1>1, <2>2, <2>4, <2>7, <3>2
    <3> QED
      BY <3>1, <3>2
  <2> QED
    BY <2>2, <2>6, <2>7, <2>8
<1>4. CASE Wrong = {}
  <2>1. Right(Len(names))
    BY <1>1, <1>4
  <2> QED
    BY <1>2, <2>1
<1> QED
  BY <1>3, <1>4
=============================================================================
