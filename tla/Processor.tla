------------------------------ MODULE Processor -----------------------------
(***************************************************************************)
(* One processor node by itself: what the instructions that stay inside it *)
(* do in tick().                                                           *)
(*                                                                         *)
(* A processor p is a record of its code (every byte that compile()        *)
(* emitted), the offset isp, its stack up to sp and its variables.         *)
(* add_proc_node() gets the length of the code through CodeBlock.size, a   *)
(* uint8_t, so code_end is CodeEnd(p) and not the end of a program of 256  *)
(* bytes or more.                                                          *)
(***************************************************************************)
EXTENDS Bytecode

CONSTANT STACK_SIZE     \* 512 in the code

ASSUME StackAssumption == STACK_SIZE \in Nat \ {0}

(* add_proc_node(): ecalloc() leaves everything but the code zero.         *)
NewProcessor(code) ==
  [code |-> code, isp |-> 0, stack |-> << >>, vars |-> [k \in VarIdx |-> 0]]

CodeEnd(p) == Wrap(Len(p.code))

(* proc->isp[k], and the opcode there.  There is none without code, and    *)
(* none beyond it: the bytes that the allocator put there are undefined,   *)
(* and an invalid opcode stands for them.                                  *)
Fetch(p, k) == p.code[p.isp + k + 1]
Op(p)       == IF p.isp < Len(p.code) THEN Fetch(p, 0) ELSE 0
Addr(p)     == Fetch(p, 1) + Fetch(p, 2) * (UINT8_MAX + 1)

Height(p)  == Len(p.stack)
Top(p)     == p.stack[Height(p)]
Under(p)   == p.stack[Height(p) - 1]
Drop(p, k) == SubSeq(p.stack, 1, Height(p) - k)

(* Defect: push() that compares sp with the end of the stack one too late. *)
PushedOneMore(p, b) == IF Height(p) <= STACK_SIZE THEN {Append(p.stack, b)} ELSE {}

(* The stack after a push(), if there is room for it.                      *)
Pushed(p, b) == IF Height(p) < STACK_SIZE THEN {Append(p.stack, b)} ELSE {}

(* The stack after a pop(), and after k of them and the push() of one of   *)
(* the bytes, if there were so many to pop.                                *)
Popped(p) == IF Height(p) = 0 THEN {} ELSE {Drop(p, 1)}
Replaced(p, k, bytes) ==
  IF Height(p) < k THEN {} ELSE {Append(Drop(p, k), b) : b \in bytes}

IsLocal(op) == op \in OP["NOOP"] .. OP["SAVE3"]

(* The stacks that instruction op may leave: none if it ends the process,  *)
(* by an underflow, an overflow or a division by zero.                     *)
StacksAfter(p, op) ==
  CASE op \in {OP["NOOP"], OP["JMP"]} -> {p.stack}
    [] op = OP["PUSH"] -> Pushed(p, Fetch(p, 1))
    [] op \in Family("LOAD0") -> Pushed(p, p.vars[op - OP["LOAD0"]])
    [] op = OP["DUP"] -> IF Height(p) = 0 THEN {} ELSE Pushed(p, Top(p))
    [] op \in {OP["POP"], OP["FJMP"]} \union Family("SAVE0") -> Popped(p)
    [] op \in Unary  -> Replaced(p, 1, {UnaryResult(op, Top(p))})
    [] op \in Binary -> Replaced(p, 2, BinaryResults(op, Under(p), Top(p)))

VarsAfter(p, op) ==
  IF op \in Family("SAVE0") THEN [p.vars EXCEPT ![op - OP["SAVE0"]] = Top(p)]
  ELSE p.vars

NextAddr(p, op) ==
  CASE op = OP["JMP"]  -> Addr(p)
    [] op = OP["FJMP"] -> IF Top(p) = 0 THEN Addr(p) ELSE p.isp + 3
    [] op = OP["PUSH"] -> p.isp + 2
    [] OTHER           -> p.isp + 1

(* The wrap to the beginning.                                              *)
Wrapped(p, addr) == IF addr = CodeEnd(p) THEN 0 ELSE addr

(* What tick() may make of p at a local instruction.                       *)
LocalSteps(p) ==
  {[p EXCEPT !.stack = s, !.vars = VarsAfter(p, Op(p)),
             !.isp = Wrapped(p, NextAddr(p, Op(p)))] : s \in StacksAfter(p, Op(p))}

(* Defect: OP_SEND without its pop().                                      *)
AfterSendKeepsTop(p) == [p EXCEPT !.isp = Wrapped(p, p.isp + 1)]

(* send() returned true: pop() and go on; recv() did: push() and go on.    *)
AfterSend(p) == [p EXCEPT !.stack = Drop(p, 1), !.isp = Wrapped(p, p.isp + 1)]

AfterRecv(p, dat) ==
  {[p EXCEPT !.stack = s, !.isp = Wrapped(p, p.isp + 1)] : s \in Pushed(p, dat)}

IsSend(p) == Op(p) \in Family("SEND0") /\ Height(p) > 0
IsRecv(p) == Op(p) \in Family("RECV0")

PortAt(p) == IF IsSend(p) THEN Op(p) - OP["SEND0"] ELSE Op(p) - OP["RECV0"]

(* An instruction that ends the process whatever the wires are.            *)
Faults(p) ==
  \/ Op(p) \notin DOMAIN Opcode
  \/ IsLocal(Op(p)) /\ StacksAfter(p, Op(p)) = {}
  \/ Op(p) \in Family("SEND0") /\ Height(p) = 0
=============================================================================
