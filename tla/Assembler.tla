------------------------------ MODULE Assembler ------------------------------
(***************************************************************************)
(* What the compiler does to the bytecode: instructions are appended, and  *)
(* jumps are patched when their target is known.  A scope keeps the breaks *)
(* that wait for theirs.                                                   *)
(***************************************************************************)
EXTENDS Bytecode, SequencesExt

(* How the compiler itself ends early.                                     *)
Dies(c, fate)  == [c EXCEPT !.fate = IF @ = "ok" THEN fate ELSE @, !.toks = << >>]

-----------------------------------------------------------------------------
(* Instructions.                                                           *)
Emit(c, bytes)  == [c EXCEPT !.code = @ \o bytes]
AsmOps(c, ops)  == Emit(c, [k \in DOMAIN ops |-> OP[ops[k]]])
AsmOp(c, op)    == AsmOps(c, <<op>>)
AsmPush(c, val) == Emit(c, <<OP["PUSH"], val>>)
AsmVar(c, op, idx) == Emit(c, <<OP[op] + idx>>)

Returns(c, expr) == [c EXCEPT !.expr = expr]

UINT16_MAX == (UINT8_MAX + 1) * (UINT8_MAX + 1) - 1

Here(c)  == Len(c.code) % (UINT16_MAX + 1)
Low(a)   == a % (UINT8_MAX + 1)
High(a)  == (a \div (UINT8_MAX + 1)) % (UINT8_MAX + 1)

(* The two bytes at each of the places slots, counted from 0.              *)
Patched(code, slots, addr) ==
  [k \in DOMAIN code |-> IF k - 1 \in slots THEN Low(addr)
                         ELSE IF k - 2 \in slots THEN High(addr) ELSE code[k]]

PatchAll(c, slots, addr) == [c EXCEPT !.code = Patched(@, slots, addr)]

PatchAddr(c, idx, addr) == PatchAll(c, {idx}, addr)
PatchHere(c, idx) == PatchAddr(c, idx, Here(c))

AsmJump(c, op, addr) == Emit(c, <<OP[op], Low(addr), High(addr)>>)

(* asm_jump2() reserves the address and returns where it is: JumpSlot of   *)
(* the context before it.                                                  *)
AsmJump2(c, op) == AsmJump(c, op, 0)

(* Defect: asm_jump2() returns the address of the opcode.                  *)
JumpSlotAtOpcode(c) == Here(c)

JumpSlot(c)     == Here(c) + 1

(* Defect: the value of an expression statement stays on the stack.        *)
PopValueNever(c) == c

PopValue(c) == IF c.expr.type = "EXPR_NORMAL" THEN AsmOp(c, "POP") ELSE c

-----------------------------------------------------------------------------
(* Scopes: c.loops holds the chain from ctx->scope, outermost first.       *)
PushScope(c) ==
  [c EXCEPT !.loops = Append(@, [breaks |-> {}, cont |-> Here(c), freed |-> FALSE])]

Depth(c) == Len(c.loops)
Scope(c) == c.loops[Depth(c)]

(* What happens to a compiler that looks into ctx->scope.                  *)
InScope(c, next) ==
  IF Depth(c) = 0 THEN Dies(c, "crash")
  ELSE IF Scope(c).freed THEN Dies(c, "undefined") ELSE next

AsmBreak(c, op) ==
  InScope(c, [AsmJump2(c, op) EXCEPT !.loops[Depth(c)].breaks = @ \union {JumpSlot(c)}])

AsmContinue(c, op) == InScope(c, AsmJump(c, op, Scope(c).cont))

(* Defect: a break goes to where continue goes.                            *)
PopScopeToStart(c) ==
  LET patched == PatchAll(c, Scope(c).breaks, Scope(c).cont)
  IN  InScope(c, [patched EXCEPT !.loops = Front(c.loops)])

(* pop_scope() frees ctx->scope after it has become the parent.            *)
PopScope(c) ==
  LET patched == PatchAll(c, Scope(c).breaks, Here(c))
      parents == Front(c.loops)
  IN  InScope(c, [patched EXCEPT !.loops =
        IF parents = << >> THEN parents
        ELSE [parents EXCEPT ![Len(parents)].freed = TRUE]])
=============================================================================
