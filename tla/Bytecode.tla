------------------------------ MODULE Bytecode ------------------------------
(***************************************************************************)
(* The instruction set: the opcodes in the order of their enumeration, and *)
(* what the arithmetic of tick() leaves in a byte.                         *)
(***************************************************************************)
EXTENDS Limits, Sequences

ASSUME BytecodeAssumption == UINT8_MAX = 255

(* OP_INVALID is 0, the next one 1 and so on.                              *)
Opcode == <<
  "NOOP", "PUSH", "DUP", "POP", "NEG", "LNOT", "NOT",
  "LOR", "LAND", "OR", "XOR", "AND", "EQL", "LSS", "LTE", "SHL", "SHR",
  "ADD", "SUB", "MUL", "DIV", "MOD", "JMP", "FJMP",
  "LOAD0", "LOAD1", "LOAD2", "LOAD3", "SAVE0", "SAVE1", "SAVE2", "SAVE3",
  "SEND0", "SEND1", "SEND2", "SEND3", "RECV0", "RECV1", "RECV2", "RECV3",
  "HALT" >>

OP == [name \in {Opcode[k] : k \in DOMAIN Opcode} |->
         CHOOSE k \in DOMAIN Opcode : Opcode[k] = name]

(* The four opcodes for the variables, or the ports, from 0 to 3.          *)
Family(first) == OP[first] .. OP[first] + 3

(* An instruction with its operands.                                       *)
Size(op) == IF op \in {OP["JMP"], OP["FJMP"]} THEN 3 ELSE IF op = OP["PUSH"] THEN 2 ELSE 1

Unary  == {OP["NEG"], OP["LNOT"], OP["NOT"]}
Binary == OP["LOR"] .. OP["MOD"]

-----------------------------------------------------------------------------

(* Defect: results wider than a byte.                                      *)
WrapNot(x) == x

Wrap(x) == x % (UINT8_MAX + 1)

TRUTH == UINT8_MAX      \* 0xFF
Truth(b) == IF b THEN TRUTH ELSE 0

(* The bits that two bytes have in common.                                 *)
Bit(x, weight) == (x \div weight) % 2
Common(x, y, weight) == IF Bit(x, weight) = 1 /\ Bit(y, weight) = 1 THEN weight ELSE 0
BitAnd(x, y) ==
  Common(x, y, 1) + Common(x, y, 2) + Common(x, y, 4) + Common(x, y, 8)
    + Common(x, y, 16) + Common(x, y, 32) + Common(x, y, 64) + Common(x, y, 128)

PowerOf2 == <<1, 2, 4, 8, 16, 32, 64, 128>>

UnaryResult(op, a) ==
  CASE op = OP["NEG"]  -> Wrap(-a)
    [] op = OP["LNOT"] -> Truth(a = 0)
    [] op = OP["NOT"]  -> UINT8_MAX - a

(* The bytes that a binary operator may leave on the stack, for arg1 = a   *)
(* and arg2 = b.  There is none after a division by zero, which ends the   *)
(* process; a shift by the width of an int or more is undefined.  One to   *)
(* the left by less may still leave the int, which C leaves undefined too; *)
(* what compilers make of it shifts the bits, and a byte keeps the low 8.  *)
INT_BITS == 32

BinaryResults(op, a, b) ==
  CASE op = OP["LOR"]  -> {IF a # 0 THEN a ELSE b}
    [] op = OP["LAND"] -> {IF a # 0 THEN b ELSE 0}
    [] op = OP["OR"]   -> {a + b - BitAnd(a, b)}
    [] op = OP["XOR"]  -> {a + b - 2 * BitAnd(a, b)}
    [] op = OP["AND"]  -> {BitAnd(a, b)}
    [] op = OP["EQL"]  -> {Truth(a = b)}
    [] op = OP["LSS"]  -> {Truth(a < b)}
    [] op = OP["LTE"]  -> {Truth(a <= b)}
    [] op = OP["SHL"]  -> IF b >= INT_BITS THEN Byte
                          ELSE {IF b < 8 THEN Wrap(a * PowerOf2[b + 1]) ELSE 0}
    [] op = OP["SHR"]  -> IF b >= INT_BITS THEN Byte
                          ELSE {IF b < 8 THEN a \div PowerOf2[b + 1] ELSE 0}
    [] op = OP["ADD"]  -> {Wrap(a + b)}
    [] op = OP["SUB"]  -> {Wrap(a - b)}
    [] op = OP["MUL"]  -> {Wrap(a * b)}
    [] op = OP["DIV"]  -> IF b = 0 THEN {} ELSE {a \div b}
    [] op = OP["MOD"]  -> IF b = 0 THEN {} ELSE {a % b}
=============================================================================
