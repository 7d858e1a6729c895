-------------------------- MODULE ProcessorProofs ---------------------------
(***************************************************************************)
(* Proofs about one processor: what an instruction makes of it, for any    *)
(* bytecode that is well formed, or balanced; and about the assembling of  *)
(* such bytecode, instruction by instruction, jump by jump and loop by     *)
(* loop.                                                                   *)
(***************************************************************************)
EXTENDS Flow, Assembler, SequenceTheorems, FiniteSetTheorems, WellFoundedInduction, TLAPS

-----------------------------------------------------------------------------
(* The numbers of the opcodes.                                             *)
LEMMA Names ==
  ASSUME NEW k \in 1 .. 41
  PROVE  /\ k \in DOMAIN Opcode /\ OP[Opcode[k]] = k
<1>1. DOMAIN Opcode = 1 .. 41
  BY DEF Opcode
<1>2. \A j \in 1 .. 41 : Opcode[j] = Opcode[k] => j = k
  BY DEF Opcode
<1> QED
  BY <1>1, <1>2 DEF OP

LEMMA Numbers ==
  /\ DOMAIN Opcode = 1 .. 41
  /\ OP["NOOP"] = 1 /\ OP["PUSH"] = 2 /\ OP["DUP"] = 3 /\ OP["POP"] = 4
  /\ OP["NEG"] = 5 /\ OP["LNOT"] = 6 /\ OP["NOT"] = 7
  /\ OP["LOR"] = 8 /\ OP["LAND"] = 9 /\ OP["OR"] = 10 /\ OP["XOR"] = 11 /\ OP["AND"] = 12
  /\ OP["EQL"] = 13 /\ OP["LSS"] = 14 /\ OP["LTE"] = 15 /\ OP["SHL"] = 16 /\ OP["SHR"] = 17
  /\ OP["ADD"] = 18 /\ OP["SUB"] = 19 /\ OP["MUL"] = 20 /\ OP["DIV"] = 21 /\ OP["MOD"] = 22
  /\ OP["JMP"] = 23 /\ OP["FJMP"] = 24
  /\ OP["LOAD0"] = 25 /\ OP["SAVE0"] = 29 /\ OP["SAVE3"] = 32
  /\ OP["SEND0"] = 33 /\ OP["RECV0"] = 37 /\ OP["HALT"] = 41
<1>1. DOMAIN Opcode = 1 .. 41
  BY DEF Opcode
<1>2. \A k \in 1 .. 41 : OP[Opcode[k]] = k
  BY Names
<1> QED
  BY <1>1, <1>2 DEF Opcode

LEMMA Families ==
  /\ Family("LOAD0") = 25 .. 28 /\ Family("SAVE0") = 29 .. 32
  /\ Family("SEND0") = 33 .. 36 /\ Family("RECV0") = 37 .. 40
  /\ Unary = 5 .. 7 /\ Binary = 8 .. 22
BY Numbers DEF Family, Unary, Binary

-----------------------------------------------------------------------------
(* The arithmetic of tick() leaves bytes.                                  *)
LEMMA Bytes == Byte = 0 .. 255
BY BytecodeAssumption DEF Byte

LEMMA WrapIsByte ==
  ASSUME NEW x \in Int
  PROVE  Wrap(x) \in Byte
BY BytecodeAssumption, Bytes DEF Wrap

LEMMA TruthIsByte ==
  ASSUME NEW a, NEW b
  PROVE  Truth(a = b) \in Byte /\ Truth(a < b) \in Byte /\ Truth(a <= b) \in Byte
BY BytecodeAssumption, Bytes DEF Truth, TRUTH

(* A byte is the sum of its bits.                                          *)
LEMMA SumOfBits ==
  ASSUME NEW x \in Byte
  PROVE  /\ x = Bit(x, 1) + 2 * Bit(x, 2) + 4 * Bit(x, 4) + 8 * Bit(x, 8)
                 + 16 * Bit(x, 16) + 32 * Bit(x, 32) + 64 * Bit(x, 64)
                 + 128 * Bit(x, 128)
         /\ \A weight \in {1, 2, 4, 8, 16, 32, 64, 128} : Bit(x, weight) \in {0, 1}
BY Bytes DEF Bit

(* So what two of them have in common is no more than either, and the sum  *)
(* without it no more than all bits.                                       *)
LEMMA BitAndBounds ==
  ASSUME NEW x \in Byte, NEW y \in Byte
  PROVE  /\ BitAnd(x, y) \in 0 .. x /\ BitAnd(x, y) \in 0 .. y
         /\ x + y - BitAnd(x, y) \in Byte
<1> DEFINE c(w) == Common(x, y, w)
           p(w) == w * Bit(x, w)
           q(w) == w * Bit(y, w)
           Share(w) == /\ p(w) \in Int /\ q(w) \in Int /\ c(w) \in Int
                       /\ 0 <= c(w) /\ c(w) <= p(w) /\ c(w) <= q(w)
                       /\ p(w) + q(w) - c(w) <= w
<1>1. ASSUME NEW w \in {1, 2, 4, 8, 16, 32, 64, 128} PROVE Share(w)
  <2>1. Bit(x, w) \in {0, 1} /\ Bit(y, w) \in {0, 1} /\ w \in Nat
    BY SumOfBits
  <2>2. p(w) = (IF Bit(x, w) = 1 THEN w ELSE 0) /\ q(w) = (IF Bit(y, w) = 1 THEN w ELSE 0)
    BY <2>1
  <2>3. CASE Bit(x, w) = 1 /\ Bit(y, w) = 1
    <3>1. c(w) = w
      BY <2>3 DEF Common
    <3> HIDE DEF c
    <3> QED
      BY <2>1, <2>2, <2>3, <3>1
  <2>4. CASE ~(Bit(x, w) = 1 /\ Bit(y, w) = 1)
    <3>1. c(w) = 0
      BY <2>4 DEF Common
    <3> HIDE DEF c
    <3> QED
      BY <2>1, <2>2, <2>4, <3>1
  <2> QED
    BY <2>3, <2>4
<1>2. /\ x = p(1) + p(2) + p(4) + p(8) + p(16) + p(32) + p(64) + p(128)
      /\ y = q(1) + q(2) + q(4) + q(8) + q(16) + q(32) + q(64) + q(128)
  BY SumOfBits
<1>3. BitAnd(x, y) = c(1) + c(2) + c(4) + c(8) + c(16) + c(32) + c(64) + c(128)
  BY DEF BitAnd
<1>4. /\ Share(1) /\ Share(2) /\ Share(4) /\ Share(8)
      /\ Share(16) /\ Share(32) /\ Share(64) /\ Share(128)
  BY <1>1
<1> HIDE DEF c, p, q
<1>5. /\ BitAnd(x, y) \in Int /\ x \in Int /\ y \in Int
      /\ 0 <= BitAnd(x, y) /\ BitAnd(x, y) <= x /\ BitAnd(x, y) <= y
      /\ x + y - BitAnd(x, y) <= 255
  BY <1>2, <1>3, <1>4, SMTT(60)
<1> QED
  BY <1>5, Bytes

LEMMA UnaryIsByte ==
  ASSUME NEW op \in Unary, NEW a \in Byte
  PROVE  UnaryResult(op, a) \in Byte
<1>1. a \in 0 .. 255 /\ Wrap(-a) \in Byte /\ Truth(a = 0) \in Byte
  <2>1. a \in 0 .. 255 /\ -a \in Int
    BY Bytes
  <2> QED
    BY <2>1, WrapIsByte, TruthIsByte
<1> QED
  BY <1>1, Bytes, BytecodeAssumption DEF Unary, UnaryResult

LEMMA QuotientIsByte ==
  ASSUME NEW a \in Byte, NEW b \in Nat \ {0}
  PROVE  a \div b \in Byte /\ (b \in Byte => a % b \in Byte)
BY Bytes

LEMMA ProductIsInt ==
  ASSUME NEW a \in Byte, NEW b \in Int
  PROVE  a * b \in Int
BY Bytes

LEMMA PowersOf2 ==
  ASSUME NEW b \in 0 .. 7
  PROVE  PowerOf2[b + 1] \in Nat \ {0}
BY DEF PowerOf2

LEMMA BinaryIsByte ==
  ASSUME NEW op \in Binary, NEW a \in Byte, NEW b \in Byte
  PROVE  /\ BinaryResults(op, a, b) \subseteq Byte
         /\ BinaryResults(op, a, b) = {} => op \in {OP["DIV"], OP["MOD"]} /\ b = 0
<1>1. a \in 0 .. 255 /\ b \in 0 .. 255
  BY Bytes
<1>2. op \in 8 .. 22
  BY Families
<1> HIDE DEF Byte
<1> DEFINE R == BinaryResults(op, a, b)
<1> SUFFICES R \subseteq Byte /\ (R = {} => op \in {OP["DIV"], OP["MOD"]} /\ b = 0)
  OBVIOUS
<1>3. CASE op = OP["LOR"]
  BY <1>3, <1>1, Numbers, Bytes DEF BinaryResults
<1>4. CASE op = OP["LAND"]
  BY <1>4, <1>1, Numbers, Bytes DEF BinaryResults
<1>5. CASE op = OP["OR"]
  BY <1>5, Numbers, BitAndBounds DEF BinaryResults
<1>6. CASE op = OP["XOR"]
  <2>1. a + b - 2 * BitAnd(a, b) \in Byte
    <3> DEFINE c == BitAnd(a, b)
    <3>0. c \in 0 .. a /\ c \in 0 .. b /\ a + b - c \in Byte
      BY BitAndBounds
    <3> HIDE DEF c
    <3>1. c \in 0 .. a /\ c \in 0 .. b /\ a + b - c \in 0 .. 255
      BY <3>0, Bytes
    <3>2. a + b - 2 * c \in 0 .. 255
      BY <1>1, <3>1
    <3> QED
      BY <3>2, Bytes DEF c
  <2> QED
    BY <1>6, <2>1, Numbers DEF BinaryResults
<1>7. CASE op = OP["AND"]
  <2>1. BitAnd(a, b) \in 0 .. a
    BY BitAndBounds
  <2>2. BitAnd(a, b) \in Byte
    BY <1>1, <2>1, Bytes
  <2> QED
    BY <1>7, <2>2, Numbers DEF BinaryResults
<1>8. CASE op \in {OP["EQL"], OP["LSS"], OP["LTE"]}
  <2>1. Truth(a = b) \in Byte /\ Truth(a < b) \in Byte /\ Truth(a <= b) \in Byte
    BY TruthIsByte
  <2> QED
    BY <1>8, <2>1, Numbers DEF BinaryResults
<1>9. CASE op \in {OP["SHL"], OP["SHR"]}
  <2>1. ASSUME b < 8
        PROVE  Wrap(a * PowerOf2[b + 1]) \in Byte /\ a \div PowerOf2[b + 1] \in Byte
    <3>1. PowerOf2[b + 1] \in Nat \ {0}
      BY <1>1, <2>1, PowersOf2
    <3>2. a * PowerOf2[b + 1] \in Int
      BY <3>1, ProductIsInt
    <3> QED
      BY <3>1, <3>2, WrapIsByte, QuotientIsByte
  <2>2. 0 \in Byte
    BY Bytes
  <2>3. CASE op = OP["SHL"]
    BY <2>1, <2>2, <2>3, Numbers DEF BinaryResults
  <2>4. CASE op = OP["SHR"]
    BY <2>1, <2>2, <2>4, Numbers DEF BinaryResults
  <2> QED
    BY <1>9, <2>3, <2>4
<1>10. CASE op \in {OP["ADD"], OP["SUB"], OP["MUL"]}
  <2>1. a + b \in Int /\ a - b \in Int /\ a * b \in Int
    BY <1>1, ProductIsInt
  <2>2. Wrap(a + b) \in Byte /\ Wrap(a - b) \in Byte /\ Wrap(a * b) \in Byte
    BY <2>1, WrapIsByte
  <2> QED
    BY <1>10, <2>2, Numbers DEF BinaryResults
<1>11. CASE op \in {OP["DIV"], OP["MOD"]}
  <2>1. b # 0 => a \div b \in Byte /\ a % b \in Byte
    BY <1>1, QuotientIsByte
  <2> QED
    BY <1>11, <2>1, Numbers DEF BinaryResults
<1> QED
  BY <1>2, <1>3, <1>4, <1>5, <1>6, <1>7, <1>8, <1>9, <1>10, <1>11, Numbers

-----------------------------------------------------------------------------
(* A processor in the middle of code that is well formed.                  *)
Inside(p, starts) ==
  /\ p \in [code : Seq(Byte), isp : Nat, stack : Seq(Byte), vars : [VarIdx -> Byte]]
  /\ Height(p) <= STACK_SIZE
  /\ WellFormed(p.code, starts) /\ p.isp \in starts

LEMMA AtIsp ==
  ASSUME NEW p, NEW starts, Inside(p, starts)
  PROVE  LET q == At(p.code, p.isp)
         IN  q.code = p.code /\ q.isp = p.isp /\ Op(q) = Op(p) /\ Addr(q) = Addr(p)
               /\ CodeEnd(q) = CodeEnd(p)
BY DEF Inside, At, NewProcessor, Op, Fetch, Addr, CodeEnd

(* What is known of the instruction at isp, if there is one.               *)
LEMMA InstructionIsWhole ==
  ASSUME NEW p, NEW starts, Inside(p, starts), Op(p) \in DOMAIN Opcode
  PROVE  /\ p.isp \in 0 .. Len(p.code) - 1 /\ Op(p) = p.code[p.isp + 1]
         /\ p.isp + Size(Op(p)) <= Len(p.code)
         /\ Targets(p.code, p.isp) \subseteq starts
         /\ \A k \in 0 .. Size(Op(p)) - 1 : Fetch(p, k) \in Byte
<1>1. p.isp \in Nat /\ p.isp <= Len(p.code) /\ Len(p.code) \in Nat
  BY DEF Inside, WellFormed
<1>2. p.isp < Len(p.code)
  BY Numbers DEF Op
<1>3. Op(p) = p.code[p.isp + 1]
  BY <1>1, <1>2 DEF Op, Fetch
<1>4. /\ p.isp + Size(Op(p)) <= Len(p.code)
      /\ Targets(p.code, p.isp) \subseteq starts
  BY <1>1, <1>2, <1>3 DEF Inside, WellFormed
<1>5. ASSUME NEW k \in 0 .. Size(Op(p)) - 1 PROVE Fetch(p, k) \in Byte
  <2>1. Size(Op(p)) \in Nat
    BY DEF Size
  <2>2. p.isp + k + 1 \in 1 .. Len(p.code)
    BY <1>1, <1>4, <2>1
  <2> QED
    BY <2>2 DEF Inside, Fetch
<1> QED
  BY <1>1, <1>2, <1>3, <1>4, <1>5

(* Of any instruction but HALT, and but for the jumps, the one after it.   *)
LEMMA NextIsTarget ==
  ASSUME NEW p, NEW starts, Inside(p, starts), Op(p) \in DOMAIN Opcode,
         Op(p) # OP["HALT"]
  PROVE  Wrapped(p, NextAddr(p, Op(p))) \in Targets(p.code, p.isp)
<1>1. /\ Op(At(p.code, p.isp)) = Op(p) /\ Addr(At(p.code, p.isp)) = Addr(p)
      /\ \A t : Wrapped(At(p.code, p.isp), t) = Wrapped(p, t)
  BY AtIsp DEF Wrapped
<1>2. CASE Op(p) = OP["JMP"]
  BY <1>1, <1>2, Numbers DEF Targets, NextAddr
<1>3. CASE Op(p) = OP["FJMP"]
  BY <1>1, <1>3, Numbers DEF Targets, NextAddr
<1>4. CASE Op(p) \notin {OP["JMP"], OP["FJMP"]}
  <2>1. NextAddr(p, Op(p)) = p.isp + Size(Op(p))
    BY <1>4, Numbers DEF NextAddr, Size
  <2> QED
    BY <1>1, <1>4, <2>1 DEF Targets
<1> QED
  BY <1>2, <1>3, <1>4

-----------------------------------------------------------------------------
(* The stack.                                                              *)
LEMMA DropFacts ==
  ASSUME NEW p, p.stack \in Seq(Byte), NEW k \in 0 .. Height(p)
  PROVE  Drop(p, k) \in Seq(Byte) /\ Len(Drop(p, k)) = Height(p) - k
BY DEF Drop, Height

LEMMA AppendFacts ==
  ASSUME NEW s \in Seq(Byte), NEW b \in Byte
  PROVE  Append(s, b) \in Seq(Byte) /\ Len(Append(s, b)) = Len(s) + 1
OBVIOUS

LEMMA TopFacts ==
  ASSUME NEW p, p.stack \in Seq(Byte), Height(p) > 0
  PROVE  Top(p) \in Byte /\ (Height(p) > 1 => Under(p) \in Byte)
BY DEF Top, Under, Height

LEMMA PushedFacts ==
  ASSUME NEW p, p.stack \in Seq(Byte), Height(p) <= STACK_SIZE, NEW b \in Byte
  PROVE  /\ \A s \in Pushed(p, b) :
              s \in Seq(Byte) /\ Len(s) <= STACK_SIZE /\ Len(s) = Height(p) + 1
         /\ Pushed(p, b) = {} => Height(p) = STACK_SIZE
<1> DEFINE t == Append(p.stack, b)
<1>1. t \in Seq(Byte) /\ Len(t) = Height(p) + 1 /\ Height(p) \in Nat
  BY AppendFacts DEF Height
<1>2. Pushed(p, b) = IF Height(p) < STACK_SIZE THEN {t} ELSE {}
  BY DEF Pushed
<1> HIDE DEF t
<1> QED
  BY <1>1, <1>2, StackAssumption

LEMMA PoppedFacts ==
  ASSUME NEW p, p.stack \in Seq(Byte), Height(p) <= STACK_SIZE
  PROVE  /\ \A s \in Popped(p) :
              /\ s \in Seq(Byte) /\ Len(s) <= STACK_SIZE
              /\ Height(p) >= 1 /\ Len(s) = Height(p) - 1
         /\ Popped(p) = {} => Height(p) = 0
<1> DEFINE t == Drop(p, 1)
<1>1. Height(p) \in Nat
  BY DEF Height
<1>2. Height(p) # 0 => t \in Seq(Byte) /\ Len(t) = Height(p) - 1
  BY <1>1, DropFacts
<1>3. Popped(p) = IF Height(p) = 0 THEN {} ELSE {t}
  BY DEF Popped
<1> HIDE DEF t
<1> QED
  BY <1>1, <1>2, <1>3, StackAssumption

LEMMA ReplacedFacts ==
  ASSUME NEW p, p.stack \in Seq(Byte), Height(p) <= STACK_SIZE, NEW k \in {1, 2},
         NEW bytes, Height(p) >= k => bytes \subseteq Byte
  PROVE  /\ \A s \in Replaced(p, k, bytes) :
              /\ s \in Seq(Byte) /\ Len(s) <= STACK_SIZE
              /\ Height(p) >= k /\ Len(s) = Height(p) - k + 1
         /\ Replaced(p, k, bytes) = {} => Height(p) < k \/ bytes = {}
<1>1. Height(p) \in Nat
  BY DEF Height
<1>2. CASE Height(p) < k
  <2>1. Replaced(p, k, bytes) = {}
    BY <1>2 DEF Replaced
  <2> QED
    BY <1>2, <2>1
<1>3. CASE ~(Height(p) < k)
  <2> DEFINE t == Drop(p, k)
  <2>1. t \in Seq(Byte) /\ Len(t) = Height(p) - k
    BY <1>1, <1>3, DropFacts
  <2>2. Replaced(p, k, bytes) = {Append(t, b) : b \in bytes}
    BY <1>3 DEF Replaced
  <2>3. bytes \subseteq Byte
    BY <1>1, <1>3
  <2> HIDE DEF t
  <2>4. ASSUME NEW s \in Replaced(p, k, bytes)
        PROVE  s \in Seq(Byte) /\ Len(s) = Height(p) - k + 1
    <3>1. PICK b \in bytes : s = Append(t, b)
      BY <2>2
    <3> QED
      BY <1>1, <2>1, <2>3, <3>1, AppendFacts
  <2>5. Replaced(p, k, bytes) = {} => bytes = {}
    BY <2>2
  <2> QED
    BY <1>1, <1>3, <2>4, <2>5, StackAssumption
<1> QED
  BY <1>2, <1>3

(* The arms of the switch.                                                 *)
LEMMA Arms ==
  ASSUME NEW p, NEW op
  PROVE  /\ op \in {1, 23} => StacksAfter(p, op) = {p.stack}
         /\ op = 2 => StacksAfter(p, op) = Pushed(p, Fetch(p, 1))
         /\ op \in 25 .. 28 => StacksAfter(p, op) = Pushed(p, p.vars[op - 25])
         /\ op = 3 =>
              StacksAfter(p, op) = IF Height(p) = 0 THEN {} ELSE Pushed(p, Top(p))
         /\ op \in {4, 24} \union (29 .. 32) => StacksAfter(p, op) = Popped(p)
         /\ op \in 5 .. 7 =>
              StacksAfter(p, op) = Replaced(p, 1, {UnaryResult(op, Top(p))})
         /\ op \in 8 .. 22 =>
              StacksAfter(p, op) = Replaced(p, 2, BinaryResults(op, Under(p), Top(p)))
<1>1. op \in {1, 23} => StacksAfter(p, op) = {p.stack}
  BY Numbers, Families DEF StacksAfter
<1>2. op = 2 => StacksAfter(p, op) = Pushed(p, Fetch(p, 1))
  BY Numbers, Families DEF StacksAfter
<1>3. op \in 25 .. 28 => StacksAfter(p, op) = Pushed(p, p.vars[op - 25])
  BY Numbers, Families DEF StacksAfter
<1>4. op = 3 => StacksAfter(p, op) = IF Height(p) = 0 THEN {} ELSE Pushed(p, Top(p))
  BY Numbers, Families DEF StacksAfter
<1>5. op \in {4, 24} \union (29 .. 32) => StacksAfter(p, op) = Popped(p)
  BY Numbers, Families DEF StacksAfter
<1>6. op \in 5 .. 7 => StacksAfter(p, op) = Replaced(p, 1, {UnaryResult(op, Top(p))})
  BY Numbers, Families DEF StacksAfter
<1>7. op \in 8 .. 22 =>
        StacksAfter(p, op) = Replaced(p, 2, BinaryResults(op, Under(p), Top(p)))
  BY Numbers, Families DEF StacksAfter
<1> QED
  BY <1>1, <1>2, <1>3, <1>4, <1>5, <1>6, <1>7

LEMMA TakesAndGives ==
  ASSUME NEW op
  PROVE  /\ op \in {1, 23} \union {41} => Takes(op) = 0 /\ Gives(op) = 0
         /\ op \in {2} \union (25 .. 28) => Takes(op) = 0 /\ Gives(op) = 1
         /\ op = 3 => Takes(op) = 1 /\ Gives(op) = 2
         /\ op \in {4, 24} \union (29 .. 36) => Takes(op) = 1 /\ Gives(op) = 0
         /\ op \in 5 .. 7 => Takes(op) = 1 /\ Gives(op) = 1
         /\ op \in 8 .. 22 => Takes(op) = 2 /\ Gives(op) = 1
         /\ op \in 37 .. 40 => Takes(op) = 0 /\ Gives(op) = 1
<1>1. /\ Takes(op) = IF op \in 8 .. 22 THEN 2
                     ELSE IF op \in {3, 4, 24} \union (5 .. 7) \union (29 .. 36) THEN 1
                     ELSE 0
      /\ Gives(op) = IF op = 3 THEN 2
                     ELSE IF op = 2 \/ op \in (5 .. 22) \union (25 .. 28) \union (37 .. 40)
                          THEN 1 ELSE 0
  BY Numbers, Families DEF Takes, Gives
<1> QED
  BY <1>1

(* The stacks after an instruction are stacks, as high as it says; if      *)
(* there is none the stack was too low or too high, or a divisor was zero. *)
LEMMA StacksFacts ==
  ASSUME NEW p, NEW starts, Inside(p, starts), IsLocal(Op(p))
  PROVE  /\ \A s \in StacksAfter(p, Op(p)) :
              /\ s \in Seq(Byte) /\ Len(s) <= STACK_SIZE
              /\ Height(p) >= Takes(Op(p))
              /\ Len(s) = Height(p) - Takes(Op(p)) + Gives(Op(p))
         /\ StacksAfter(p, Op(p)) = {} =>
              \/ Height(p) < Takes(Op(p))
              \/ Height(p) - Takes(Op(p)) + Gives(Op(p)) > STACK_SIZE
              \/ Op(p) \in {OP["DIV"], OP["MOD"]} /\ Top(p) = 0
<1> DEFINE op == Op(p)
<1>1. /\ p.stack \in Seq(Byte) /\ p.vars \in [VarIdx -> Byte]
      /\ Height(p) = Len(p.stack) /\ Height(p) \in Nat /\ Height(p) <= STACK_SIZE
      /\ STACK_SIZE \in Nat
  BY StackAssumption DEF Inside, Height
<1>2. op \in 1 .. 32 /\ op \in DOMAIN Opcode
  BY Numbers DEF IsLocal
<1>4. CASE op \in {1, 23}
  <2>1. StacksAfter(p, op) = {p.stack} /\ Takes(op) = 0 /\ Gives(op) = 0
    BY <1>4, Arms, TakesAndGives
  <2> HIDE DEF op
  <2>2. ASSUME NEW s \in StacksAfter(p, op)
        PROVE  /\ s \in Seq(Byte) /\ Len(s) <= STACK_SIZE
               /\ Height(p) >= Takes(op) /\ Len(s) = Height(p) - Takes(op) + Gives(op)
    <3>1. s = p.stack
      BY <2>1
    <3> QED
      BY <1>1, <2>1, <3>1
  <2>3. StacksAfter(p, op) # {}
    BY <2>1
  <2> QED
    BY <2>2, <2>3 DEF op
<1>5. CASE op \in {2} \union (25 .. 28)
  <2>1. PICK b \in Byte : StacksAfter(p, op) = Pushed(p, b)
    <3>1. CASE op = 2
      <4>1. Fetch(p, 1) \in Byte
        BY <1>2, <3>1, InstructionIsWhole, Numbers DEF Size
      <4> QED
        BY <3>1, <4>1, Arms
    <3>2. CASE op \in 25 .. 28
      <4>1. op - 25 \in VarIdx
        BY <3>2 DEF VarIdx, VAR_MAX
      <4> QED
        BY <1>1, <3>2, <4>1, Arms
    <3> QED
      BY <1>5, <3>1, <3>2
  <2>2. Takes(op) = 0 /\ Gives(op) = 1
    BY <1>5, TakesAndGives
  <2> QED
    BY <1>1, <2>1, <2>2, PushedFacts
<1>6. CASE op = 3
  <2>1. /\ StacksAfter(p, op) = IF Height(p) = 0 THEN {} ELSE Pushed(p, Top(p))
        /\ Takes(op) = 1 /\ Gives(op) = 2
    BY <1>6, Arms, TakesAndGives
  <2>2. CASE Height(p) = 0
    BY <2>1, <2>2
  <2>3. CASE Height(p) # 0
    <3>1. Top(p) \in Byte /\ StacksAfter(p, op) = Pushed(p, Top(p))
      BY <1>1, <2>1, <2>3, TopFacts
    <3> QED
      BY <1>1, <2>1, <2>3, <3>1, PushedFacts
  <2> QED
    BY <2>2, <2>3
<1>7. CASE op \in {4, 24} \union (29 .. 32)
  <2>1. StacksAfter(p, op) = Popped(p)
    BY <1>7, Arms
  <2>2. Takes(op) = 1 /\ Gives(op) = 0
    BY <1>7, TakesAndGives
  <2> QED
    BY <1>1, <2>1, <2>2, PoppedFacts
<1>8. CASE op \in 5 .. 7
  <2> DEFINE R == {UnaryResult(op, Top(p))}
  <2>1. StacksAfter(p, op) = Replaced(p, 1, R) /\ Takes(op) = 1 /\ Gives(op) = 1
    BY <1>8, Arms, TakesAndGives
  <2>2. Height(p) >= 1 => R \subseteq Byte
    BY <1>1, <1>8, TopFacts, UnaryIsByte, Families
  <2>3. R # {}
    OBVIOUS
  <2> HIDE DEF R
  <2> QED
    BY <1>1, <2>1, <2>2, <2>3, ReplacedFacts
<1>9. CASE op \in 8 .. 22
  <2> DEFINE R == BinaryResults(op, Under(p), Top(p))
  <2>1. StacksAfter(p, op) = Replaced(p, 2, R) /\ Takes(op) = 2 /\ Gives(op) = 1
    BY <1>9, Arms, TakesAndGives
  <2>2. ASSUME Height(p) >= 2
        PROVE  R \subseteq Byte /\ (R = {} => op \in {OP["DIV"], OP["MOD"]} /\ Top(p) = 0)
    <3>1. Under(p) \in Byte /\ Top(p) \in Byte
      BY <1>1, <2>2, TopFacts
    <3> QED
      BY <1>9, <3>1, BinaryIsByte, Families
  <2> HIDE DEF R
  <2>3. \A s \in Replaced(p, 2, R) :
          /\ s \in Seq(Byte) /\ Len(s) <= STACK_SIZE
          /\ Height(p) >= 2 /\ Len(s) = Height(p) - 2 + 1
    BY <1>1, <2>2, ReplacedFacts
  <2>4. Replaced(p, 2, R) = {} => Height(p) < 2 \/ R = {}
    BY <1>1, <2>2, ReplacedFacts
  <2> QED
    BY <1>1, <2>1, <2>2, <2>3, <2>4
<1> QED
  <2>1. \/ op \in {1, 23} \/ op \in {2} \union (25 .. 28) \/ op = 3
        \/ op \in {4, 24} \union (29 .. 32) \/ op \in 5 .. 7 \/ op \in 8 .. 22
    BY <1>2
  <2> HIDE DEF op
  <2> QED
    BY <2>1, <1>4, <1>5, <1>6, <1>7, <1>8, <1>9, Zenon

-----------------------------------------------------------------------------
(* The steps of a processor inside of its code stay inside, and change the *)
(* height of the stack as much as the instruction says.                    *)
Moves(p, next) ==
  /\ next.code = p.code /\ next.isp \in Targets(p.code, p.isp)
  /\ Height(p) >= Takes(Op(p))
  /\ Height(next) = Height(p) - Takes(Op(p)) + Gives(Op(p))

To(p, s, v, a) == [p EXCEPT !.stack = s, !.vars = v, !.isp = a]
Onwards(p, s, v) == To(p, s, v, Wrapped(p, NextAddr(p, Op(p))))

LEMMA ToKeepsVars ==
  ASSUME NEW p, NEW starts, Inside(p, starts), NEW s, NEW a
  PROVE  [p EXCEPT !.stack = s, !.isp = a] = To(p, s, p.vars, a)
BY DEF Inside, To

LEMMA StaysInside ==
  ASSUME NEW p, NEW starts, Inside(p, starts), Op(p) \in DOMAIN Opcode,
         Op(p) # OP["HALT"],
         NEW s \in Seq(Byte), Len(s) <= STACK_SIZE, NEW v \in [VarIdx -> Byte],
         NEW next, next = Onwards(p, s, v)
  PROVE  /\ Inside(next, starts) /\ next.code = p.code /\ next.stack = s
         /\ next.isp \in Targets(p.code, p.isp)
<1> DEFINE a == Wrapped(p, NextAddr(p, Op(p)))
<1>1. a \in starts /\ a \in Targets(p.code, p.isp)
  BY InstructionIsWhole, NextIsTarget
<1>2. starts \subseteq Nat
  BY DEF Inside, WellFormed
<1>3. next = To(p, s, v, a)
  BY DEF Onwards
<1> HIDE DEF a
<1>4. next = [code |-> p.code, isp |-> a, stack |-> s, vars |-> v]
  BY <1>3 DEF Inside, To
<1>5. next \in [code : Seq(Byte), isp : Nat, stack : Seq(Byte), vars : [VarIdx -> Byte]]
  BY <1>1, <1>2, <1>4 DEF Inside
<1> QED
  BY <1>1, <1>4, <1>5 DEF Inside, Height

LEMMA LocalStep ==
  ASSUME NEW p, NEW starts, Inside(p, starts), IsLocal(Op(p)), NEW next \in LocalSteps(p)
  PROVE  Inside(next, starts) /\ Moves(p, next)
<1>1. PICK s \in StacksAfter(p, Op(p)) :
        next = Onwards(p, s, VarsAfter(p, Op(p)))
  BY DEF LocalSteps, Onwards, To
<1>2. Op(p) \in 1 .. 32 /\ Op(p) \in DOMAIN Opcode /\ Op(p) # OP["HALT"]
  BY Numbers DEF IsLocal
<1>3. /\ s \in Seq(Byte) /\ Len(s) <= STACK_SIZE /\ Height(p) >= Takes(Op(p))
      /\ Len(s) = Height(p) - Takes(Op(p)) + Gives(Op(p))
  BY StacksFacts
<1>4. VarsAfter(p, Op(p)) \in [VarIdx -> Byte]
  <2>1. CASE Op(p) \in Family("SAVE0")
    <3>1. Takes(Op(p)) = 1
      BY <2>1, Families, TakesAndGives
    <3>2. p.stack \in Seq(Byte) /\ Height(p) \in Nat
      BY DEF Inside, Height
    <3>3. Top(p) \in Byte
      BY <1>3, <3>1, <3>2, TopFacts
    <3> QED
      BY <2>1, <3>3 DEF Inside, VarsAfter
  <2>2. CASE Op(p) \notin Family("SAVE0")
    BY <2>2 DEF Inside, VarsAfter
  <2> QED
    BY <2>1, <2>2
<1>5. /\ Inside(next, starts) /\ next.code = p.code /\ next.stack = s
      /\ next.isp \in Targets(p.code, p.isp)
  BY <1>1, <1>2, <1>3, <1>4, StaysInside
<1> QED
  BY <1>3, <1>5 DEF Moves, Height

(* OP_SEND and OP_RECV.                                                    *)
LEMMA NextOfPorts ==
  ASSUME NEW p, Op(p) \in 33 .. 40
  PROVE  NextAddr(p, Op(p)) = p.isp + 1 /\ Op(p) \in DOMAIN Opcode /\ Op(p) # OP["HALT"]
BY Numbers DEF NextAddr

LEMMA SendStep ==
  ASSUME NEW p, NEW starts, Inside(p, starts), IsSend(p)
  PROVE  Inside(AfterSend(p), starts) /\ Moves(p, AfterSend(p))
<1>1. Op(p) \in 33 .. 36 /\ Height(p) > 0
  BY Families DEF IsSend
<1>2. Takes(Op(p)) = 1 /\ Gives(Op(p)) = 0
  BY <1>1, TakesAndGives
<1>3. /\ Drop(p, 1) \in Seq(Byte) /\ Len(Drop(p, 1)) = Height(p) - 1
      /\ Height(p) \in Nat /\ Height(p) <= STACK_SIZE
  <2>1. p.stack \in Seq(Byte) /\ Height(p) \in Nat /\ Height(p) <= STACK_SIZE
    BY DEF Inside, Height
  <2> QED
    BY <1>1, <2>1, DropFacts
<1>4. AfterSend(p) = Onwards(p, Drop(p, 1), p.vars)
  <2>1. NextAddr(p, Op(p)) = p.isp + 1
    BY <1>1, NextOfPorts
  <2> QED
    BY <2>1, ToKeepsVars DEF AfterSend, Onwards
<1>5. p.vars \in [VarIdx -> Byte] /\ Len(Drop(p, 1)) <= STACK_SIZE
  BY <1>3, StackAssumption DEF Inside
<1>6. /\ Inside(AfterSend(p), starts) /\ AfterSend(p).code = p.code
      /\ AfterSend(p).stack = Drop(p, 1) /\ AfterSend(p).isp \in Targets(p.code, p.isp)
  <2>1. Op(p) \in DOMAIN Opcode /\ Op(p) # OP["HALT"]
    BY <1>1, NextOfPorts
  <2> QED
    BY <1>3, <1>4, <1>5, <2>1, StaysInside
<1> QED
  BY <1>1, <1>2, <1>3, <1>6 DEF Moves, Height

LEMMA RecvStep ==
  ASSUME NEW p, NEW starts, Inside(p, starts), IsRecv(p), NEW dat \in Byte
  PROVE  /\ \A next \in AfterRecv(p, dat) : Inside(next, starts) /\ Moves(p, next)
         /\ AfterRecv(p, dat) = {} => Height(p) = STACK_SIZE
<1>1. Op(p) \in 37 .. 40
  BY Families DEF IsRecv
<1>2. Takes(Op(p)) = 0 /\ Gives(Op(p)) = 1
  BY <1>1, TakesAndGives
<1>3. /\ \A s \in Pushed(p, dat) :
           s \in Seq(Byte) /\ Len(s) <= STACK_SIZE /\ Len(s) = Height(p) + 1
      /\ Pushed(p, dat) = {} => Height(p) = STACK_SIZE
  BY PushedFacts DEF Inside
<1>4. ASSUME NEW next \in AfterRecv(p, dat) PROVE Inside(next, starts) /\ Moves(p, next)
  <2>1. PICK s \in Pushed(p, dat) :
          next = [p EXCEPT !.stack = s, !.isp = Wrapped(p, p.isp + 1)]
    BY <1>4 DEF AfterRecv
  <2>0. NextAddr(p, Op(p)) = p.isp + 1 /\ Op(p) \in DOMAIN Opcode /\ Op(p) # OP["HALT"]
    BY <1>1, NextOfPorts
  <2>2. next = Onwards(p, s, p.vars)
    BY <2>0, <2>1, ToKeepsVars DEF Onwards
  <2>3. p.vars \in [VarIdx -> Byte]
    BY DEF Inside
  <2>4. /\ Inside(next, starts) /\ next.code = p.code /\ next.stack = s
        /\ next.isp \in Targets(p.code, p.isp)
    BY <1>3, <2>0, <2>2, <2>3, StaysInside
  <2>5. Height(p) \in Nat
    BY DEF Inside, Height
  <2> QED
    BY <1>2, <1>3, <2>4, <2>5 DEF Moves, Height
<1>5. AfterRecv(p, dat) = {} => Pushed(p, dat) = {}
  BY DEF AfterRecv
<1> QED
  BY <1>3, <1>4, <1>5

-----------------------------------------------------------------------------
(* A processor in the middle of code that keeps its balance: its stack is  *)
(* as high as the heights say.                                             *)
Level(p, heights) ==
  /\ Inside(p, DOMAIN heights) /\ Balanced(p.code, heights)
  /\ Height(p) = heights[p.isp]

LEMMA StaysLevel ==
  ASSUME NEW p, NEW heights, Level(p, heights), NEW next,
         Inside(next, DOMAIN heights), Moves(p, next)
  PROVE  Level(next, heights)
<1>1. p.isp \in DOMAIN heights /\ p.code[p.isp + 1] = Op(p)
  <2>1. p.isp \in DOMAIN heights /\ p.isp \in 0 .. Len(p.code) /\ p.isp # Len(p.code)
    BY DEF Level, Inside, WellFormed, Balanced
  <2> QED
    BY <2>1 DEF Op, Fetch, Inside, Level
<1>2. heights[next.isp] = heights[p.isp] - Takes(Op(p)) + Gives(Op(p))
  BY <1>1 DEF Level, Balanced, Moves
<1> QED
  BY <1>2 DEF Level, Moves

(* So nothing ends it but a division by zero, it has room for whatever it  *)
(* receives, and at the beginning of the code its stack is empty.          *)
LEMMA LevelIsSafe ==
  ASSUME NEW p, NEW heights, Level(p, heights)
  PROVE  /\ Op(p) \in DOMAIN Opcode
         /\ p.isp = 0 => p.stack = << >>
         /\ Faults(p) => Op(p) \in {OP["DIV"], OP["MOD"]} /\ Top(p) = 0
         /\ IsRecv(p) => Height(p) < STACK_SIZE
<1>1. p.isp \in DOMAIN heights /\ p.code[p.isp + 1] = Op(p)
  <2>1. p.isp \in DOMAIN heights /\ p.isp \in 0 .. Len(p.code) /\ p.isp # Len(p.code)
    BY DEF Level, Inside, WellFormed, Balanced
  <2> QED
    BY <2>1 DEF Op, Fetch, Inside, Level
<1>2. /\ Op(p) \in DOMAIN Opcode
      /\ Height(p) \in Takes(Op(p)) .. STACK_SIZE
      /\ \A t \in Targets(p.code, p.isp) :
           heights[t] = Height(p) - Takes(Op(p)) + Gives(Op(p))
  BY <1>1 DEF Level, Balanced
<1>3. p.isp = 0 => p.stack = << >>
  <2>1. p.stack \in Seq(Byte)
    BY DEF Level, Inside
  <2>2. p.isp = 0 => Len(p.stack) = 0
    BY DEF Level, Balanced, Height
  <2> QED
    BY <2>1, <2>2, EmptySeq
<1>4. ASSUME Op(p) # OP["HALT"]
      PROVE  Height(p) - Takes(Op(p)) + Gives(Op(p)) <= STACK_SIZE
  <2>1. Wrapped(p, NextAddr(p, Op(p))) \in Targets(p.code, p.isp)
    BY <1>2, <1>4, NextIsTarget DEF Level
  <2> DEFINE t == Wrapped(p, NextAddr(p, Op(p)))
  <2>2. t \in DOMAIN heights
    BY <1>2, <2>1, InstructionIsWhole DEF Level
  <2> HIDE DEF t
  <2>3. heights[t] \in Takes(p.code[t + 1]) .. STACK_SIZE
    BY <2>2 DEF Level, Balanced
  <2>4. Takes(p.code[t + 1]) \in Int /\ STACK_SIZE \in Int
    BY StackAssumption DEF Takes
  <2>5. heights[t] = Height(p) - Takes(Op(p)) + Gives(Op(p))
    BY <1>2, <2>1 DEF t
  <2> QED
    BY <2>3, <2>4, <2>5
<1>5. ASSUME Faults(p) PROVE Op(p) \in {OP["DIV"], OP["MOD"]} /\ Top(p) = 0
  <2>1. ~(Op(p) \in Family("SEND0") /\ Height(p) = 0)
    <3>1. Op(p) \in Family("SEND0") => Takes(Op(p)) = 1
      BY Families, TakesAndGives
    <3> QED
      BY <1>2, <3>1
  <2>2. IsLocal(Op(p)) /\ StacksAfter(p, Op(p)) = {}
    BY <1>2, <1>5, <2>1 DEF Faults
  <2>3. Op(p) # OP["HALT"]
    BY <2>2, Numbers DEF IsLocal
  <2>4. /\ ~(Height(p) < Takes(Op(p)))
        /\ ~(Height(p) - Takes(Op(p)) + Gives(Op(p)) > STACK_SIZE)
    <3>1. Takes(Op(p)) \in Int /\ Gives(Op(p)) \in Int /\ STACK_SIZE \in Int
          /\ Height(p) \in Int
      BY <1>2, StackAssumption DEF Takes, Gives
    <3> QED
      BY <1>2, <1>4, <2>3, <3>1
  <2> QED
    BY <2>2, <2>4, StacksFacts DEF Level
<1>6. ASSUME IsRecv(p) PROVE Height(p) < STACK_SIZE
  <2>1. Op(p) \in 37 .. 40 /\ Op(p) # OP["HALT"]
    BY <1>6, Families, Numbers DEF IsRecv
  <2>2. Takes(Op(p)) = 0 /\ Gives(Op(p)) = 1
    BY <2>1, TakesAndGives
  <2>3. Height(p) \in Nat /\ STACK_SIZE \in Nat
    BY StackAssumption DEF Level, Inside, Height
  <2> QED
    BY <1>4, <2>1, <2>2, <2>3
<1> QED
  BY <1>2, <1>3, <1>5, <1>6

-----------------------------------------------------------------------------
(* What the abstract run gets to is the least that is well formed.         *)
LEMMA LeastNumber ==
  ASSUME NEW T, T \subseteq Nat, T # {}
  PROVE  \E x \in T : \A y \in T : x <= y
<1>1. IsWellFoundedOn({ss \in Nat \X Nat : ss[1] < ss[2]}, Nat)
  BY NatLessThanWellFounded DEF OpToRel
<1>2. PICK x \in T : \A y \in T : ~ (<<y, x>> \in {ss \in Nat \X Nat : ss[1] < ss[2]})
  BY <1>1, WFMin
<1>3. \A y \in T : ~(y < x)
  BY <1>2
<1> QED
  BY <1>3

(* The addresses after each of m steps.                                    *)
Running(g, m, code) ==
  /\ g[0] = {0}
  /\ \A k \in 1 .. m : g[k] = Further(code, g[k - 1])

LEMMA Runs ==
  ASSUME NEW code, NEW n \in Nat
  PROVE  \E g : DOMAIN g = 0 .. n /\ Running(g, n, code)
<1> DEFINE Exists(m) == \E g : DOMAIN g = 0 .. m /\ Running(g, m, code)
           Fails == {m \in Nat : ~ Exists(m)}
<1>1. Exists(0)
  <2> DEFINE g == [k \in 0 .. 0 |-> {0}]
  <2>1. DOMAIN g = 0 .. 0 /\ g[0] = {0}
    OBVIOUS
  <2> HIDE DEF g
  <2>2. Running(g, 0, code)
    BY <2>1 DEF Running
  <2> QED
    BY <2>1, <2>2
<1>2. CASE Fails # {}
  <2>1. PICK m \in Fails : \A j \in Fails : m <= j
    <3> HIDE DEF Exists
    <3> QED
      BY <1>2, LeastNumber
  <2>2. m \in Nat /\ ~ Exists(m) /\ m # 0
    BY <1>1, <2>1
  <2>3. Exists(m - 1)
    <3>1. m - 1 \in Nat /\ m - 1 \notin Fails
      BY <2>1, <2>2
    <3> QED
      BY <3>1
  <2>4. PICK g : DOMAIN g = 0 .. m - 1 /\ Running(g, m - 1, code)
    BY <2>3
  <2> DEFINE h == [k \in 0 .. m |-> IF k = m THEN Further(code, g[m - 1]) ELSE g[k]]
  <2>5. h[0] = {0}
    BY <2>2, <2>4 DEF Running
  <2>6. ASSUME NEW k \in 1 .. m PROVE h[k] = Further(code, h[k - 1])
    <3>1. h[k - 1] = g[k - 1]
      BY <2>2
    <3>2. CASE k = m
      BY <3>1, <3>2
    <3>3. CASE k # m
      BY <2>2, <2>4, <3>1, <3>3 DEF Running
    <3> QED
      BY <3>2, <3>3
  <2>7. DOMAIN h = 0 .. m
    OBVIOUS
  <2> HIDE DEF h
  <2>8. Running(h, m, code)
    BY <2>5, <2>6 DEF Running
  <2> QED
    BY <2>2, <2>7, <2>8
<1> QED
  BY <1>2

LEMMA StartsUnfold ==
  ASSUME NEW code, Len(code) \in Nat
  PROVE  \E g : Running(g, Len(code), code) /\ Starts(code) = g[Len(code)]
<1> DEFINE body(g) == [k \in 0 .. Len(code) |->
                         IF k = 0 THEN {0} ELSE Further(code, g[k - 1])]
           run == CHOOSE g : g = body(g)
<1>1. PICK g : DOMAIN g = 0 .. Len(code) /\ Running(g, Len(code), code)
  BY Runs
<1> DEFINE h == [k \in 0 .. Len(code) |-> g[k]]
<1>2. \A k \in 0 .. Len(code) : h[k] = body(h)[k]
  BY <1>1 DEF Running
<1>3. h = body(h)
  <2>1. h = [k \in 0 .. Len(code) |-> h[k]] /\ body(h) = [k \in 0 .. Len(code) |-> body(h)[k]]
    OBVIOUS
  <2> HIDE DEF h, body
  <2> QED
    BY <1>2, <2>1
<1>4. run = body(run)
  <2> HIDE DEF body, h
  <2> QED
    BY <1>3
<1>5. Running(run, Len(code), code)
  <2> HIDE DEF run
  <2>1. ASSUME NEW k \in 0 .. Len(code)
        PROVE  run[k] = IF k = 0 THEN {0} ELSE Further(code, run[k - 1])
    BY <1>4
  <2>2. run[0] = {0}
    BY <2>1
  <2>3. ASSUME NEW k \in 1 .. Len(code) PROVE run[k] = Further(code, run[k - 1])
    BY <2>1
  <2> QED
    BY <2>2, <2>3 DEF Running
<1>6. Starts(code) = run[Len(code)]
  BY DEF Starts
<1> QED
  BY <1>5, <1>6

LEMMA FurtherStays ==
  ASSUME NEW code, NEW starts, WellFormed(code, starts), NEW A \in SUBSET starts
  PROVE  A \subseteq Further(code, A) /\ Further(code, A) \subseteq starts
<1>1. ASSUME NEW a \in A PROVE Successors(code, a) \subseteq starts
  <2>1. a \in starts /\ a < Len(code) => a \in starts \ {Len(code)}
    OBVIOUS
  <2> QED
    BY <2>1 DEF Successors, WellFormed
<1> DEFINE on == UNION {Successors(code, a) : a \in A}
<1>2. on \subseteq starts
  BY <1>1, Zenon
<1>3. Further(code, A) = A \union on
  BY DEF Further
<1> HIDE DEF on
<1> QED
  BY <1>2, <1>3

(* Each step finds another address, or there are no more to find.          *)
LEMMA RunCloses ==
  ASSUME NEW code, Len(code) \in Nat, NEW starts, WellFormed(code, starts)
  PROVE  /\ Starts(code) \subseteq starts /\ 0 \in Starts(code)
         /\ Further(code, Starts(code)) = Starts(code)
<1> DEFINE size == Len(code)
<1>1. PICK g : Running(g, size, code) /\ Starts(code) = g[size]
  BY StartsUnfold
<1>2. /\ starts \subseteq 0 .. size /\ 0 \in starts
      /\ IsFiniteSet(starts) /\ Cardinality(starts) \in Nat
      /\ Cardinality(starts) <= size + 1
  <2>1. starts \subseteq 0 .. size /\ 0 \in starts
    BY DEF WellFormed
  <2>2. IsFiniteSet(0 .. size) /\ Cardinality(0 .. size) = size + 1
    BY FS_Interval
  <2> QED
    BY <2>1, <2>2, FS_Subset, FS_CardinalityType
<1> HIDE DEF size
<1>3. size \in Nat
  BY DEF size
<1> DEFINE Right(m) ==
             /\ g[m] \subseteq starts /\ 0 \in g[m]
             /\ Further(code, g[m]) = g[m] \/ Cardinality(g[m]) >= m + 1
           Wrong == {m \in 0 .. size : ~ Right(m)}
<1>4. Wrong = {}
  <2> SUFFICES ASSUME Wrong # {} PROVE FALSE
    OBVIOUS
  <2>1. PICK m \in Wrong : \A j \in Wrong : m <= j
    <3> HIDE DEF Right
    <3>1. Wrong \subseteq Nat
      BY <1>3
    <3> QED
      BY <3>1, LeastNumber
  <2>2. m \in 0 .. size /\ ~ Right(m)
    BY <2>1
  <2>3. m # 0
    <3>1. g[0] = {0} /\ Cardinality(g[0]) = 1
      BY <1>1, FS_Singleton DEF Running
    <3>2. Right(0)
      BY <1>2, <3>1
    <3> QED
      BY <2>2, <3>2
  <2>4. Right(m - 1)
    <3>1. m - 1 \in 0 .. size /\ m - 1 \notin Wrong
      BY <1>3, <2>1, <2>2, <2>3
    <3> QED
      BY <3>1
  <2>5. g[m] = Further(code, g[m - 1])
    BY <1>1, <1>3, <2>2, <2>3 DEF Running
  <2>6. g[m - 1] \subseteq g[m] /\ g[m] \subseteq starts
    BY <2>4, <2>5, FurtherStays
  <2>7. CASE Further(code, g[m - 1]) = g[m - 1]
    <3>1. g[m] = g[m - 1]
      BY <2>5, <2>7
    <3>2. Right(m)
      BY <2>4, <2>7, <3>1
    <3> QED
      BY <2>2, <3>2
  <2>8. CASE Further(code, g[m - 1]) # g[m - 1]
    <3>1. IsFiniteSet(g[m]) /\ IsFiniteSet(g[m - 1])
      BY <1>2, <2>4, <2>6, FS_Subset
    <3>2. Cardinality(g[m]) \in Nat /\ Cardinality(g[m - 1]) \in Nat
      BY <3>1, FS_CardinalityType
    <3>3. Cardinality(g[m - 1]) <= Cardinality(g[m]) /\ Cardinality(g[m - 1]) # Cardinality(g[m])
      BY <2>5, <2>6, <2>8, <3>1, FS_Subset
    <3>4. Cardinality(g[m - 1]) >= m
      BY <2>2, <2>4, <2>8, <3>2
    <3>5. Cardinality(g[m]) >= m + 1
      BY <2>2, <3>2, <3>3, <3>4
    <3>6. Right(m)
      BY <2>4, <2>6, <3>5
    <3> QED
      BY <2>2, <3>6
  <2> QED
    BY <2>7, <2>8
<1>5. Right(size)
  BY <1>3, <1>4
<1>6. CASE Cardinality(g[size]) >= size + 1
  <2>1. Cardinality(g[size]) \in Nat /\ Cardinality(g[size]) <= Cardinality(starts)
    BY <1>2, <1>5, FS_Subset, FS_CardinalityType
  <2>2. Cardinality(g[size]) = Cardinality(starts)
    BY <1>2, <1>3, <1>6, <2>1
  <2>3. g[size] = starts
    BY <1>2, <1>5, <2>2, FS_Subset
  <2>4. Further(code, starts) = starts
    <3>1. starts \in SUBSET starts
      OBVIOUS
    <3> QED
      BY <3>1, FurtherStays
  <2> QED
    BY <1>1, <1>5, <2>3, <2>4
<1> QED
  BY <1>1, <1>5, <1>6

LEMMA StartsAreWellFormed ==
  ASSUME NEW code, Len(code) \in Nat, IsWellFormed(code)
  PROVE  WellFormed(code, Starts(code))
<1>1. PICK starts : WellFormed(code, starts)
  BY DEF IsWellFormed
<1>2. /\ Starts(code) \subseteq starts /\ 0 \in Starts(code)
      /\ Further(code, Starts(code)) = Starts(code)
  BY <1>1, RunCloses
<1>3. starts \subseteq 0 .. Len(code)
  BY <1>1 DEF WellFormed
<1>4. ASSUME NEW a \in Starts(code) \ {Len(code)}, code[a + 1] \in DOMAIN Opcode
      PROVE  a + Size(code[a + 1]) <= Len(code) /\ Targets(code, a) \subseteq Starts(code)
  <2>1. a \in starts \ {Len(code)} /\ a < Len(code)
    <3>1. a \in Starts(code) /\ a # Len(code)
      OBVIOUS
    <3>2. a \in starts /\ a \in 0 .. Len(code)
      BY <3>1, <1>2, <1>3, Zenon
    <3>3. a < Len(code)
      BY <3>1, <3>2
    <3> QED
      BY <3>1, <3>2, <3>3
  <2>2. Successors(code, a) = Targets(code, a)
    BY <1>4, <2>1 DEF Successors
  <2>3. Successors(code, a) \subseteq Further(code, Starts(code))
    BY DEF Further
  <2> QED
    BY <1>1, <1>2, <1>4, <2>1, <2>2, <2>3 DEF WellFormed
<1> QED
  BY <1>1, <1>2, <1>3, <1>4 DEF WellFormed
-----------------------------------------------------------------------------
(* Where heights are given, the abstract run with heights finds those of   *)
(* the addresses that the one without finds.                               *)
WithHeights(heights, A) == {[at |-> a, height |-> heights[a]] : a \in A}

Walked(code, R) == UNION {{r} \union Follow(code, r) : r \in R}

LEMMA FollowsHeights ==
  ASSUME NEW code, Len(code) \in Nat, NEW heights, Balanced(code, heights),
         NEW a \in DOMAIN heights
  PROVE  Follow(code, [at |-> a, height |-> heights[a]]) =
           WithHeights(heights, Successors(code, a))
<1> DEFINE op == code[a + 1]
           onw == heights[a] - Takes(op) + Gives(op)
<1>1. a \in Nat /\ a < Len(code)
  <2>1. DOMAIN heights \subseteq 0 .. Len(code) /\ Len(code) \notin DOMAIN heights
    BY DEF Balanced, WellFormed
  <2> QED
    BY <2>1
<1>2. /\ op \in DOMAIN Opcode
      /\ heights[a] \in Takes(op) .. STACK_SIZE
      /\ \A t \in Targets(code, a) : heights[t] = onw
  BY DEF Balanced
<1>3. heights[a] \in 0 .. STACK_SIZE
  <2>1. Takes(op) \in Nat /\ STACK_SIZE \in Nat
    BY StackAssumption DEF Takes
  <2> HIDE DEF op
  <2> QED
    BY <1>2, <2>1
<1>4. Op(At(code, a)) = op
  BY <1>1 DEF Op, At, NewProcessor, Fetch
<1>5. Follow(code, [at |-> a, height |-> heights[a]]) =
        {[at |-> t, height |-> onw] : t \in Targets(code, a)}
  <2> HIDE DEF op
  <2> QED
    BY <1>1, <1>3, <1>4 DEF Follow
<1>6. Successors(code, a) = Targets(code, a)
  BY <1>1, <1>2 DEF Successors
<1> HIDE DEF onw
<1> QED
  BY <1>2, <1>5, <1>6 DEF WithHeights

LEMMA WalksOn ==
  ASSUME NEW code, Len(code) \in Nat, NEW heights, Balanced(code, heights),
         NEW A \in SUBSET DOMAIN heights
  PROVE  Walked(code, WithHeights(heights, A)) = WithHeights(heights, Further(code, A))
<1> DEFINE pair(a) == [at |-> a, height |-> heights[a]]
<1>1. \A a \in A : Follow(code, pair(a)) = {pair(t) : t \in Successors(code, a)}
  BY FollowsHeights DEF WithHeights
<1>2. Walked(code, WithHeights(heights, A)) =
        UNION {{pair(a)} \union Follow(code, pair(a)) : a \in A}
  BY DEF Walked, WithHeights
<1>3. WithHeights(heights, Further(code, A)) =
        UNION {{pair(a)} \union {pair(t) : t \in Successors(code, a)} : a \in A}
  BY DEF WithHeights, Further
<1> HIDE DEF pair
<1> QED
  BY <1>1, <1>2, <1>3

LEMMA ReachedHeights ==
  ASSUME NEW code, Len(code) \in Nat, NEW heights, Balanced(code, heights)
  PROVE  Reached(code) = WithHeights(heights, Starts(code))
<1> DEFINE size == Len(code)
           first == {[at |-> 0, height |-> 0]}
           body(g) == [k \in 0 .. Len(code) |->
                         IF k = 0 THEN {[at |-> 0, height |-> 0]}
                         ELSE UNION {{r} \union Follow(code, r) : r \in g[k - 1]}]
           run == CHOOSE g : g = body(g)
<1>1. PICK g : Running(g, size, code) /\ Starts(code) = g[size]
  BY StartsUnfold
<1>2. WellFormed(code, DOMAIN heights) /\ heights[0] = 0
  BY DEF Balanced
<1>3. \A k \in 0 .. size : g[k] \in SUBSET DOMAIN heights
  <2> SUFFICES ASSUME {k \in 0 .. size : g[k] \notin SUBSET DOMAIN heights} # {} PROVE FALSE
    OBVIOUS
  <2> DEFINE Wrong == {k \in 0 .. size : g[k] \notin SUBSET DOMAIN heights}
  <2>1. PICK k \in Wrong : \A j \in Wrong : k <= j
    <3>1. Wrong \subseteq Nat
      OBVIOUS
    <3> HIDE DEF Wrong
    <3> QED
      BY <3>1, LeastNumber DEF Wrong
  <2>2. k # 0
    <3>1. g[0] = {0} /\ 0 \in DOMAIN heights
      BY <1>1, <1>2 DEF Running, WellFormed
    <3> QED
      BY <2>1, <3>1
  <2>3. k \in 1 .. size /\ k - 1 \in 0 .. size /\ k - 1 \notin Wrong
    BY <2>1, <2>2
  <2>4. g[k] = Further(code, g[k - 1]) /\ g[k - 1] \in SUBSET DOMAIN heights
    BY <1>1, <2>3 DEF Running
  <2>5. g[k] \subseteq DOMAIN heights
    BY <1>2, <2>4, FurtherStays
  <2> QED
    BY <2>1, <2>5
<1> DEFINE h == [k \in 0 .. Len(code) |-> WithHeights(heights, g[k])]
<1>4. WithHeights(heights, g[0]) = first
  <2>1. g[0] = {0}
    BY <1>1 DEF Running
  <2> QED
    BY <1>2, <2>1 DEF WithHeights
<1>5. ASSUME NEW k \in 1 .. size
      PROVE  WithHeights(heights, g[k]) = Walked(code, WithHeights(heights, g[k - 1]))
  <2>1. g[k] = Further(code, g[k - 1]) /\ k - 1 \in 0 .. size
    BY <1>1 DEF Running
  <2> QED
    BY <1>3, <2>1, WalksOn
<1>6. \A k \in 0 .. Len(code) : h[k] = body(h)[k]
  <2> TAKE k \in 0 .. Len(code)
  <2>1. CASE k = 0
    BY <1>4, <2>1
  <2>2. CASE k # 0
    <3>1. k \in 1 .. size /\ k - 1 \in 0 .. Len(code)
      BY <2>2
    <3>2. h[k] = Walked(code, h[k - 1])
      <4>1. h[k] = WithHeights(heights, g[k]) /\ h[k - 1] = WithHeights(heights, g[k - 1])
        BY <3>1
      <4> HIDE DEF h
      <4> QED
        BY <1>5, <3>1, <4>1
    <3> HIDE DEF h
    <3> QED
      BY <2>2, <3>2 DEF Walked
  <2> QED
    BY <2>1, <2>2
<1>7. run = body(run)
  <2>1. h = [k \in 0 .. Len(code) |-> h[k]] /\ body(h) = [k \in 0 .. Len(code) |-> body(h)[k]]
    OBVIOUS
  <2>2. h = body(h)
    <3> HIDE DEF h, body
    <3> QED
      BY <1>6, <2>1
  <2> HIDE DEF body, h
  <2> QED
    BY <2>2
<1>8. run[0] = first /\ \A k \in 1 .. size : run[k] = Walked(code, run[k - 1])
  <2> HIDE DEF run
  <2>1. ASSUME NEW k \in 0 .. Len(code)
        PROVE  run[k] = IF k = 0 THEN first ELSE Walked(code, run[k - 1])
    BY <1>7 DEF Walked
  <2> QED
    BY <2>1
<1>9. \A k \in 0 .. size : run[k] = WithHeights(heights, g[k])
  <2> HIDE DEF run
  <2> DEFINE Wrong == {k \in 0 .. size : run[k] # WithHeights(heights, g[k])}
  <2> SUFFICES ASSUME Wrong # {} PROVE FALSE
    OBVIOUS
  <2>1. PICK k \in Wrong : \A j \in Wrong : k <= j
    <3>1. Wrong \subseteq Nat
      OBVIOUS
    <3> HIDE DEF Wrong
    <3> QED
      BY <3>1, LeastNumber
  <2>2. k # 0
    BY <1>4, <1>8, <2>1
  <2>3. k \in 1 .. size /\ k - 1 \in 0 .. size /\ k - 1 \notin Wrong
    BY <2>1, <2>2
  <2> QED
    BY <1>5, <1>8, <2>1, <2>3
<1>10. Reached(code) = run[size]
  BY DEF Reached
<1> HIDE DEF run
<1> QED
  BY <1>1, <1>9, <1>10

(* Whether code keeps its balance is decided by running it once without    *)
(* its data: it has heights if and only if those that this run finds are   *)
(* some.  Blocks asks that of what compile() returns, where the theorems   *)
(* on the interpreter assume that there are heights.                       *)
THEOREM BalanceIsDecided ==
  ASSUME NEW code, Len(code) \in Nat
  PROVE  IsBalanced(code) <=>
           /\ AgreeOnHeights(Reached(code))
           /\ Balanced(code, HeightsOf(Reached(code)))
<1>1. ASSUME IsBalanced(code)
      PROVE  /\ AgreeOnHeights(Reached(code))
             /\ Balanced(code, HeightsOf(Reached(code)))
  <2>1. PICK heights : Balanced(code, heights)
    BY <1>1 DEF IsBalanced
  <2> DEFINE R == Reached(code)
             S == Starts(code)
  <2>2. R = {[at |-> a, height |-> heights[a]] : a \in S}
    BY <2>1, ReachedHeights DEF WithHeights
  <2>3. IsWellFormed(code) /\ WellFormed(code, DOMAIN heights)
    BY <1>1, <2>1 DEF IsBalanced, IsWellFormed, Balanced
  <2>4. WellFormed(code, S) /\ S \subseteq DOMAIN heights
    BY <2>3, StartsAreWellFormed, RunCloses
  <2> HIDE DEF R, S
  <2>5. AgreeOnHeights(R)
    BY <2>2 DEF AgreeOnHeights
  <2>6. Addresses(R) = S
    <3>1. \A r \in R : r.at \in S
      BY <2>2
    <3>2. ASSUME NEW a \in S PROVE \E r \in R : r.at = a
      <4>1. [at |-> a, height |-> heights[a]] \in R
        BY <2>2
      <4> QED
        BY <4>1
    <3> QED
      BY <3>1, <3>2 DEF Addresses
  <2>7. DOMAIN HeightsOf(R) = S /\ \A a \in S : HeightsOf(R)[a] = heights[a]
    <3>1. DOMAIN HeightsOf(R) = S
      BY <2>6 DEF HeightsOf
    <3>2. ASSUME NEW a \in S PROVE HeightsOf(R)[a] = heights[a]
      <4>1. [at |-> a, height |-> heights[a]] \in R
        BY <2>2
      <4>2. \A r \in R : r.at = a => r.height = heights[a]
        BY <2>2
      <4>3. (CHOOSE r \in R : r.at = a).height = heights[a]
        BY <4>1, <4>2
      <4> QED
        BY <2>6, <4>3 DEF HeightsOf
    <3> QED
      BY <3>1, <3>2
  <2>8. Len(code) \notin S /\ 0 \in S /\ heights[0] = 0
    BY <2>1, <2>4 DEF Balanced, WellFormed
  <2>9. ASSUME NEW a \in S
        PROVE  /\ code[a + 1] \in DOMAIN Opcode
               /\ HeightsOf(R)[a] \in Takes(code[a + 1]) .. STACK_SIZE
               /\ \A t \in Targets(code, a) :
                    HeightsOf(R)[t] = HeightsOf(R)[a] - Takes(code[a + 1]) + Gives(code[a + 1])
    <3>1. a \in DOMAIN heights /\ a # Len(code)
      BY <2>4, <2>8
    <3>2. /\ code[a + 1] \in DOMAIN Opcode
          /\ heights[a] \in Takes(code[a + 1]) .. STACK_SIZE
          /\ \A t \in Targets(code, a) :
               heights[t] = heights[a] - Takes(code[a + 1]) + Gives(code[a + 1])
      BY <2>1, <3>1 DEF Balanced
    <3>3. Targets(code, a) \subseteq S
      BY <2>4, <3>1, <3>2 DEF WellFormed
    <3> QED
      BY <2>7, <3>2, <3>3
  <2>10. Balanced(code, HeightsOf(R))
    BY <2>4, <2>7, <2>8, <2>9 DEF Balanced
  <2> QED
    BY <2>5, <2>10 DEF R
<1>2. ASSUME Balanced(code, HeightsOf(Reached(code)))
      PROVE  IsBalanced(code)
  <2> DEFINE heights == HeightsOf(Reached(code))
  <2>1. heights = [a \in DOMAIN heights |-> heights[a]]
    BY DEF HeightsOf
  <2> HIDE DEF heights
  <2>2. Balanced(code, heights)
    BY <1>2 DEF heights
  <2>3. DOMAIN heights \in SUBSET (0 .. Len(code))
    BY <2>2 DEF Balanced, WellFormed
  <2>4. ASSUME NEW a \in DOMAIN heights PROVE heights[a] \in 0 .. STACK_SIZE
    <3>1. heights[a] \in Takes(code[a + 1]) .. STACK_SIZE
      BY <2>2 DEF Balanced
    <3>2. Takes(code[a + 1]) \in Nat /\ STACK_SIZE \in Nat
      BY StackAssumption DEF Takes
    <3> QED
      BY <3>1, <3>2
  <2>5. heights \in [DOMAIN heights -> 0 .. STACK_SIZE]
    BY <2>1, <2>4
  <2> QED
    BY <2>2, <2>3, <2>5 DEF IsBalanced
<1> QED
  BY <1>1, <1>2

-----------------------------------------------------------------------------
(* Code that is being assembled.  At each address of heights begins an     *)
(* instruction, or the code ends; the stack is as high there as heights    *)
(* says; and jumps lead to such addresses, but those that are open: their  *)
(* operands, at the places open, are still missing.                        *)
JumpOps == {OP["JMP"], OP["FJMP"]}
After(op, height) == height - Takes(op) + Gives(op)
Goal(code, a) == code[a + 2] + code[a + 3] * (UINT8_MAX + 1)

Stands(op, code, heights, open, a) ==
  /\ op \in DOMAIN Opcode /\ a + Size(op) \in DOMAIN heights
  /\ (a + 1 .. a + Size(op) - 1) \intersect DOMAIN heights = {}
  /\ Takes(op) <= heights[a]
  /\ op \notin {OP["HALT"], OP["JMP"]} => heights[a + Size(op)] = After(op, heights[a])
  /\ op \in JumpOps /\ a + 1 \notin open =>
       Goal(code, a) \in DOMAIN heights /\ heights[Goal(code, a)] = After(op, heights[a])

Assembles(code, heights, open, a) == Stands(code[a + 1], code, heights, open, a)

Assembled(code, heights, open) ==
  /\ DOMAIN heights \subseteq 0 .. Len(code)
  /\ 0 \in DOMAIN heights /\ Len(code) \in DOMAIN heights
  /\ heights[0] = 0
  /\ \A a \in DOMAIN heights : heights[a] \in 0 .. STACK_SIZE
  /\ \A a \in DOMAIN heights \ {Len(code)} : Assembles(code, heights, open, a)
  /\ \A s \in open : /\ s \in Nat /\ s - 1 \in DOMAIN heights \ {Len(code)}
                     /\ code[s] \in JumpOps

(* What the proofs need of an instruction's size and effect.              *)
LEMMA OpFacts ==
  ASSUME NEW op \in DOMAIN Opcode
  PROVE  /\ op \in 1 .. 41 /\ Size(op) \in 1 .. 3 /\ Takes(op) \in 0 .. 2 /\ Gives(op) \in 0 .. 2
         /\ op \in JumpOps <=> op \in {23, 24}
         /\ op \in JumpOps <=> Size(op) = 3
         /\ op = OP["HALT"] <=> op = 41
         /\ op = OP["JMP"] <=> op = 23
BY Numbers DEF Size, Takes, Gives, JumpOps

(* Nothing has been assembled.                                             *)
LEMMA NothingIsAssembled == Assembled(<< >>, [a \in {0} |-> 0], {})
BY StackAssumption DEF Assembled

(* The next instruction is appended.  It finds on the stack what it takes; *)
(* if it is a jump, it leads to where the stack is as high as it leaves    *)
(* it, or is open; if nothing comes after it, the next address may have    *)
(* any height.                                                             *)
Then(heights, end, height) ==
  [a \in DOMAIN heights \union {end} |-> IF a = end THEN height ELSE heights[a]]

LEMMA Appended ==
  ASSUME NEW code \in Seq(Byte), NEW heights, NEW open, Assembled(code, heights, open),
         NEW bytes \in Seq(Byte), NEW new \in SUBSET {Len(code) + 1}, NEW height \in 0 .. STACK_SIZE,
         bytes # << >>, bytes[1] \in DOMAIN Opcode, Len(bytes) = Size(bytes[1]),
         Takes(bytes[1]) <= heights[Len(code)],
         bytes[1] \notin {OP["HALT"], OP["JMP"]} =>
           height = After(bytes[1], heights[Len(code)]),
         bytes[1] \in JumpOps /\ new = {} =>
           /\ bytes[2] + bytes[3] * (UINT8_MAX + 1) \in DOMAIN heights
           /\ heights[bytes[2] + bytes[3] * (UINT8_MAX + 1)] = After(bytes[1], heights[Len(code)]),
         bytes[1] \notin JumpOps => new = {}
  PROVE  /\ code \o bytes \in Seq(Byte) /\ Len(code \o bytes) = Len(code) + Len(bytes)
         /\ Assembled(code \o bytes, Then(heights, Len(code) + Len(bytes), height), open \union new)
<1> DEFINE N     == Len(code)
           op    == bytes[1]
           code2 == code \o bytes
           h2    == Then(heights, N + Len(bytes), height)
           open2 == open \union new
<1>1. /\ N \in Nat /\ Len(bytes) \in 1 .. 3 /\ Len(bytes) = Size(op) /\ op \in DOMAIN Opcode
      /\ op \in JumpOps <=> Len(bytes) = 3
  BY OpFacts
<1>2. /\ code2 \in Seq(Byte) /\ Len(code2) = N + Len(bytes)
      /\ \A k \in 1 .. N : code2[k] = code[k]
      /\ \A k \in 1 .. Len(bytes) : code2[N + k] = bytes[k]
  <2>1. /\ code2 \in Seq(Byte) /\ Len(code2) = N + Len(bytes)
        /\ \A k \in 1 .. N + Len(bytes) : code2[k] = IF k <= N THEN code[k] ELSE bytes[k - N]
    BY ConcatProperties
  <2> HIDE DEF code2, N
  <2>2. \A k \in 1 .. N : code2[k] = code[k]
    BY <1>1, <2>1
  <2>3. ASSUME NEW k \in 1 .. Len(bytes) PROVE code2[N + k] = bytes[k]
    <3>1. N + k \in 1 .. N + Len(bytes) /\ ~(N + k <= N) /\ (N + k) - N = k
      BY <1>1
    <3> QED
      BY <2>1, <3>1
  <2> QED
    BY <2>1, <2>2, <2>3
<1>3. /\ DOMAIN heights \subseteq 0 .. N /\ 0 \in DOMAIN heights /\ N \in DOMAIN heights
      /\ heights[0] = 0 /\ \A a \in DOMAIN heights : heights[a] \in 0 .. STACK_SIZE
      /\ \A a \in DOMAIN heights \ {N} : Assembles(code, heights, open, a)
      /\ \A s \in open : s \in Nat /\ s - 1 \in DOMAIN heights \ {N} /\ code[s] \in JumpOps
  BY DEF Assembled
<1>4. /\ DOMAIN h2 = DOMAIN heights \union {N + Len(bytes)}
      /\ h2[N + Len(bytes)] = height
      /\ \A a \in DOMAIN heights : h2[a] = heights[a]
  <2>1. N + Len(bytes) \notin DOMAIN heights
    BY <1>1, <1>3
  <2> QED
    BY <2>1 DEF Then
<1> HIDE DEF N, code2, h2
<1>5. ASSUME NEW a \in DOMAIN heights \ {N} PROVE Assembles(code2, h2, open2, a)
  <2> DEFINE was == code[a + 1]
  <2>0. a \in 0 .. N - 1 /\ a \in DOMAIN heights /\ Assembles(code, heights, open, a)
    BY <1>1, <1>3
  <2>1. /\ was \in DOMAIN Opcode /\ a + Size(was) \in DOMAIN heights
        /\ (a + 1 .. a + Size(was) - 1) \intersect DOMAIN heights = {}
        /\ Takes(was) <= heights[a]
        /\ was \notin {OP["HALT"], OP["JMP"]} => heights[a + Size(was)] = After(was, heights[a])
        /\ was \in JumpOps /\ a + 1 \notin open =>
             Goal(code, a) \in DOMAIN heights /\ heights[Goal(code, a)] = After(was, heights[a])
    BY <2>0 DEF Assembles, Stands
  <2>2. code2[a + 1] = was
    <3>1. a + 1 \in 1 .. N
      BY <1>1, <2>0
    <3> QED
      BY <1>2, <3>1
  <2> HIDE DEF was
  <2>3. Size(was) \in 1 .. 3 /\ a + Size(was) \in 0 .. N /\ (was \in JumpOps => Size(was) = 3)
    BY <1>3, <2>0, <2>1, OpFacts
  <2>4. was \in JumpOps => Goal(code2, a) = Goal(code, a)
    <3> SUFFICES ASSUME was \in JumpOps PROVE Goal(code2, a) = Goal(code, a)
      OBVIOUS
    <3>1. a + 2 \in 1 .. N /\ a + 3 \in 1 .. N
      <4>1. Size(was) = 3 /\ a + 3 \in 0 .. N
        BY <2>3
      <4> QED
        BY <1>1, <2>0, <4>1
    <3> QED
      BY <1>2, <3>1 DEF Goal
  <2>5. a + 1 \notin open2 => a + 1 \notin open
    OBVIOUS
  <2>6. (a + 1 .. a + Size(was) - 1) \intersect DOMAIN h2 = {}
    BY <1>1, <1>4, <2>0, <2>1, <2>3
  <2>7. /\ a + Size(was) \in DOMAIN h2 /\ h2[a + Size(was)] = heights[a + Size(was)]
        /\ h2[a] = heights[a]
    BY <1>4, <2>0, <2>1
  <2>8. was \in JumpOps /\ a + 1 \notin open2 =>
          Goal(code2, a) \in DOMAIN h2 /\ h2[Goal(code2, a)] = After(was, h2[a])
    BY <1>4, <2>1, <2>4, <2>5, <2>7
  <2>9. was \notin {OP["HALT"], OP["JMP"]} => h2[a + Size(was)] = After(was, h2[a])
    BY <2>1, <2>7
  <2> HIDE DEF open2
  <2> QED
    BY <2>1, <2>2, <2>6, <2>7, <2>8, <2>9 DEF Assembles, Stands
<1>6. Assembles(code2, h2, open2, N)
  <2>1. code2[N + 1] = op /\ h2[N] = heights[N]
    BY <1>1, <1>2, <1>3, <1>4
  <2>2. N + Size(op) = N + Len(bytes)
    BY <1>1
  <2>3. (N + 1 .. N + Size(op) - 1) \intersect DOMAIN h2 = {}
    <3>1. N + Size(op) - 1 = N + Len(bytes) - 1
      BY <1>1
    <3>2. \A k \in N + 1 .. N + Len(bytes) - 1 : k \notin 0 .. N /\ k # N + Len(bytes)
      BY <1>1
    <3> QED
      BY <1>3, <1>4, <3>1, <3>2
  <2>4. op \in JumpOps /\ N + 1 \notin open2 =>
          /\ Goal(code2, N) \in DOMAIN h2
          /\ h2[Goal(code2, N)] = After(op, h2[N])
    <3> SUFFICES ASSUME op \in JumpOps, N + 1 \notin open2
                 PROVE  /\ Goal(code2, N) \in DOMAIN h2
                        /\ h2[Goal(code2, N)] = After(op, h2[N])
      OBVIOUS
    <3>1. new = {}
      BY DEF N
    <3>2. code2[N + 2] = bytes[2] /\ code2[N + 3] = bytes[3]
      BY <1>1, <1>2
    <3>3. Goal(code2, N) = bytes[2] + bytes[3] * (UINT8_MAX + 1)
      BY <3>2 DEF Goal
    <3> QED
      BY <1>4, <2>1, <3>1, <3>3 DEF N
  <2>5. op \notin {OP["HALT"], OP["JMP"]} => h2[N + Size(op)] = After(op, h2[N])
    BY <1>4, <2>1, <2>2 DEF N
  <2>6. Takes(op) <= h2[N] /\ N + Size(op) \in DOMAIN h2
    BY <1>4, <2>1, <2>2 DEF N
  <2> HIDE DEF op, open2
  <2> QED
    BY <1>1, <2>1, <2>3, <2>4, <2>5, <2>6 DEF Assembles, Stands
<1>7. ASSUME NEW s \in open2
      PROVE  s \in Nat /\ s - 1 \in DOMAIN h2 \ {N + Len(bytes)} /\ code2[s] \in JumpOps
  <2>1. CASE s \in open
    <3>1. s \in 1 .. N /\ s - 1 \in DOMAIN heights /\ code[s] \in JumpOps
      BY <1>1, <1>3, <2>1
    <3> QED
      BY <1>1, <1>2, <1>4, <3>1
  <2>2. CASE s \in new
    <3>1. s = N + 1 /\ op \in JumpOps
      BY <2>2 DEF N
    <3>2. code2[N + 1] = op
      BY <1>1, <1>2
    <3> QED
      BY <1>1, <1>3, <1>4, <3>1, <3>2
  <2> QED
    BY <2>1, <2>2
<1>8. DOMAIN h2 \subseteq 0 .. N + Len(bytes)
  BY <1>1, <1>3, <1>4
<1>9. \A a \in DOMAIN h2 \ {N + Len(bytes)} : Assembles(code2, h2, open2, a)
  BY <1>4, <1>5, <1>6
<1>10. \A a \in DOMAIN h2 : h2[a] \in 0 .. STACK_SIZE
  BY <1>3, <1>4
<1> HIDE DEF open2
<1>11. Assembled(code2, h2, open2)
  BY <1>2, <1>3, <1>4, <1>7, <1>8, <1>9, <1>10 DEF Assembled
<1> QED
  BY <1>2, <1>11 DEF N, code2, h2, open2

(* A 16-bit address from its two bytes.                                    *)
LEMMA Recombined ==
  ASSUME NEW addr \in 0 .. UINT16_MAX
  PROVE  /\ Low(addr) \in Byte /\ High(addr) \in Byte
         /\ Low(addr) + High(addr) * (UINT8_MAX + 1) = addr
<1> DEFINE low  == addr % 256
           high == addr \div 256
<1>1. UINT8_MAX + 1 = 256
  BY BytecodeAssumption
<1>2. addr \in Nat /\ addr < 256 * 256
  BY <1>1 DEF UINT16_MAX
<1>3. high \in Nat /\ low \in 0 .. 255 /\ addr = low + high * 256
  BY <1>2
<1>4. Low(addr) = low /\ High(addr) = high % 256
  BY <1>1 DEF Low, High
<1> HIDE DEF low, high
<1>5. high \in 0 .. 255
  BY <1>2, <1>3
<1>6. high % 256 = high
  BY <1>5
<1> QED
  BY <1>1, <1>3, <1>4, <1>5, <1>6, Bytes

(* Of what is patched, no byte is an opcode: an open jump gets its         *)
(* operand, and everything else stays.                                     *)
LEMMA PatchedBytes ==
  ASSUME NEW code \in Seq(Byte), NEW heights, NEW open, Assembled(code, heights, open),
         NEW slots \in SUBSET open, NEW addr \in 0 .. UINT16_MAX
  PROVE  /\ Patched(code, slots, addr) \in Seq(Byte)
         /\ Len(Patched(code, slots, addr)) = Len(code)
         /\ \A a \in DOMAIN heights \ {Len(code)} :
              /\ Patched(code, slots, addr)[a + 1] = code[a + 1]
              /\ code[a + 1] \in JumpOps =>
                   Goal(Patched(code, slots, addr), a) = IF a + 1 \in slots THEN addr ELSE Goal(code, a)
<1> DEFINE N     == Len(code)
           code2 == Patched(code, slots, addr)
<1>1. /\ N \in Nat /\ DOMAIN heights \subseteq 0 .. N
      /\ \A a \in DOMAIN heights \ {N} : Assembles(code, heights, open, a)
      /\ \A s \in slots : s \in Nat /\ s - 1 \in DOMAIN heights \ {N} /\ code[s] \in JumpOps
  BY DEF Assembled
<1>2. /\ code2 \in Seq(Byte) /\ Len(code2) = N
      /\ \A k \in 1 .. N : code2[k] = IF k - 1 \in slots THEN Low(addr)
                                      ELSE IF k - 2 \in slots THEN High(addr) ELSE code[k]
  <2>1. DOMAIN code = 1 .. N /\ \A k \in 1 .. N : code[k] \in Byte
    OBVIOUS
  <2>2. code2 \in [1 .. N -> Byte]
    BY <2>1, Recombined DEF Patched
  <2>3. code2 \in Seq(Byte) /\ Len(code2) = N
    BY <1>1, <2>2
  <2> QED
    BY <2>1, <2>3 DEF Patched
<1> HIDE DEF code2, N
<1>3. ASSUME NEW s \in slots
      PROVE  s \notin DOMAIN heights /\ s + 1 \notin DOMAIN heights
  <2>1. /\ s - 1 \in DOMAIN heights /\ s \in Nat /\ Assembles(code, heights, open, s - 1)
        /\ code[s] \in JumpOps
    BY <1>1
  <2>2. (s - 1) + 1 = s
    BY <2>1
  <2>3. Stands(code[s], code, heights, open, s - 1)
    BY <2>1, <2>2 DEF Assembles
  <2>4. Size(code[s]) = 3
    BY <2>1, <2>3, OpFacts DEF Stands
  <2>5. ((s - 1) + 1 .. (s - 1) + Size(code[s]) - 1) \intersect DOMAIN heights = {}
    BY <2>3 DEF Stands
  <2>6. s \in ((s - 1) + 1 .. (s - 1) + 3 - 1) /\ s + 1 \in ((s - 1) + 1 .. (s - 1) + 3 - 1)
    BY <2>1
  <2> QED
    BY <2>4, <2>5, <2>6
<1>4. ASSUME NEW a \in DOMAIN heights \ {N}
      PROVE  /\ code2[a + 1] = code[a + 1]
             /\ code[a + 1] \in JumpOps =>
                  Goal(code2, a) = IF a + 1 \in slots THEN addr ELSE Goal(code, a)
  <2>1. a \in 0 .. N - 1 /\ Stands(code[a + 1], code, heights, open, a)
    BY <1>1 DEF Assembles
  <2>2. a \notin slots /\ a - 1 \notin slots
    <3>1. a = (a - 1) + 1
      BY <2>1
    <3> QED
      BY <1>3, <3>1
  <2>3. a + 1 \in 1 .. N /\ (a + 1) - 1 = a /\ (a + 1) - 2 = a - 1
    BY <1>1, <2>1
  <2>4. code2[a + 1] = code[a + 1]
    BY <1>2, <2>2, <2>3
  <2>5. ASSUME code[a + 1] \in JumpOps
        PROVE  Goal(code2, a) = IF a + 1 \in slots THEN addr ELSE Goal(code, a)
    <3>1. /\ Size(code[a + 1]) = 3 /\ a + 3 \in DOMAIN heights
          /\ a + 2 \notin DOMAIN heights /\ a + 1 \notin DOMAIN heights
      <4>1. Size(code[a + 1]) = 3
        BY <2>1, <2>5, OpFacts DEF Stands
      <4>2. a + 3 \in DOMAIN heights /\ (a + 1 .. a + 3 - 1) \intersect DOMAIN heights = {}
        BY <2>1, <4>1 DEF Stands
      <4>3. a + 1 \in (a + 1 .. a + 3 - 1) /\ a + 2 \in (a + 1 .. a + 3 - 1)
        BY <2>1
      <4> QED
        BY <4>1, <4>2, <4>3
    <3>2. a + 2 \notin slots
      <4>1. \A s \in slots : s - 1 \in DOMAIN heights
        BY <1>1
      <4>2. (a + 2) - 1 = a + 1
        BY <2>1
      <4> QED
        BY <3>1, <4>1, <4>2
    <3>3. /\ a + 2 \in 1 .. N /\ (a + 2) - 1 = a + 1 /\ (a + 2) - 2 = a
          /\ a + 3 \in 1 .. N /\ (a + 3) - 1 = a + 2 /\ (a + 3) - 2 = a + 1
      BY <1>1, <2>1, <3>1
    <3>4. code2[a + 2] = IF a + 1 \in slots THEN Low(addr) ELSE code[a + 2]
      BY <1>2, <2>2, <3>3
    <3>5. code2[a + 3] = IF a + 1 \in slots THEN High(addr) ELSE code[a + 3]
      BY <1>2, <3>2, <3>3
    <3> QED
      BY <3>4, <3>5, Recombined DEF Goal
  <2> QED
    BY <2>4, <2>5
<1> QED
  BY <1>2, <1>4 DEF code2, N

(* The jumps at the places slots, and no others, lead to addr in next.     *)
Leads(code, heights, slots, addr, next) ==
  \A a \in DOMAIN heights \ {Len(code)} :
    /\ next[a + 1] = code[a + 1]
    /\ code[a + 1] \in JumpOps =>
         Goal(next, a) = IF a + 1 \in slots THEN addr ELSE Goal(code, a)

(* Open jumps are patched to where the stack is as high as they leave it.  *)
LEMMA PatchedIsAssembled ==
  ASSUME NEW code \in Seq(Byte), NEW heights, NEW open, Assembled(code, heights, open),
         NEW slots \in SUBSET open, NEW addr \in DOMAIN heights, addr <= UINT16_MAX,
         \A s \in slots : heights[addr] = After(code[s], heights[s - 1])
  PROVE  /\ Patched(code, slots, addr) \in Seq(Byte)
         /\ Len(Patched(code, slots, addr)) = Len(code)
         /\ Assembled(Patched(code, slots, addr), heights, open \ slots)
         /\ Leads(code, heights, slots, addr, Patched(code, slots, addr))
<1> DEFINE N     == Len(code)
           code2 == Patched(code, slots, addr)
           open2 == open \ slots
<1>1. /\ N \in Nat /\ DOMAIN heights \subseteq 0 .. N /\ 0 \in DOMAIN heights /\ N \in DOMAIN heights
      /\ heights[0] = 0 /\ \A a \in DOMAIN heights : heights[a] \in 0 .. STACK_SIZE
      /\ \A a \in DOMAIN heights \ {N} : Assembles(code, heights, open, a)
      /\ \A s \in open : s \in Nat /\ s - 1 \in DOMAIN heights \ {N} /\ code[s] \in JumpOps
  BY DEF Assembled
<1>2. addr \in 0 .. UINT16_MAX
  <2>1. UINT16_MAX \in Int
    BY BytecodeAssumption DEF UINT16_MAX
  <2> QED
    BY <1>1, <2>1
<1>3. /\ code2 \in Seq(Byte) /\ Len(code2) = N
      /\ \A a \in DOMAIN heights \ {N} :
           /\ code2[a + 1] = code[a + 1]
           /\ code[a + 1] \in JumpOps =>
                Goal(code2, a) = IF a + 1 \in slots THEN addr ELSE Goal(code, a)
  BY <1>2, PatchedBytes
<1> HIDE DEF code2, N, open2
<1>4. ASSUME NEW a \in DOMAIN heights \ {N} PROVE Assembles(code2, heights, open2, a)
  <2> DEFINE op == code[a + 1]
  <2>1. /\ op \in DOMAIN Opcode /\ a + Size(op) \in DOMAIN heights
        /\ (a + 1 .. a + Size(op) - 1) \intersect DOMAIN heights = {}
        /\ Takes(op) <= heights[a]
        /\ op \notin {OP["HALT"], OP["JMP"]} => heights[a + Size(op)] = After(op, heights[a])
        /\ op \in JumpOps /\ a + 1 \notin open =>
             Goal(code, a) \in DOMAIN heights /\ heights[Goal(code, a)] = After(op, heights[a])
    BY <1>1 DEF Assembles, Stands
  <2>2. code2[a + 1] = op /\ (a + 1) - 1 = a
    BY <1>1, <1>3
  <2>3. op \in JumpOps => Goal(code2, a) = IF a + 1 \in slots THEN addr ELSE Goal(code, a)
    BY <1>3
  <2>4. a + 1 \in slots => heights[addr] = After(op, heights[a])
    BY <2>2
  <2>5. a + 1 \notin open2 => a + 1 \in slots \/ a + 1 \notin open
    BY DEF open2
  <2> HIDE DEF op
  <2>6. op \in JumpOps /\ a + 1 \notin open2 =>
          Goal(code2, a) \in DOMAIN heights /\ heights[Goal(code2, a)] = After(op, heights[a])
    BY <2>1, <2>3, <2>4, <2>5
  <2> QED
    BY <2>1, <2>2, <2>6 DEF Assembles, Stands
<1>5. ASSUME NEW s \in open2
      PROVE  s \in Nat /\ s - 1 \in DOMAIN heights \ {N} /\ code2[s] \in JumpOps
  <2>1. s \in Nat /\ s - 1 \in DOMAIN heights \ {N} /\ code[s] \in JumpOps
    BY <1>1 DEF open2
  <2>2. (s - 1) + 1 = s
    BY <2>1
  <2> QED
    BY <1>3, <2>1, <2>2
<1>6. Assembled(code2, heights, open2)
  BY <1>1, <1>3, <1>4, <1>5 DEF Assembled
<1>7. Leads(code, heights, slots, addr, code2)
  BY <1>3 DEF Leads, N
<1> QED
  BY <1>3, <1>6, <1>7 DEF code2, N, open2

(* What the compiler leaves no jump of open, and what goes back to the     *)
(* start as it came, has its balance.                                      *)
THEOREM AssembledIsBalanced ==
  ASSUME NEW code \in Seq(Byte), NEW heights, Assembled(code, heights, {}),
         Len(code) \in 1 .. UINT8_MAX, heights[Len(code)] = 0
  PROVE  IsBalanced(code)
<1> DEFINE N      == Len(code)
           starts == DOMAIN heights \ {N}
           before == [a \in starts |-> heights[a]]
<1>1. /\ N \in Nat /\ DOMAIN heights \subseteq 0 .. N /\ 0 \in DOMAIN heights /\ N \in DOMAIN heights
      /\ heights[0] = 0 /\ \A a \in DOMAIN heights : heights[a] \in 0 .. STACK_SIZE
      /\ \A a \in DOMAIN heights \ {N} : Assembles(code, heights, {}, a)
  BY DEF Assembled
<1>2. N \in 1 .. 255 /\ N % 256 = N /\ 0 \in starts /\ starts \subseteq 0 .. N - 1
  <2>1. N \in 1 .. 255
    BY BytecodeAssumption
  <2> HIDE DEF N
  <2>2. N % 256 = N
    BY <2>1
  <2>3. \A a \in 0 .. N : a # N => a \in 0 .. N - 1
    BY <2>1
  <2>4. 0 \in starts /\ starts \subseteq 0 .. N - 1
    BY <1>1, <2>1, <2>3
  <2> QED
    BY <2>1, <2>2, <2>4
<1> HIDE DEF N
<1>3. ASSUME NEW a \in starts
      PROVE  LET op == code[a + 1] IN
             /\ op \in DOMAIN Opcode /\ a + Size(op) <= N
             /\ before[a] \in Takes(op) .. STACK_SIZE
             /\ \A t \in Targets(code, a) :
                  /\ t \in starts
                  /\ before[t] = before[a] - Takes(op) + Gives(op)
  <2> DEFINE op == code[a + 1]
             p  == At(code, a)
             W(t) == IF t = N THEN 0 ELSE t
  <2>1. Stands(op, code, heights, {}, a)
    BY <1>1 DEF Assembles
  <2>2. /\ op \in DOMAIN Opcode /\ a + Size(op) \in DOMAIN heights /\ Takes(op) <= heights[a]
        /\ op \notin {OP["HALT"], OP["JMP"]} =>
             heights[a + Size(op)] = heights[a] - Takes(op) + Gives(op)
        /\ op \in JumpOps => /\ Goal(code, a) \in DOMAIN heights
                             /\ heights[Goal(code, a)] = heights[a] - Takes(op) + Gives(op)
    BY <2>1 DEF Stands, After
  <2>3. /\ p.code = code /\ p.isp = a
    BY DEF At, NewProcessor
  <2>4. Op(p) = op /\ Addr(p) = Goal(code, a) /\ \A t : Wrapped(p, t) = W(t)
    <3>1. a \in Nat /\ a < N /\ a + 0 + 1 = a + 1 /\ a + 1 + 1 = a + 2 /\ a + 2 + 1 = a + 3
      BY <1>1, <1>2
    <3>2. Op(p) = op
      BY <2>3, <3>1 DEF Op, Fetch, N
    <3>3. Addr(p) = Goal(code, a)
      BY <2>3, <3>1 DEF Addr, Fetch, Goal
    <3>4. CodeEnd(p) = N
      <4>1. CodeEnd(p) = N % (UINT8_MAX + 1)
        BY <2>3 DEF CodeEnd, Wrap, N
      <4> QED
        BY <1>2, <4>1, BytecodeAssumption
    <3> QED
      BY <3>2, <3>3, <3>4 DEF Wrapped
  <2> HIDE DEF p, op
  <2>5. ASSUME NEW t \in DOMAIN heights
        PROVE  W(t) \in starts /\ before[W(t)] = heights[t]
    BY <1>1, <1>2 DEF N
  <2> HIDE DEF W, before
  <2>6. ASSUME NEW t \in Targets(code, a)
        PROVE  t \in starts /\ before[t] = heights[a] - Takes(op) + Gives(op)
    <3>1. CASE op = OP["HALT"]
      <4>1. Targets(code, a) = {}
        BY <2>4, <3>1, Numbers DEF Targets, p
      <4> QED
        BY <4>1
    <3>2. CASE op = OP["JMP"]
      <4>1. t = W(Goal(code, a)) /\ op \in JumpOps
        BY <2>4, <3>2, Numbers DEF Targets, JumpOps, p
      <4> QED
        BY <2>2, <2>5, <4>1
    <3>3. CASE op = OP["FJMP"]
      <4>1. (t = W(Goal(code, a)) \/ t = W(a + 3)) /\ op \in JumpOps
        BY <2>4, <3>3, Numbers DEF Targets, JumpOps, p
      <4>2. Size(op) = 3 /\ op \notin {OP["HALT"], OP["JMP"]}
        BY <3>3, Numbers DEF Size
      <4> QED
        BY <2>2, <2>5, <4>1, <4>2
    <3>4. CASE op \notin {OP["HALT"], OP["JMP"], OP["FJMP"]}
      <4>1. t = W(a + Size(op))
        BY <2>4, <3>4 DEF Targets, p
      <4> QED
        BY <2>2, <2>5, <3>4, <4>1
    <3> QED
      BY <3>1, <3>2, <3>3, <3>4
  <2>7. before[a] = heights[a] /\ heights[a] \in 0 .. STACK_SIZE
    BY <1>1 DEF before
  <2>8. Takes(op) \in 0 .. 2 /\ STACK_SIZE \in Int
    BY <2>2, OpFacts, StackAssumption
  <2>9. before[a] \in Takes(op) .. STACK_SIZE
    BY <2>2, <2>7, <2>8
  <2>10. a + Size(op) <= N
    BY <1>1, <2>2
  <2> QED
    BY <2>2, <2>6, <2>7, <2>9, <2>10 DEF op
<1>4. DOMAIN before = starts
  OBVIOUS
<1>5. before[0] = 0
  BY <1>1, <1>2
<1>6. before \in [starts -> 0 .. STACK_SIZE]
  BY <1>1
<1> HIDE DEF before, starts
<1>7. Balanced(code, before)
  <2>1. WellFormed(code, starts)
    <3>1. starts \subseteq 0 .. Len(code) /\ 0 \in starts
      BY <1>1, <1>2 DEF N, starts
    <3>2. \A a \in starts : /\ a + Size(code[a + 1]) <= Len(code)
                            /\ Targets(code, a) \subseteq starts
      BY <1>3 DEF N
    <3> QED
      BY <3>1, <3>2 DEF WellFormed
  <2>2. Len(code) \notin starts
    BY <1>2 DEF N
  <2>3. \A a \in starts :
          /\ code[a + 1] \in DOMAIN Opcode
          /\ before[a] \in Takes(code[a + 1]) .. STACK_SIZE
          /\ \A t \in Targets(code, a) :
               before[t] = before[a] - Takes(code[a + 1]) + Gives(code[a + 1])
    BY <1>3
  <2> QED
    BY <1>4, <1>5, <2>1, <2>2, <2>3 DEF Balanced
<1> QED
  <2>1. starts \in SUBSET (0 .. Len(code))
    BY <1>1 DEF starts, N
  <2> QED
    BY <1>6, <1>7, <2>1 DEF IsBalanced

(* A context of the compiler whose code is being assembled, and in the     *)
(* scope of a loop: continue leads to where an instruction begins, and the *)
(* breaks are open jumps that leave the stack as high as it is there.      *)
ScopeRecord == [breaks : SUBSET Nat, cont : Nat, freed : BOOLEAN]

Assembling(c, heights, open) ==
  /\ "code" \in DOMAIN c /\ "loops" \in DOMAIN c
  /\ c.code \in Seq(Byte) /\ c.loops \in Seq(ScopeRecord)
  /\ Assembled(c.code, heights, open)

InLoop(c, heights, open) ==
  /\ Depth(c) > 0 /\ ~Scope(c).freed
  /\ Scope(c).cont \in DOMAIN heights /\ Scope(c).cont <= UINT16_MAX
  /\ Scope(c).breaks \subseteq open
  /\ \A s \in Scope(c).breaks : After(c.code[s], heights[s - 1]) = heights[Scope(c).cont]

(* The heights before, and the new one.                                    *)
LEMMA ThenFacts ==
  ASSUME NEW heights, NEW end, NEW height, end \notin DOMAIN heights
  PROVE  /\ DOMAIN Then(heights, end, height) = DOMAIN heights \union {end}
         /\ Then(heights, end, height)[end] = height
         /\ \A a \in DOMAIN heights : Then(heights, end, height)[a] = heights[a]
BY DEF Then

(* Emit: as Appended, of a context, and the innermost loop stays one.      *)
LEMMA EmittedIsAssembled ==
  ASSUME NEW c, NEW heights, NEW open, Assembling(c, heights, open),
         NEW bytes \in Seq(Byte), NEW new \in SUBSET {Len(c.code) + 1}, NEW height \in 0 .. STACK_SIZE,
         bytes # << >>, bytes[1] \in DOMAIN Opcode, Len(bytes) = Size(bytes[1]),
         Takes(bytes[1]) <= heights[Len(c.code)],
         bytes[1] \notin {OP["HALT"], OP["JMP"]} =>
           height = After(bytes[1], heights[Len(c.code)]),
         bytes[1] \in JumpOps /\ new = {} =>
           /\ bytes[2] + bytes[3] * (UINT8_MAX + 1) \in DOMAIN heights
           /\ heights[bytes[2] + bytes[3] * (UINT8_MAX + 1)] = After(bytes[1], heights[Len(c.code)]),
         bytes[1] \notin JumpOps => new = {},
         NEW next, next = Then(heights, Len(c.code) + Len(bytes), height)
  PROVE  /\ Emit(c, bytes).code = c.code \o bytes /\ Emit(c, bytes).loops = c.loops
         /\ Len(Emit(c, bytes).code) = Len(c.code) + Len(bytes)
         /\ Emit(c, bytes).code[Len(c.code) + 1] = bytes[1]
         /\ Assembling(Emit(c, bytes), next, open \union new)
         /\ InLoop(c, heights, open) => InLoop(Emit(c, bytes), next, open \union new)
<1> DEFINE d == Emit(c, bytes)
           N == Len(c.code)
<1>1. /\ "code" \in DOMAIN c /\ "loops" \in DOMAIN c
      /\ c.code \in Seq(Byte) /\ c.loops \in Seq(ScopeRecord) /\ N \in Nat
      /\ Assembled(c.code, heights, open)
  BY DEF Assembling
<1>2. /\ DOMAIN d = DOMAIN c /\ d.code = c.code \o bytes /\ d.loops = c.loops
  BY <1>1 DEF Emit
<1>3. /\ c.code \o bytes \in Seq(Byte) /\ Len(c.code \o bytes) = N + Len(bytes)
      /\ Assembled(c.code \o bytes, next, open \union new)
  BY <1>1, Appended
<1>4. Assembling(d, next, open \union new)
  BY <1>1, <1>2, <1>3 DEF Assembling
<1>5. /\ Len(bytes) \in 1 .. 3
      /\ \A k \in 1 .. N : d.code[k] = c.code[k]
      /\ d.code[N + 1] = bytes[1]
  <2>1. Len(bytes) \in 1 .. 3
    BY OpFacts
  <2>2. \A k \in 1 .. N + Len(bytes) : d.code[k] = IF k <= N THEN c.code[k] ELSE bytes[k - N]
    BY <1>1, <1>2, ConcatProperties
  <2> HIDE DEF d, N
  <2>3. \A k \in 1 .. N : d.code[k] = c.code[k]
    BY <1>1, <2>1, <2>2
  <2>4. N + 1 \in 1 .. N + Len(bytes) /\ ~(N + 1 <= N) /\ (N + 1) - N = 1
    BY <1>1, <2>1
  <2> QED
    BY <2>1, <2>2, <2>3, <2>4
<1> HIDE DEF d
<1>6. /\ DOMAIN next = DOMAIN heights \union {N + Len(bytes)}
      /\ \A a \in DOMAIN heights : next[a] = heights[a]
  <2>1. N + Len(bytes) \notin DOMAIN heights
    BY <1>1, <1>5 DEF Assembled
  <2>2. next = Then(heights, N + Len(bytes), height)
    OBVIOUS
  <2> HIDE DEF N
  <2> QED
    BY <2>1, <2>2 DEF Then
<1>7. ASSUME InLoop(c, heights, open) PROVE InLoop(d, next, open \union new)
  <2>1. Scope(d) = Scope(c) /\ Depth(d) = Depth(c)
    BY <1>2 DEF Scope, Depth
  <2>2. /\ Depth(c) > 0 /\ ~Scope(c).freed
        /\ Scope(c).cont \in DOMAIN heights /\ Scope(c).cont <= UINT16_MAX
        /\ Scope(c).breaks \subseteq open
        /\ \A s \in Scope(c).breaks : After(c.code[s], heights[s - 1]) = heights[Scope(c).cont]
    BY <1>7 DEF InLoop
  <2>3. ASSUME NEW s \in Scope(c).breaks
        PROVE  After(d.code[s], next[s - 1]) = next[Scope(c).cont]
    <3>1. s \in 1 .. N /\ s - 1 \in DOMAIN heights
      <4>1. /\ s \in Nat /\ s - 1 \in DOMAIN heights \ {N} /\ DOMAIN heights \subseteq 0 .. N
        BY <1>1, <2>2 DEF Assembled
      <4> QED
        BY <1>1, <4>1
    <3> QED
      BY <1>5, <1>6, <2>2, <3>1
  <2> QED
    BY <1>6, <2>1, <2>2, <2>3 DEF InLoop
<1> QED
  BY <1>2, <1>3, <1>4, <1>5, <1>7 DEF d

(* What an operation of the compiler keeps.                                *)
Keeps(c, heights, open, d, next, still) ==
  /\ Assembling(d, next, still)
  /\ InLoop(c, heights, open) => InLoop(d, next, still)
  /\ d.loops = c.loops

(* The instructions that are no jumps.  Any of them keeps the code         *)
(* assembled where the stack holds what it takes and has room for what it  *)
(* gives.                                                                  *)
THEOREM InstructionsAreAssembled ==
  ASSUME NEW c, NEW heights, NEW open, Assembling(c, heights, open),
         NEW h, h = heights[Len(c.code)]
  PROVE  /\ \A op \in DOMAIN OP \ {"PUSH", "JMP", "FJMP"} :
              Takes(OP[op]) <= h /\ After(OP[op], h) <= STACK_SIZE =>
                Keeps(c, heights, open, AsmOp(c, op),
                      Then(heights, Len(c.code) + 1, After(OP[op], h)), open)
         /\ \A val \in Byte : h < STACK_SIZE =>
              Keeps(c, heights, open, AsmPush(c, val), Then(heights, Len(c.code) + 2, h + 1), open)
         /\ \A op \in {"LOAD0", "SAVE0", "SEND0", "RECV0"}, idx \in 0 .. 3 :
              Takes(OP[op]) <= h /\ After(OP[op], h) <= STACK_SIZE =>
                Keeps(c, heights, open, AsmVar(c, op, idx),
                      Then(heights, Len(c.code) + 1, After(OP[op], h)), open)
<1>1. h \in 0 .. STACK_SIZE /\ STACK_SIZE \in Nat /\ Len(c.code) \in Nat
  BY StackAssumption DEF Assembling, Assembled
<1>2. ASSUME NEW op \in 1 .. 41, Size(op) = 1, Takes(op) <= h, After(op, h) <= STACK_SIZE
      PROVE  Keeps(c, heights, open, Emit(c, <<op>>),
                   Then(heights, Len(c.code) + 1, After(op, h)), open)
  <2>1. After(op, h) \in 0 .. STACK_SIZE /\ op \in DOMAIN Opcode /\ op \notin JumpOps
    <3>1. op \in DOMAIN Opcode
      BY Numbers
    <3>2. Takes(op) \in 0 .. 2 /\ Gives(op) \in 0 .. 2 /\ op \notin JumpOps
      BY <1>2, <3>1, OpFacts
    <3> QED
      BY <1>1, <1>2, <3>1, <3>2 DEF After
  <2>2. <<op>> \in Seq(Byte) /\ <<op>> # << >> /\ Len(<<op>>) = 1 /\ <<op>>[1] = op
    BY Bytes
  <2>3. Keeps(c, heights, open, Emit(c, <<op>>),
             Then(heights, Len(c.code) + 1, After(op, h)), open \union {})
    BY <1>2, <2>1, <2>2, EmittedIsAssembled DEF Keeps
  <2> QED
    BY <2>3
<1>3. ASSUME NEW op \in DOMAIN OP \ {"PUSH", "JMP", "FJMP"},
             Takes(OP[op]) <= h, After(OP[op], h) <= STACK_SIZE
      PROVE  Keeps(c, heights, open, AsmOp(c, op),
                   Then(heights, Len(c.code) + 1, After(OP[op], h)), open)
  <2>1. PICK k \in 1 .. 41 : op = Opcode[k]
    <3>1. DOMAIN OP = {Opcode[k] : k \in DOMAIN Opcode}
      BY DEF OP
    <3> QED
      BY <3>1, Numbers
  <2>2. OP[op] = k
    BY <2>1, Names
  <2>3. Size(k) = 1
    <3>1. Opcode[OP["PUSH"]] = "PUSH" /\ Opcode[OP["JMP"]] = "JMP" /\ Opcode[OP["FJMP"]] = "FJMP"
      BY Numbers DEF Opcode
    <3> QED
      BY <2>1, <3>1 DEF Size
  <2>4. AsmOp(c, op) = Emit(c, <<k>>)
    <3>1. [j \in DOMAIN <<op>> |-> OP[<<op>>[j]]] = <<k>>
      BY <2>2
    <3> QED
      BY <3>1 DEF AsmOp, AsmOps
  <2> QED
    BY <1>2, <1>3, <2>2, <2>3, <2>4
<1>4. ASSUME NEW val \in Byte, h < STACK_SIZE
      PROVE  Keeps(c, heights, open, AsmPush(c, val), Then(heights, Len(c.code) + 2, h + 1), open)
  <2> DEFINE bytes == <<OP["PUSH"], val>>
  <2>1. /\ bytes \in Seq(Byte) /\ bytes # << >> /\ Len(bytes) = 2 /\ bytes[1] = OP["PUSH"]
    BY Bytes, Numbers
  <2>2. /\ OP["PUSH"] \in DOMAIN Opcode /\ Size(OP["PUSH"]) = 2
        /\ OP["PUSH"] \notin JumpOps \union {OP["HALT"], OP["JMP"]}
    BY Numbers DEF Size, JumpOps
  <2>3. Takes(OP["PUSH"]) = 0 /\ Gives(OP["PUSH"]) = 1
    BY Numbers, TakesAndGives
  <2>4. After(OP["PUSH"], h) = h + 1 /\ h + 1 \in 0 .. STACK_SIZE
    BY <1>1, <1>4, <2>3 DEF After
  <2> HIDE DEF bytes
  <2>5. /\ bytes[1] \in DOMAIN Opcode /\ Len(bytes) = Size(bytes[1])
        /\ Takes(bytes[1]) <= heights[Len(c.code)] /\ bytes[1] \notin JumpOps
        /\ h + 1 = After(bytes[1], heights[Len(c.code)]) /\ h + 1 \in 0 .. STACK_SIZE
    BY <1>1, <2>1, <2>2, <2>3, <2>4
  <2>6. Keeps(c, heights, open, Emit(c, bytes),
             Then(heights, Len(c.code) + Len(bytes), h + 1), open \union {})
    BY <2>1, <2>5, EmittedIsAssembled DEF Keeps
  <2> QED
    BY <2>1, <2>6 DEF AsmPush, bytes
<1>5. ASSUME NEW op \in {"LOAD0", "SAVE0", "SEND0", "RECV0"}, NEW idx \in 0 .. 3,
             Takes(OP[op]) <= h, After(OP[op], h) <= STACK_SIZE
      PROVE  Keeps(c, heights, open, AsmVar(c, op, idx),
                   Then(heights, Len(c.code) + 1, After(OP[op], h)), open)
  <2>1. /\ OP[op] + idx \in 1 .. 41 /\ Size(OP[op] + idx) = 1
        /\ Takes(OP[op] + idx) = Takes(OP[op]) /\ Gives(OP[op] + idx) = Gives(OP[op])
    <3> DEFINE n == OP[op]
               m == OP[op] + idx
    <3>1. n \in {25, 29, 33, 37} /\ m = n + idx
      <4>1. CASE op = "LOAD0"
        BY <4>1, Numbers
      <4>2. CASE op = "SAVE0"
        BY <4>2, Numbers
      <4>3. CASE op = "SEND0"
        BY <4>3, Numbers
      <4>4. CASE op = "RECV0"
        BY <4>4, Numbers
      <4> QED
        BY <4>1, <4>2, <4>3, <4>4
    <3> HIDE DEF n, m
    <3>2. \/ n \in 25 .. 28 /\ m \in 25 .. 28
          \/ n \in 29 .. 36 /\ m \in 29 .. 36
          \/ n \in 37 .. 40 /\ m \in 37 .. 40
      <4>1. CASE n = 25
        BY <3>1, <4>1
      <4>2. CASE n \in {29, 33}
        BY <3>1, <4>2
      <4>3. CASE n = 37
        BY <3>1, <4>3
      <4> QED
        BY <3>1, <4>1, <4>2, <4>3
    <3>3. m \in 1 .. 41 /\ m \notin {2, 23, 24}
      BY <3>2
    <3>4. Size(m) = 1
      BY <3>3, Numbers DEF Size
    <3>5. Takes(m) = Takes(n) /\ Gives(m) = Gives(n)
      BY <3>2, TakesAndGives
    <3> QED
      BY <3>3, <3>4, <3>5 DEF n, m
  <2>2. After(OP[op] + idx, h) = After(OP[op], h)
    BY <2>1 DEF After
  <2> QED
    BY <1>2, <1>5, <2>1, <2>2 DEF AsmVar
<1> QED
  BY <1>3, <1>4, <1>5

-----------------------------------------------------------------------------
(* Jumps and loops.  First, the three bytes of a jump.                     *)
LEMMA JumpBytes ==
  ASSUME NEW op \in {"JMP", "FJMP"}, NEW addr \in 0 .. UINT16_MAX,
         NEW bytes, bytes = <<OP[op], Low(addr), High(addr)>>
  PROVE  /\ bytes \in Seq(Byte) /\ bytes # << >> /\ Len(bytes) = 3 /\ bytes[1] = OP[op]
         /\ OP[op] \in DOMAIN Opcode /\ Size(OP[op]) = 3 /\ OP[op] \in JumpOps
         /\ bytes[2] + bytes[3] * (UINT8_MAX + 1) = addr
         /\ OP[op] \notin {OP["HALT"], OP["JMP"]} => op = "FJMP"
<1>1. /\ OP[op] \in DOMAIN Opcode /\ Size(OP[op]) = 3 /\ OP[op] \in JumpOps /\ OP[op] \in Byte
      /\ OP[op] \notin {OP["HALT"], OP["JMP"]} => op = "FJMP"
  BY Numbers, Bytes DEF Size, JumpOps
<1>2. Low(addr) \in Byte /\ High(addr) \in Byte /\ Low(addr) + High(addr) * (UINT8_MAX + 1) = addr
  BY Recombined
<1>3. bytes \in Seq(Byte) /\ bytes # << >> /\ Len(bytes) = 3
  BY <1>1, <1>2
<1>4. bytes[1] = OP[op] /\ bytes[2] = Low(addr) /\ bytes[3] = High(addr)
  OBVIOUS
<1> QED
  BY <1>1, <1>2, <1>3, <1>4

(* here(), as long as 16 bits suffice for it.                              *)
LEMMA HereIsTheEnd ==
  ASSUME NEW c, NEW heights, NEW open, Assembling(c, heights, open), Len(c.code) <= UINT16_MAX
  PROVE  Here(c) = Len(c.code) /\ Len(c.code) \in 0 .. UINT16_MAX /\ Len(c.code) \in DOMAIN heights
<1>1. UINT16_MAX \in Nat
  BY BytecodeAssumption DEF UINT16_MAX
<1>2. Len(c.code) \in Nat /\ Len(c.code) \in DOMAIN heights
  BY DEF Assembling, Assembled
<1>3. Len(c.code) < UINT16_MAX + 1
  BY <1>1, <1>2
<1>4. ASSUME NEW n \in Nat, NEW m \in Nat, n < m PROVE n % m = n
  BY <1>4
<1>5. UINT16_MAX + 1 \in Nat
  BY <1>1
<1>6. Here(c) = Len(c.code)
  BY <1>2, <1>3, <1>4, <1>5 DEF Here
<1> QED
  BY <1>1, <1>2, <1>6

(* push_scope(): the loop that begins here.                                *)
THEOREM ScopeBegins ==
  ASSUME NEW c, NEW heights, NEW open, Assembling(c, heights, open), Len(c.code) <= UINT16_MAX
  PROVE  Assembling(PushScope(c), heights, open) /\ InLoop(PushScope(c), heights, open)
<1> DEFINE new == [breaks |-> {}, cont |-> Here(c), freed |-> FALSE]
           d   == PushScope(c)
<1>1. /\ Here(c) = Len(c.code) /\ Here(c) \in Nat /\ Here(c) <= UINT16_MAX
      /\ Here(c) \in DOMAIN heights
  BY HereIsTheEnd
<1>2. /\ "code" \in DOMAIN c /\ "loops" \in DOMAIN c /\ c.loops \in Seq(ScopeRecord)
      /\ DOMAIN d = DOMAIN c /\ d.code = c.code /\ d.loops = Append(c.loops, new)
  BY DEF Assembling, PushScope
<1>3. new \in ScopeRecord /\ new.breaks = {} /\ new.cont = Here(c) /\ new.freed = FALSE
  BY <1>1 DEF ScopeRecord
<1> HIDE DEF new, d
<1>4. d.loops \in Seq(ScopeRecord) /\ Depth(d) > 0 /\ Scope(d) = new
  BY <1>2, <1>3, AppendProperties DEF Depth, Scope
<1>5. Assembling(d, heights, open)
  BY <1>2, <1>4 DEF Assembling
<1>6. InLoop(d, heights, open)
  BY <1>1, <1>3, <1>4 DEF InLoop
<1> QED
  BY <1>5, <1>6 DEF d

(* A jump back, to where the stack is as high as it leaves it, and in a    *)
(* loop the jump of continue.                                              *)
THEOREM JumpsLeadBack ==
  ASSUME NEW c, NEW heights, NEW open, Assembling(c, heights, open),
         NEW op \in {"JMP", "FJMP"}, NEW height \in 0 .. STACK_SIZE,
         NEW addr \in DOMAIN heights, addr <= UINT16_MAX,
         Takes(OP[op]) <= heights[Len(c.code)],
         op = "FJMP" => height = After(OP[op], heights[Len(c.code)]),
         heights[addr] = After(OP[op], heights[Len(c.code)]),
         NEW next, next = Then(heights, Len(c.code) + 3, height)
  PROVE  /\ Assembling(AsmJump(c, op, addr), next, open)
         /\ AsmJump(c, op, addr).loops = c.loops
         /\ Len(AsmJump(c, op, addr).code) = Len(c.code) + 3
         /\ InLoop(c, heights, open) => InLoop(AsmJump(c, op, addr), next, open)
<1> DEFINE bytes == <<OP[op], Low(addr), High(addr)>>
<1>1. addr \in 0 .. UINT16_MAX
  <2>1. addr \in Nat
    BY DEF Assembling, Assembled
  <2>2. UINT16_MAX \in Int
    BY BytecodeAssumption DEF UINT16_MAX
  <2> QED
    BY <2>1, <2>2
<1>2. /\ bytes \in Seq(Byte) /\ bytes # << >> /\ Len(bytes) = 3 /\ bytes[1] = OP[op]
      /\ OP[op] \in DOMAIN Opcode /\ Size(OP[op]) = 3 /\ OP[op] \in JumpOps
      /\ bytes[2] + bytes[3] * (UINT8_MAX + 1) = addr
      /\ OP[op] \notin {OP["HALT"], OP["JMP"]} => op = "FJMP"
  BY <1>1, JumpBytes
<1>3. AsmJump(c, op, addr) = Emit(c, bytes)
  BY DEF AsmJump
<1> HIDE DEF bytes
<1>4. /\ bytes[1] \in DOMAIN Opcode /\ Len(bytes) = Size(bytes[1])
      /\ Takes(bytes[1]) <= heights[Len(c.code)]
      /\ bytes[1] \notin {OP["HALT"], OP["JMP"]} => height = After(bytes[1], heights[Len(c.code)])
      /\ bytes[2] + bytes[3] * (UINT8_MAX + 1) \in DOMAIN heights
      /\ heights[bytes[2] + bytes[3] * (UINT8_MAX + 1)] = After(bytes[1], heights[Len(c.code)])
      /\ next = Then(heights, Len(c.code) + Len(bytes), height) /\ bytes[1] \in JumpOps
  BY <1>2
<1>5. /\ Emit(c, bytes).loops = c.loops
      /\ Len(Emit(c, bytes).code) = Len(c.code) + Len(bytes)
      /\ Assembling(Emit(c, bytes), next, open \union {})
      /\ InLoop(c, heights, open) => InLoop(Emit(c, bytes), next, open \union {})
  BY <1>2, <1>4, EmittedIsAssembled
<1> QED
  BY <1>2, <1>3, <1>5

(* asm_jump2(): a jump forward, which is open.                             *)
THEOREM JumpsWait ==
  ASSUME NEW c, NEW heights, NEW open, Assembling(c, heights, open), Len(c.code) <= UINT16_MAX,
         NEW op \in {"JMP", "FJMP"}, NEW height \in 0 .. STACK_SIZE,
         Takes(OP[op]) <= heights[Len(c.code)],
         op = "FJMP" => height = After(OP[op], heights[Len(c.code)]),
         NEW next, next = Then(heights, Len(c.code) + 3, height)
  PROVE  /\ Assembling(AsmJump2(c, op), next, open \union {JumpSlot(c)})
         /\ AsmJump2(c, op).loops = c.loops
         /\ AsmJump2(c, op).code[JumpSlot(c)] = OP[op]
         /\ Len(AsmJump2(c, op).code) = Len(c.code) + 3
         /\ InLoop(c, heights, open) => InLoop(AsmJump2(c, op), next, open \union {JumpSlot(c)})
<1> DEFINE bytes == <<OP[op], Low(0), High(0)>>
<1>1. UINT16_MAX \in Int /\ 0 \in 0 .. UINT16_MAX
  BY BytecodeAssumption DEF UINT16_MAX
<1>2. /\ bytes \in Seq(Byte) /\ bytes # << >> /\ Len(bytes) = 3 /\ bytes[1] = OP[op]
      /\ OP[op] \in DOMAIN Opcode /\ Size(OP[op]) = 3 /\ OP[op] \in JumpOps
      /\ OP[op] \notin {OP["HALT"], OP["JMP"]} => op = "FJMP"
  BY <1>1, JumpBytes
<1>3. AsmJump2(c, op) = Emit(c, bytes) /\ JumpSlot(c) = Len(c.code) + 1
  BY HereIsTheEnd DEF AsmJump2, AsmJump, JumpSlot
<1> HIDE DEF bytes
<1>4. /\ bytes[1] \in DOMAIN Opcode /\ Len(bytes) = Size(bytes[1])
      /\ Takes(bytes[1]) <= heights[Len(c.code)] /\ {Len(c.code) + 1} # {}
      /\ bytes[1] \notin {OP["HALT"], OP["JMP"]} => height = After(bytes[1], heights[Len(c.code)])
      /\ next = Then(heights, Len(c.code) + Len(bytes), height) /\ bytes[1] \in JumpOps
  BY <1>2
<1>5. /\ Emit(c, bytes).loops = c.loops
      /\ Emit(c, bytes).code[Len(c.code) + 1] = bytes[1]
      /\ Len(Emit(c, bytes).code) = Len(c.code) + Len(bytes)
      /\ Assembling(Emit(c, bytes), next, open \union {Len(c.code) + 1})
      /\ InLoop(c, heights, open) => InLoop(Emit(c, bytes), next, open \union {Len(c.code) + 1})
  BY <1>2, <1>4, EmittedIsAssembled
<1> QED
  BY <1>2, <1>3, <1>5

(* patch_here(): an open jump leads to the end of the code.                *)
THEOREM JumpsComeHere ==
  ASSUME NEW c, NEW heights, NEW open, Assembling(c, heights, open), Len(c.code) <= UINT16_MAX,
         NEW slot \in open,
         heights[Len(c.code)] = After(c.code[slot], heights[slot - 1])
  PROVE  /\ Assembling(PatchHere(c, slot), heights, open \ {slot})
         /\ PatchHere(c, slot).loops = c.loops
         /\ Leads(c.code, heights, {slot}, Len(c.code), PatchHere(c, slot).code)
<1> DEFINE d == PatchHere(c, slot)
<1>1. Here(c) = Len(c.code) /\ Here(c) \in DOMAIN heights /\ Here(c) <= UINT16_MAX
  <2>1. UINT16_MAX \in Int
    BY BytecodeAssumption DEF UINT16_MAX
  <2> QED
    BY HereIsTheEnd
<1>2. /\ "code" \in DOMAIN c /\ "loops" \in DOMAIN c /\ c.code \in Seq(Byte)
      /\ c.loops \in Seq(ScopeRecord) /\ Assembled(c.code, heights, open)
  BY DEF Assembling
<1>3. /\ DOMAIN d = DOMAIN c /\ d.code = Patched(c.code, {slot}, Here(c)) /\ d.loops = c.loops
  BY <1>2 DEF PatchHere, PatchAddr, PatchAll
<1>4. \A s \in {slot} : heights[Here(c)] = After(c.code[s], heights[s - 1])
  BY <1>1
<1>5. /\ Patched(c.code, {slot}, Here(c)) \in Seq(Byte)
      /\ Assembled(Patched(c.code, {slot}, Here(c)), heights, open \ {slot})
      /\ Leads(c.code, heights, {slot}, Here(c), Patched(c.code, {slot}, Here(c)))
  <2>1. {slot} \in SUBSET open
    OBVIOUS
  <2> QED
    BY <1>1, <1>2, <1>4, <2>1, PatchedIsAssembled
<1> HIDE DEF d
<1>6. Assembling(d, heights, open \ {slot})
  BY <1>2, <1>3, <1>5 DEF Assembling
<1> QED
  BY <1>1, <1>3, <1>5, <1>6 DEF d

(* asm_break(): the jump waits among the breaks of the innermost scope.    *)
THEOREM BreaksWait ==
  ASSUME NEW c, NEW heights, NEW open, Assembling(c, heights, open),
         InLoop(c, heights, open), Len(c.code) <= UINT16_MAX,
         NEW op \in {"JMP", "FJMP"}, NEW height \in 0 .. STACK_SIZE,
         Takes(OP[op]) <= heights[Len(c.code)],
         op = "FJMP" => height = After(OP[op], heights[Len(c.code)]),
         heights[Scope(c).cont] = After(OP[op], heights[Len(c.code)]),
         NEW next, next = Then(heights, Len(c.code) + 3, height)
  PROVE  /\ Assembling(AsmBreak(c, op), next, open \union {JumpSlot(c)})
         /\ InLoop(AsmBreak(c, op), next, open \union {JumpSlot(c)})
         /\ Len(AsmBreak(c, op).code) = Len(c.code) + 3 /\ Depth(AsmBreak(c, op)) = Depth(c)
         /\ Scope(AsmBreak(c, op)).cont = Scope(c).cont
         /\ Scope(AsmBreak(c, op)).breaks = Scope(c).breaks \union {JumpSlot(c)}
<1> DEFINE jump == AsmJump2(c, op)
           d    == [jump EXCEPT !.loops[Depth(c)].breaks = @ \union {JumpSlot(c)}]
           D    == Depth(c)
<1>1. /\ Assembling(jump, next, open \union {JumpSlot(c)})
      /\ jump.loops = c.loops /\ jump.code[JumpSlot(c)] = OP[op]
      /\ Len(jump.code) = Len(c.code) + 3
      /\ InLoop(jump, next, open \union {JumpSlot(c)})
  BY JumpsWait
<1>2. D \in DOMAIN c.loops /\ c.loops \in Seq(ScopeRecord) /\ D > 0 /\ ~Scope(c).freed
      /\ Scope(c) = c.loops[D] /\ D = Len(c.loops) /\ Scope(c) \in ScopeRecord
  BY DEF Assembling, InLoop, Depth, Scope
<1>3. AsmBreak(c, op) = d
  BY <1>2 DEF AsmBreak, InScope
<1>4. JumpSlot(c) = Len(c.code) + 1 /\ Len(c.code) \in Nat /\ Len(c.code) \in DOMAIN heights
  BY HereIsTheEnd DEF JumpSlot, Assembling
<1> HIDE DEF jump, D
<1>5. /\ "code" \in DOMAIN jump /\ "loops" \in DOMAIN jump
      /\ jump.code \in Seq(Byte) /\ Assembled(jump.code, next, open \union {JumpSlot(c)})
  BY <1>1 DEF Assembling
<1>6. /\ DOMAIN d = DOMAIN jump /\ d.code = jump.code
      /\ d.loops = [c.loops EXCEPT ![D].breaks = @ \union {JumpSlot(c)}]
  BY <1>1, <1>5 DEF D
<1> HIDE DEF d
<1>7. /\ d.loops \in Seq(ScopeRecord) /\ Len(d.loops) = D
      /\ d.loops[D] = [Scope(c) EXCEPT !.breaks = @ \union {JumpSlot(c)}]
  <2>1. [Scope(c) EXCEPT !.breaks = @ \union {JumpSlot(c)}] \in ScopeRecord
    <3>1. Scope(c).breaks \union {JumpSlot(c)} \in SUBSET Nat
      BY <1>2, <1>4 DEF ScopeRecord
    <3> QED
      BY <1>2, <3>1 DEF ScopeRecord
  <2>2. d.loops = [c.loops EXCEPT ![D] = [Scope(c) EXCEPT !.breaks = @ \union {JumpSlot(c)}]]
    BY <1>2, <1>6
  <2> DEFINE new == [Scope(c) EXCEPT !.breaks = @ \union {JumpSlot(c)}]
  <2>3. new \in ScopeRecord /\ d.loops = [c.loops EXCEPT ![D] = new]
    BY <2>1, <2>2
  <2> HIDE DEF new
  <2>4. d.loops \in Seq(ScopeRecord) /\ Len(d.loops) = D /\ d.loops[D] = new
    BY <1>2, <2>3, ExceptSeq
  <2> QED
    BY <2>4 DEF new
<1>8. /\ Depth(d) = D /\ Scope(d).cont = Scope(c).cont /\ Scope(d).freed = Scope(c).freed
      /\ Scope(d).breaks = Scope(c).breaks \union {JumpSlot(c)}
  BY <1>2, <1>7 DEF Depth, Scope, ScopeRecord
<1>9. Assembling(d, next, open \union {JumpSlot(c)})
  BY <1>5, <1>6, <1>7 DEF Assembling
<1>10. InLoop(d, next, open \union {JumpSlot(c)})
  <2>1. Scope(jump) = Scope(c)
    BY <1>1 DEF Scope, Depth
  <2>2. /\ Scope(c).cont \in DOMAIN next /\ Scope(c).cont <= UINT16_MAX
        /\ Scope(c).breaks \subseteq open \union {JumpSlot(c)}
        /\ \A s \in Scope(c).breaks : After(jump.code[s], next[s - 1]) = next[Scope(c).cont]
    BY <1>1, <2>1 DEF InLoop
  <2>3. After(jump.code[JumpSlot(c)], next[JumpSlot(c) - 1]) = next[Scope(c).cont]
    <3>1. JumpSlot(c) - 1 = Len(c.code) /\ Scope(c).cont \in DOMAIN heights
      BY <1>4 DEF InLoop
    <3>2. Len(c.code) + 3 \notin DOMAIN heights
      BY <1>4 DEF Assembling, Assembled
    <3>3. next[Len(c.code)] = heights[Len(c.code)] /\ next[Scope(c).cont] = heights[Scope(c).cont]
      BY <1>4, <3>1, <3>2 DEF Then
    <3> QED
      BY <1>1, <3>1, <3>3
  <2> QED
    BY <1>2, <1>6, <1>8, <2>2, <2>3 DEF InLoop
<1> QED
  BY <1>1, <1>3, <1>6, <1>8, <1>9, <1>10 DEF D

(* asm_continue()                                                          *)
THEOREM ContinuesLeadBack ==
  ASSUME NEW c, NEW heights, NEW open, Assembling(c, heights, open), InLoop(c, heights, open),
         NEW op \in {"JMP", "FJMP"}, NEW height \in 0 .. STACK_SIZE,
         Takes(OP[op]) <= heights[Len(c.code)],
         op = "FJMP" => height = After(OP[op], heights[Len(c.code)]),
         heights[Scope(c).cont] = After(OP[op], heights[Len(c.code)]),
         NEW next, next = Then(heights, Len(c.code) + 3, height)
  PROVE  /\ Assembling(AsmContinue(c, op), next, open)
         /\ InLoop(AsmContinue(c, op), next, open)
         /\ AsmContinue(c, op).loops = c.loops
         /\ Len(AsmContinue(c, op).code) = Len(c.code) + 3
<1>1. AsmContinue(c, op) = AsmJump(c, op, Scope(c).cont)
  BY DEF AsmContinue, InScope, InLoop
<1>2. Scope(c).cont \in DOMAIN heights /\ Scope(c).cont <= UINT16_MAX
  BY DEF InLoop
<1> QED
  BY <1>1, <1>2, JumpsLeadBack

(* pop_scope(): every break of the loop leads to its end.  What is the     *)
(* scope now is memory that has been freed.                                *)
THEOREM ScopeEnds ==
  ASSUME NEW c, NEW heights, NEW open, Assembling(c, heights, open),
         InLoop(c, heights, open), Len(c.code) <= UINT16_MAX,
         heights[Len(c.code)] = heights[Scope(c).cont]
  PROVE  /\ Assembling(PopScope(c), heights, open \ Scope(c).breaks)
         /\ Len(PopScope(c).code) = Len(c.code)
         /\ Leads(c.code, heights, Scope(c).breaks, Len(c.code), PopScope(c).code)
         /\ Depth(PopScope(c)) = Depth(c) - 1
         /\ Depth(PopScope(c)) > 0 => Scope(PopScope(c)).freed
<1> DEFINE breaks  == Scope(c).breaks
           parents == Front(c.loops)
           loops   == IF parents = << >> THEN parents
                      ELSE [parents EXCEPT ![Len(parents)].freed = TRUE]
           patched == PatchAll(c, breaks, Here(c))
           d       == [patched EXCEPT !.loops = loops]
<1>1. /\ Here(c) = Len(c.code) /\ Here(c) \in DOMAIN heights /\ Here(c) <= UINT16_MAX
  <2>1. UINT16_MAX \in Int
    BY BytecodeAssumption DEF UINT16_MAX
  <2> QED
    BY HereIsTheEnd
<1>2. /\ "code" \in DOMAIN c /\ "loops" \in DOMAIN c /\ c.code \in Seq(Byte)
      /\ c.loops \in Seq(ScopeRecord) /\ Assembled(c.code, heights, open)
  BY DEF Assembling
<1>3. /\ Depth(c) > 0 /\ ~Scope(c).freed /\ breaks \subseteq open
      /\ \A s \in breaks : heights[Here(c)] = After(c.code[s], heights[s - 1])
  BY <1>1 DEF InLoop
<1>4. PopScope(c) = d
  BY <1>3 DEF PopScope, InScope
<1>5. /\ loops \in Seq(ScopeRecord) /\ Len(loops) = Len(c.loops) - 1
      /\ Len(loops) > 0 => loops[Len(loops)].freed
  <2>1. /\ Len(c.loops) \in Nat /\ Len(c.loops) > 0
    BY <1>2, <1>3 DEF Depth
  <2>2. parents \in Seq(ScopeRecord) /\ Len(parents) = Len(c.loops) - 1
    <3>1. parents = [k \in 1 .. Len(c.loops) - 1 |-> c.loops[k]]
      BY <1>2, <2>1 DEF Front
    <3>2. Len(c.loops) - 1 \in Nat /\ \A k \in 1 .. Len(c.loops) - 1 : c.loops[k] \in ScopeRecord
      BY <1>2, <2>1
    <3> QED
      BY <3>1, <3>2
  <2> HIDE DEF parents
  <2>3. CASE parents = << >>
    BY <2>1, <2>2, <2>3
  <2>4. CASE parents # << >>
    <3>1. Len(parents) \in DOMAIN parents /\ parents[Len(parents)] \in ScopeRecord
      BY <2>2, <2>4
    <3>2. [parents[Len(parents)] EXCEPT !.freed = TRUE] \in ScopeRecord
      BY <3>1 DEF ScopeRecord
    <3>3. loops = [parents EXCEPT ![Len(parents)] = [parents[Len(parents)] EXCEPT !.freed = TRUE]]
      BY <2>4
    <3>4. [parents[Len(parents)] EXCEPT !.freed = TRUE].freed
      BY <3>1 DEF ScopeRecord
    <3> HIDE DEF loops
    <3> QED
      BY <2>2, <3>1, <3>2, <3>3, <3>4
  <2> QED
    BY <2>3, <2>4
<1> HIDE DEF loops, breaks
<1>6. DOMAIN d = DOMAIN c /\ d.code = Patched(c.code, breaks, Here(c)) /\ d.loops = loops
  BY <1>2 DEF PatchAll
<1>7. /\ Patched(c.code, breaks, Here(c)) \in Seq(Byte)
      /\ Len(Patched(c.code, breaks, Here(c))) = Len(c.code)
      /\ Assembled(Patched(c.code, breaks, Here(c)), heights, open \ breaks)
      /\ Leads(c.code, heights, breaks, Here(c), Patched(c.code, breaks, Here(c)))
  BY <1>1, <1>2, <1>3, PatchedIsAssembled
<1> HIDE DEF d
<1>8. Assembling(d, heights, open \ breaks)
  BY <1>2, <1>5, <1>6, <1>7 DEF Assembling
<1> QED
  BY <1>1, <1>4, <1>5, <1>6, <1>7, <1>8 DEF Depth, Scope, breaks

(* The end of a while statement: back to the beginning, and then every     *)
(* break leads here, where the stack is as high as it was before the loop. *)
THEOREM LoopsAreAssembled ==
  ASSUME NEW c, NEW heights, NEW open, Assembling(c, heights, open),
         InLoop(c, heights, open), Len(c.code) + 3 <= UINT16_MAX,
         NEW h, h = heights[Scope(c).cont], heights[Len(c.code)] = h
  PROVE  /\ Assembling(PopScope(AsmContinue(c, "JMP")),
                       Then(heights, Len(c.code) + 3, h), open \ Scope(c).breaks)
         /\ Len(PopScope(AsmContinue(c, "JMP")).code) = Len(c.code) + 3
<1> DEFINE d    == AsmContinue(c, "JMP")
           next == Then(heights, Len(c.code) + 3, h)
<1>1. /\ h \in 0 .. STACK_SIZE /\ STACK_SIZE \in Int /\ Len(c.code) \in Nat
      /\ Scope(c).cont \in DOMAIN heights /\ Len(c.code) + 3 \notin DOMAIN heights
  BY StackAssumption DEF Assembling, Assembled, InLoop
<1>2. Takes(OP["JMP"]) = 0 /\ After(OP["JMP"], h) = h
  <2>1. Takes(OP["JMP"]) = 0 /\ Gives(OP["JMP"]) = 0
    BY Numbers, TakesAndGives
  <2> QED
    BY <1>1, <2>1 DEF After
<1>3. /\ Assembling(d, next, open) /\ InLoop(d, next, open)
      /\ d.loops = c.loops /\ Len(d.code) = Len(c.code) + 3
  BY <1>1, <1>2, ContinuesLeadBack
<1>4. next[Len(c.code) + 3] = h /\ next[Scope(c).cont] = h
  BY <1>1 DEF Then
<1> HIDE DEF d, next
<1>5. Scope(d) = Scope(c)
  BY <1>3 DEF Scope, Depth
<1> QED
  BY <1>3, <1>4, <1>5, ScopeEnds DEF d, next

(* The whole of a statement, "while (val);" at the beginning of a program. *)
(* Nothing has to be assumed of the code.                                  *)
LEMMA WhileIsBalanced ==
  ASSUME NEW c, "code" \in DOMAIN c, "loops" \in DOMAIN c, c.code = << >>, c.loops = << >>,
         NEW val \in Byte
  PROVE  IsBalanced(PopScope(AsmContinue(AsmBreak(AsmPush(PushScope(c), val), "FJMP"), "JMP")).code)
<1> DEFINE c1 == PushScope(c)
           c2 == AsmPush(c1, val)
           c3 == AsmBreak(c2, "FJMP")
           c4 == PopScope(AsmContinue(c3, "JMP"))
           h1 == [a \in {0} |-> 0]
           h2 == Then(h1, 2, 1)
           h3 == Then(h2, 5, 0)
           h4 == Then(h3, 8, 0)
<1>1. UINT16_MAX \in Nat /\ 8 <= UINT16_MAX /\ STACK_SIZE \in Nat /\ STACK_SIZE > 0
  BY BytecodeAssumption, StackAssumption DEF UINT16_MAX
<1>2. Takes(OP["FJMP"]) = 1 /\ After(OP["FJMP"], 1) = 0
  <2>1. Takes(OP["FJMP"]) = 1 /\ Gives(OP["FJMP"]) = 0
    BY Numbers, TakesAndGives
  <2> QED
    BY <2>1 DEF After
<1>3. /\ Assembling(c1, h1, {}) /\ InLoop(c1, h1, {})
      /\ Len(c1.code) = 0 /\ Depth(c1) = 1 /\ Scope(c1).cont = 0 /\ Scope(c1).breaks = {}
  <2>1. Assembling(c, h1, {})
    BY NothingIsAssembled DEF Assembling
  <2>2. Here(c) = 0
    BY <1>1, <2>1, HereIsTheEnd
  <2>3. /\ c1.code = << >> /\ c1.loops = <<[breaks |-> {}, cont |-> 0, freed |-> FALSE]>>
    <3>1. c1.code = c.code /\ c1.loops = Append(c.loops, [breaks |-> {}, cont |-> 0, freed |-> FALSE])
      BY <2>2 DEF PushScope
    <3> HIDE DEF c1
    <3> QED
      BY <3>1
  <2>4. Assembling(c1, h1, {}) /\ InLoop(c1, h1, {})
    BY <1>1, <2>1, ScopeBegins
  <2> QED
    BY <2>3, <2>4 DEF Depth, Scope
<1>4. h1[0] = 0 /\ DOMAIN h1 = {0}
  OBVIOUS
<1> HIDE DEF c1, h1
<1>5. /\ Assembling(c2, h2, {}) /\ InLoop(c2, h2, {}) /\ c2.loops = c1.loops /\ Len(c2.code) = 2
  <2>1. Keeps(c1, h1, {}, c2, h2, {})
    BY <1>1, <1>3, <1>4, InstructionsAreAssembled
  <2>2. Len(c2.code) = 2
    <3>1. "code" \in DOMAIN c1 /\ c1.code \in Seq(Byte)
      BY <1>3 DEF Assembling
    <3>2. c2.code = c1.code \o <<OP["PUSH"], val>>
      BY <3>1 DEF AsmPush, Emit
    <3> QED
      BY <1>3, <3>1, <3>2
  <2> QED
    BY <1>3, <2>1, <2>2 DEF Keeps
<1>6. h2[0] = 0 /\ h2[2] = 1 /\ DOMAIN h2 = {0, 2}
  BY <1>4 DEF Then
<1>7. Scope(c2) = Scope(c1)
  BY <1>5 DEF Scope, Depth
<1> HIDE DEF c2, h2
<1>8. /\ Assembling(c3, h3, {3}) /\ InLoop(c3, h3, {3})
      /\ Len(c3.code) = 5 /\ Scope(c3).cont = 0 /\ Scope(c3).breaks = {3}
  <2>1. JumpSlot(c2) = 3
    <3>1. Len(c2.code) <= UINT16_MAX
      BY <1>1, <1>5
    <3>2. Here(c2) = 2
      BY <1>5, <3>1, HereIsTheEnd
    <3> QED
      BY <3>2 DEF JumpSlot
  <2>2. h2[Scope(c2).cont] = After(OP["FJMP"], h2[Len(c2.code)])
    BY <1>2, <1>3, <1>5, <1>6, <1>7
  <2>3. /\ Takes(OP["FJMP"]) <= h2[Len(c2.code)] /\ 0 = After(OP["FJMP"], h2[Len(c2.code)])
        /\ h3 = Then(h2, Len(c2.code) + 3, 0) /\ 0 \in 0 .. STACK_SIZE
        /\ Len(c2.code) <= UINT16_MAX
    BY <1>1, <1>2, <1>5, <1>6
  <2> HIDE DEF c3, h3
  <2>4. /\ Assembling(AsmBreak(c2, "FJMP"), h3, {} \union {JumpSlot(c2)})
        /\ InLoop(AsmBreak(c2, "FJMP"), h3, {} \union {JumpSlot(c2)})
        /\ Len(AsmBreak(c2, "FJMP").code) = Len(c2.code) + 3
        /\ Scope(AsmBreak(c2, "FJMP")).cont = Scope(c2).cont
        /\ Scope(AsmBreak(c2, "FJMP")).breaks = Scope(c2).breaks \union {JumpSlot(c2)}
    BY <1>5, <2>2, <2>3, BreaksWait
  <2> QED
    BY <1>3, <1>5, <1>7, <2>1, <2>4 DEF c3
<1>9. h3[0] = 0 /\ h3[5] = 0 /\ DOMAIN h3 = {0, 2, 5}
  BY <1>6 DEF Then
<1> HIDE DEF c3, h3
<1>10. Assembling(c4, h4, {}) /\ Len(c4.code) = 8
  <2>1. /\ Len(c3.code) + 3 <= UINT16_MAX /\ 0 = h3[Scope(c3).cont] /\ h3[Len(c3.code)] = 0
        /\ h4 = Then(h3, Len(c3.code) + 3, 0)
    BY <1>1, <1>8, <1>9
  <2> HIDE DEF h4, c4
  <2>2. /\ Assembling(PopScope(AsmContinue(c3, "JMP")), h4, {3} \ Scope(c3).breaks)
        /\ Len(PopScope(AsmContinue(c3, "JMP")).code) = Len(c3.code) + 3
    BY <1>8, <2>1, LoopsAreAssembled
  <2>3. {3} \ Scope(c3).breaks = {}
    BY <1>8
  <2> QED
    <3>1. Assembling(PopScope(AsmContinue(c3, "JMP")), h4, {})
      BY <2>2, <2>3, Zenon
    <3>2. Len(PopScope(AsmContinue(c3, "JMP")).code) = 8
      BY <1>8, <2>2
    <3> QED
      BY <3>1, <3>2 DEF c4
<1>11. h4[8] = 0 /\ DOMAIN h4 = {0, 2, 5, 8}
  BY <1>9 DEF Then
<1> HIDE DEF h4
<1> HIDE DEF c4
<1>12. /\ c4.code \in Seq(Byte) /\ Assembled(c4.code, h4, {})
  BY <1>10 DEF Assembling
<1> QED
  <2>1. Len(c4.code) \in 1 .. UINT8_MAX /\ h4[Len(c4.code)] = 0
    BY <1>10, <1>11, BytecodeAssumption
  <2>2. IsBalanced(c4.code)
    BY <1>12, <2>1, AssembledIsBalanced
  <2> QED
    BY <2>2 DEF c4, c3, c2, c1
=============================================================================
