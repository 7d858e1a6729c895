------------------------------ MODULE Compiler ------------------------------
(***************************************************************************)
(* compile(): the single pass from the tokens of a processor's block to    *)
(* its bytecode.                                                           *)
(*                                                                         *)
(* Every operator takes the Context c and returns it as its C function     *)
(* leaves it; c.expr is the Expression that a parselet returns.  c.fate is *)
(* "ok" until the program ends early, "exit" after too many errors, or the *)
(* compiler itself goes wrong: "crash" (a NULL pointer is followed),       *)
(* "undefined" (freed memory is used) or "hang" (it scans for ever at the  *)
(* end of the file).                                                       *)
(*                                                                         *)
(* The context keeps no symbol ids: a name is its own id.                  *)
(***************************************************************************)
EXTENDS Assembler

CONSTANT ERROR_MAX      \* 10 in the code

ASSUME CompilerAssumption == ERROR_MAX \in Nat

Token(type)        == [type |-> type, lit |-> "", val |-> 0]
Named(type, lit)   == [type |-> type, lit |-> lit, val |-> 0]
Literal(type, val) == [type |-> type, lit |-> "", val |-> val]

NORMAL    == [type |-> "EXPR_NORMAL", idx |-> 0]
SENT      == [type |-> "EXPR_SEND",   idx |-> 0]
VAR(idx)  == [type |-> "EXPR_VAR",    idx |-> idx]
PORT(idx) == [type |-> "EXPR_PORT",   idx |-> idx]

-----------------------------------------------------------------------------
(* parse_table: the precedence of an infix token, 0 for the others.        *)
Levels == <<
  {"SEND"}, {"COMMA"},
  {"ASSIGN", "OR_ASSIGN", "XOR_ASSIGN", "AND_ASSIGN", "SHL_ASSIGN", "SHR_ASSIGN",
   "ADD_ASSIGN", "SUB_ASSIGN", "MUL_ASSIGN", "DIV_ASSIGN", "MOD_ASSIGN"},
  {"COND"}, {"LOR"}, {"LAND"}, {"OR"}, {"XOR"}, {"AND"}, {"EQL", "NEQ"},
  {"LSS", "LTE", "GTR", "GTE"}, {"SHL", "SHR"}, {"ADD", "SUB"},
  {"MUL", "DIV", "MOD"}, {"INC", "DEC"} >>

PREC_NONE == 0
LevelOf(type) == {k \in DOMAIN Levels : type \in Levels[k]}
Prec(type) == IF LevelOf(type) = {} THEN PREC_NONE ELSE CHOOSE k \in LevelOf(type) : TRUE

PREC_SEND   == Prec("SEND")
PREC_COMMA  == Prec("COMMA")
PREC_ASSIGN == Prec("ASSIGN")
PREC_COND   == Prec("COND")
PREC_UNARY  == Prec("INC")

PrimaryTokens == {"NUMBER", "VARIABLE", "PORT", "CHAR"}

(* Defect: rows of parse_table without their prefix parselet.              *)
PrefixTokensBefore == PrimaryTokens \union {"LPAREN", "ADD", "SUB", "INC", "DEC"}

PrefixTokens  == PrimaryTokens \union {"LPAREN", "ADD", "SUB", "INC", "DEC", "LNOT", "NOT"}

(* The instructions of a binary operator, and the operator of an           *)
(* assignment (none for "=").                                              *)
BinaryOps(type) ==
  CASE type = "NEQ" -> <<"EQL", "LNOT">>
    [] type = "GTR" -> <<"LTE", "LNOT">>
    [] type = "GTE" -> <<"LSS", "LNOT">>
    [] OTHER        -> <<type>>

AssignOps(type) ==
  CASE type = "OR_ASSIGN"  -> <<"OR">>  [] type = "XOR_ASSIGN" -> <<"XOR">>
    [] type = "AND_ASSIGN" -> <<"AND">> [] type = "SHL_ASSIGN" -> <<"SHL">>
    [] type = "SHR_ASSIGN" -> <<"SHR">> [] type = "ADD_ASSIGN" -> <<"ADD">>
    [] type = "SUB_ASSIGN" -> <<"SUB">> [] type = "MUL_ASSIGN" -> <<"MUL">>
    [] type = "DIV_ASSIGN" -> <<"DIV">> [] type = "MOD_ASSIGN" -> <<"MOD">>

-----------------------------------------------------------------------------
(* The scanner's interface.  At the end of the file scan() keeps returning *)
(* TOK_EOF.                                                                *)
EOF == Token("TOK_EOF")

Peek(c)     == IF c.toks = << >> THEN EOF ELSE Head(c.toks)
PeekType(c) == Peek(c).type
Scan(c)     == IF c.toks = << >> THEN c ELSE [c EXCEPT !.toks = Tail(@)]

(* Defect: no error is counted.                                            *)
ErrorUncounted(c) == c

(* send_error() cannot show a line of a file that cannot be repositioned,  *)
(* and returns before it counts.                                           *)
Error(c) ==
  IF c.fate # "ok" \/ ~c.seekable THEN c
  ELSE IF c.errors >= ERROR_MAX THEN Dies([c EXCEPT !.errors = @ + 1], "exit")
  ELSE [c EXCEPT !.errors = @ + 1]

Expect(c, type) == IF PeekType(c) = type THEN Scan(c) ELSE Error(c)

Positions(toks, types) == {k \in DOMAIN toks : toks[k].type \in types}
Least(S) == CHOOSE k \in S : \A j \in S : k <= j

(* zap_to(): up to the next token of the type, or for ever.                *)
ZapTo(c, type) ==
  LET S == Positions(c.toks, {type})
  IN  IF S = {} THEN Dies(c, "hang")
      ELSE [c EXCEPT !.toks = SubSeq(@, Least(S), Len(@))]

(* The zap of parse_stmt(): beyond the next one, unless this is one.       *)
ZapBeyond(c, types) ==
  LET S == Positions(c.toks, types)
  IN  IF PeekType(c) \in types THEN c
      ELSE IF S = {} THEN Dies(c, "hang")
      ELSE [c EXCEPT !.toks = SubSeq(@, Least(S) + 1, Len(@))]

-----------------------------------------------------------------------------
(* The value of an expression, on the stack.                               *)
AsmValue(c) ==
  CASE c.expr.type = "EXPR_NORMAL" -> c
    [] c.expr.type = "EXPR_VAR"    -> AsmVar(c, "LOAD0", c.expr.idx)
    [] c.expr.type \in {"EXPR_PORT", "EXPR_SEND"} -> Error(c)

(* getport() and getvar(): the index of a name, a new one if there is room *)
IndexIn(names, name) == {k \in DOMAIN names : names[k] = name}

getport(c, name) ==
  IF IndexIn(c.ports, name) # {} THEN Returns(c, PORT(Least(IndexIn(c.ports, name)) - 1))
  ELSE IF Len(c.ports) = PORT_MAX THEN Returns(Error(c), PORT(0))
  ELSE Returns([c EXCEPT !.ports = Append(@, name)], PORT(Len(c.ports)))

getvar(c, name) ==
  IF IndexIn(c.vars, name) # {} THEN Returns(c, VAR(Least(IndexIn(c.vars, name)) - 1))
  ELSE IF Len(c.vars) = VAR_MAX THEN Returns(Error(c), VAR(0))
  ELSE Returns([c EXCEPT !.vars = Append(@, name)], VAR(Len(c.vars)))

-----------------------------------------------------------------------------
(* Labels.  find_label() sets nothing but the id of a new struct Label:    *)
(* c.stale[k] is what the memory of the k-th one held before.              *)
LabelsNamed(c, id) == {k \in DOMAIN c.labels : c.labels[k].id = id}

Stale(c, k) ==
  IF k \in DOMAIN c.stale THEN c.stale[k] ELSE [defined |-> FALSE, addr |-> 0]

WithLabel(c, id) ==
  IF LabelsNamed(c, id) # {} THEN c
  ELSE LET old == Stale(c, Len(c.labels) + 1)
       IN  [c EXCEPT !.labels = Append(@, [id |-> id, defined |-> old.defined,
                                           addr |-> old.addr, gotos |-> {}])]

add_label_here(c0, id) ==
  LET c == WithLabel(c0, id)
      k == Least(LabelsNamed(c, id))
  IN  [c EXCEPT !.labels[k].defined = TRUE, !.labels[k].addr = Here(c)]

asm_goto(c0, id) ==
  LET c == WithLabel(c0, id)
      k == Least(LabelsNamed(c, id))
  IN  [AsmJump2(c, "JMP") EXCEPT !.labels[k].gotos = @ \union {JumpSlot(c)}]

(* Defect: a label that was never defined is not an error.                 *)
resolveAnyway(c, label) == PatchAll(c, label.gotos, label.addr)

resolve(c, label) ==
  IF ~label.defined THEN Error(c) ELSE PatchAll(c, label.gotos, label.addr)

-----------------------------------------------------------------------------
(* Expressions: one operator per parselet.                                 *)
RECURSIVE parse_expr(_, _)

primary(c, tok) ==
  CASE tok.type \in {"NUMBER", "CHAR"} /\ tok.val <= UINT8_MAX ->
         Returns(AsmPush(c, tok.val), NORMAL)
    [] tok.type \in {"NUMBER", "CHAR"} /\ tok.val > UINT8_MAX ->
         Returns(AsmPush(Error(c), 0), NORMAL)
    [] tok.type = "VARIABLE" -> getvar(c, tok.lit)
    [] tok.type = "PORT"     -> getport(c, tok.lit)

group(c) == Expect(parse_expr(c, PREC_NONE), "RPAREN")

(* ++ and --, before and after.  What is not a variable is an error, and   *)
(* its index is used all the same.                                         *)
NeedsVar(c) == IF c.expr.type = "EXPR_VAR" THEN c ELSE Error(c)
StepOp(tok) == IF tok.type = "INC" THEN "ADD" ELSE "SUB"

prefixStep(c, tok) ==
  LET idx == c.expr.idx
  IN  AsmVar(AsmOp(AsmPush(AsmVar(NeedsVar(c), "LOAD0", idx), 1), StepOp(tok)),
             "SAVE0", idx)

postfix(c, tok) ==
  LET idx == c.expr.idx
      old == AsmOp(AsmVar(NeedsVar(c), "LOAD0", idx), "DUP")
  IN  Returns(AsmVar(AsmOp(AsmPush(old, 1), StepOp(tok)), "SAVE0", idx), NORMAL)

prefix(c, tok) ==
  LET base == parse_expr(c, PREC_UNARY)
  IN  CASE tok.type = "ADD"  -> Returns(AsmValue(base), NORMAL)
        [] tok.type = "SUB"  -> Returns(AsmOp(AsmValue(base), "NEG"), NORMAL)
        [] tok.type = "LNOT" -> Returns(AsmOp(AsmValue(base), "LNOT"), NORMAL)
        [] tok.type = "NOT"  -> Returns(AsmOp(AsmValue(base), "NOT"), NORMAL)
        [] tok.type \in {"INC", "DEC"} -> prefixStep(base, tok)

(* A message received goes to a variable or straight out of another port.  *)
send(c, left) ==
  LET c1 == parse_expr(c, PREC_SEND)
      right == c1.expr
      c2 == AsmVar(c1, "RECV0", right.idx)
  IN  Returns(
        CASE right.type = "EXPR_PORT" /\ left.type = "EXPR_VAR" ->
               AsmVar(c2, "SAVE0", left.idx)
          [] right.type = "EXPR_PORT" /\ left.type = "EXPR_PORT" ->
               AsmVar(c2, "SEND0", left.idx)
          [] right.type = "EXPR_PORT" /\ left.type \notin {"EXPR_VAR", "EXPR_PORT"} ->
               Error(c2)
          [] right.type # "EXPR_PORT" /\ left.type = "EXPR_PORT" ->
               AsmVar(AsmValue(c1), "SEND0", left.idx)
          [] right.type # "EXPR_PORT" /\ left.type # "EXPR_PORT" -> Error(c1),
        SENT)

comma(c) == parse_expr(PopValue(c), PREC_COMMA)

(* The right operand as a value.                                           *)
Operand(c, prec) == AsmValue(parse_expr(c, prec))

binary(c, tok) ==
  Returns(AsmOps(Operand(AsmValue(c), Prec(tok.type)), BinaryOps(tok.type)), NORMAL)

(* Defect: assignments associate to the left.                              *)
assignToTheLeft(c0, left, tok) ==
  LET c == NeedsVar(c0)
      value == IF tok.type = "ASSIGN" THEN Operand(c, PREC_ASSIGN)
               ELSE AsmOps(Operand(AsmVar(c, "LOAD0", left.idx), PREC_ASSIGN),
                           AssignOps(tok.type))
  IN  Returns(AsmVar(value, "SAVE0", left.idx), left)

assign(c0, left, tok) ==
  LET c == NeedsVar(c0)
      value == IF tok.type = "ASSIGN" THEN Operand(c, PREC_ASSIGN - 1)
               ELSE AsmOps(Operand(AsmVar(c, "LOAD0", left.idx), PREC_ASSIGN - 1),
                           AssignOps(tok.type))
  IN  Returns(AsmVar(value, "SAVE0", left.idx), left)

cond(c) ==
  LET whence    == AsmOp(Operand(AsmValue(c), PREC_COND - 1), "LAND")
      otherwise == Operand(Expect(whence, "COLON"), PREC_COND - 1)
  IN  Returns(AsmOp(otherwise, "LOR"), NORMAL)

infix(c, tok) ==
  CASE tok.type = "SEND"  -> send(c, c.expr)
    [] tok.type = "COMMA" -> comma(c)
    [] tok.type = "COND"  -> cond(c)
    [] Prec(tok.type) = PREC_ASSIGN -> assign(c, c.expr, tok)
    [] Prec(tok.type) = PREC_UNARY  -> postfix(c, tok)
    [] Prec(tok.type) \in PREC_COND + 1 .. PREC_UNARY - 1 -> binary(c, tok)

(* The loop of parse_expr().                                               *)
RECURSIVE Infixes(_, _)
Infixes(c, prec) ==
  IF prec < Prec(PeekType(c)) THEN Infixes(infix(Scan(c), Peek(c)), prec) ELSE c

parse_expr(c0, prec) ==
  LET tok == Peek(c0)
      c   == Scan(c0)
  IN  IF tok.type \notin PrefixTokens
      THEN Returns(ZapTo(Error(c), "SEMICOLON"), NORMAL)
      ELSE Infixes(CASE tok.type \in PrimaryTokens -> primary(c, tok)
                     [] tok.type = "LPAREN" -> group(c)
                     [] OTHER -> prefix(c, tok), prec)

-----------------------------------------------------------------------------
(* Statements.                                                             *)
RECURSIVE parse_stmt(_)

parse_branch_stmt(c) ==
  LET cmd == PeekType(c)
      c1  == Scan(c)
      outside == Depth(c) = 0
      label == Peek(c1)
  IN  Expect(
        CASE cmd = "BREAK"    -> IF outside THEN Error(c1) ELSE AsmBreak(c1, "JMP")
          [] cmd = "CONTINUE" -> IF outside THEN Error(c1) ELSE AsmContinue(c1, "JMP")
          [] cmd = "GOTO"     -> asm_goto(Expect(c1, "IDENTIFIER"), label.lit),
        "SEMICOLON")

RECURSIVE Block(_)
Block(c) ==
  IF c.fate # "ok" THEN c
  ELSE IF PeekType(c) = "RBRACE" THEN Scan(c) ELSE Block(parse_stmt(c))

parse_block_stmt(c) == Block(Expect(c, "LBRACE"))

(* "(" expr ")" of an if, a while and a do statement, as a value.          *)
Conditional(c) == Operand(Expect(c, "LPAREN"), PREC_NONE)

(* The end of an if statement, or its else branch; jmpfalse is where the   *)
(* address of either is missing.                                           *)
ElseBranch(c, jmpfalse) ==
  IF PeekType(c) = "ELSE"
  THEN PatchHere(parse_stmt(PatchHere(Expect(AsmJump2(c, "JMP"), "ELSE"), jmpfalse)),
                 JumpSlot(c))
  ELSE PatchHere(c, jmpfalse)

IfBody(c) == ElseBranch(parse_stmt(AsmJump2(c, "FJMP")), JumpSlot(c))

parse_if_stmt(c) == IfBody(Expect(Conditional(Expect(c, "IF")), "RPAREN"))

(* A for statement after its test, and from the post expression to the end *)
(* of the body.  The post expression is compiled with a scope that begins  *)
(* at itself.                                                              *)
ForPost(c, body_jump) ==
  LET post == AsmContinue(PopValue(parse_expr(c, PREC_NONE)), "JMP")
      body == parse_stmt(PatchHere(Expect(post, "RPAREN"), body_jump))
  IN  AsmJump(body, "JMP", Here(c))

ForEnd(c) ==
  LET jumps == AsmJump2(AsmJump2(c, "FJMP"), "JMP")
      body_jump == JumpSlot(AsmJump2(c, "FJMP"))
  IN  PatchHere(PopScope(ForPost(PushScope(Expect(jumps, "SEMICOLON")), body_jump)),
                JumpSlot(c))

parse_for_stmt(c) ==
  LET init == PopValue(parse_expr(Expect(Expect(c, "FOR"), "LPAREN"), PREC_NONE))
  IN  ForEnd(Operand(Expect(init, "SEMICOLON"), PREC_NONE))

parse_while_stmt(c0) ==
  LET test == Conditional(Expect(PushScope(c0), "WHILE"))
      body == parse_stmt(Expect(AsmBreak(test, "FJMP"), "RPAREN"))
  IN  PopScope(AsmContinue(body, "JMP"))

(* The scope is popped before the condition.                               *)
parse_do_stmt(c0) ==
  LET body == parse_stmt(PushScope(Expect(c0, "DO")))
      test == Conditional(Expect(PopScope(body), "WHILE"))
  IN  Expect(Expect(AsmContinue(AsmOp(test, "LNOT"), "FJMP"), "RPAREN"), "SEMICOLON")

(* The label only: the statement that follows is parsed on its own.        *)
parse_labeled_stmt(c) ==
  add_label_here(Expect(Scan(c), "COLON"), Peek(c).lit)

parse_expr_stmt(c) == PopValue(Expect(parse_expr(c, PREC_NONE), "SEMICOLON"))

parse_stmt(c) ==
  LET type == PeekType(c)
  IN  IF c.fate # "ok" THEN c ELSE
      CASE type \in {"BREAK", "CONTINUE", "GOTO"} -> parse_branch_stmt(c)
        [] type = "LBRACE"     -> parse_block_stmt(c)
        [] type = "IF"         -> parse_if_stmt(c)
        [] type = "FOR"        -> parse_for_stmt(c)
        [] type = "WHILE"      -> parse_while_stmt(c)
        [] type = "DO"         -> parse_do_stmt(c)
        [] type = "IDENTIFIER" -> parse_labeled_stmt(c)
        [] type = "SEMICOLON"  -> Scan(c)
        [] type = "HALT"       -> AsmOp(Expect(Scan(c), "SEMICOLON"), "HALT")
        [] type \in PrefixTokens -> parse_expr_stmt(c)
        [] OTHER -> ZapBeyond(Error(c), {"RBRACE", "SEMICOLON"})

-----------------------------------------------------------------------------
(* An open file: its scanner and the errors that were reported in it.      *)
File(toks, seekable) ==
  [toks |-> toks, seekable |-> seekable, errors |-> 0, fate |-> "ok"]

NewContext(file, stale) ==
  [toks |-> file.toks, seekable |-> file.seekable, errors |-> file.errors,
   fate |-> file.fate, code |-> << >>, expr |-> NORMAL, ports |-> << >>,
   vars |-> << >>, loops |-> << >>, labels |-> << >>, stale |-> stale]

(* has_errors()                                                            *)
HasErrors(c) == c.errors > 0

(* The block's code and ports, in the context that compile() ends with.    *)
Resolved(c) ==
  LET resolved == FoldLeft(resolve, c, c.labels)
  IN  IF Len(c.code) > UINT16_MAX THEN Error(resolved) ELSE resolved

compile(file, stale) == Resolved(parse_block_stmt(NewContext(file, stale)))

Accepted(c) == c.fate = "ok" /\ ~HasErrors(c)
=============================================================================
