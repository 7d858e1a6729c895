------------------------------ MODULE Language ------------------------------
(***************************************************************************)
(* A reference for the compiler: programs as trees, their text by the      *)
(* grammar and the precedence table of SPEC.md, and what they mean, with   *)
(* operators as those of C.  It says nothing of how the compiler works.    *)
(***************************************************************************)
EXTENDS Compiler

LOCAL INSTANCE Bitwise

CONSTANT Names    \* the variables that programs use

Num(v)         == [kind |-> "num", val |-> v]
Var(x)         == [kind |-> "var", name |-> x]
Bin(op, l, r)  == [kind |-> "bin", op |-> op, left |-> l, right |-> r]
Un(op, e)      == [kind |-> "un", op |-> op, right |-> e]
Before(op, x)  == [kind |-> "before", op |-> op, name |-> x]
After(op, x)   == [kind |-> "after", op |-> op, name |-> x]
Asg(op, x, e)  == [kind |-> "assign", op |-> op, name |-> x, right |-> e]
Cond(e, a, b)  == [kind |-> "cond", test |-> e, left |-> a, right |-> b]
Comma(a, b)    == [kind |-> "comma", left |-> a, right |-> b]

Expr(e)        == [kind |-> "expr", val |-> e]
Send(p, e)     == [kind |-> "send", port |-> p, val |-> e]
Recv(x, p)     == [kind |-> "recv", name |-> x, port |-> p]
Pass(p, q)     == [kind |-> "pass", port |-> p, from |-> q]
If(e, s)       == [kind |-> "if", test |-> e, body |-> s]
IfElse(e, s, t) == [kind |-> "ifelse", test |-> e, body |-> s, other |-> t]
While(e, s)    == [kind |-> "while", test |-> e, body |-> s]
Do(s, e)       == [kind |-> "do", test |-> e, body |-> s]
For(i, e, p, s) == [kind |-> "for", init |-> i, test |-> e, post |-> p, body |-> s]
Seq2(s, t)     == [kind |-> "seq", first |-> s, second |-> t]
Jump(kw)       == [kind |-> "jump", word |-> kw]        \* BREAK, CONTINUE, HALT

-----------------------------------------------------------------------------
(* The text.  The levels are those of the table: 15 for a suffix, 14 for a *)
(* prefix operator, down to 1 for the comma.                               *)
BinaryLevels == <<{"LOR"}, {"LAND"}, {"OR"}, {"XOR"}, {"AND"}, {"EQL", "NEQ"},
                  {"LSS", "LTE", "GTR", "GTE"}, {"SHL", "SHR"}, {"ADD", "SUB"},
                  {"MUL", "DIV", "MOD"}>>

Level(e) ==
  CASE e.kind \in {"num", "var"} -> 16
    [] e.kind = "after" -> 15
    [] e.kind \in {"un", "before"} -> 14
    [] e.kind = "bin" -> 3 + CHOOSE k \in DOMAIN BinaryLevels : e.op \in BinaryLevels[k]
    [] e.kind = "cond" -> 3
    [] e.kind = "assign" -> 2
    [] e.kind = "comma" -> 1

V(x) == <<Named("VARIABLE", x)>>
P(x) == <<Named("PORT", x)>>
W(type) == <<Token(type)>>

(* e where the grammar wants an expression of at least the level lvl.      *)
RECURSIVE Text(_, _)
Text(e, lvl) ==
  LET t == CASE e.kind = "num"    -> <<Literal("NUMBER", e.val)>>
             [] e.kind = "var"    -> V(e.name)
             [] e.kind = "bin"    -> Text(e.left, Level(e)) \o W(e.op)
                                       \o Text(e.right, Level(e) + 1)
             [] e.kind = "un"     -> W(e.op) \o Text(e.right, 14)
             [] e.kind = "before" -> W(e.op) \o V(e.name)
             [] e.kind = "after"  -> V(e.name) \o W(e.op)
             [] e.kind = "assign" -> V(e.name) \o W(e.op) \o Text(e.right, 2)
             [] e.kind = "cond"   -> Text(e.test, 4) \o W("COND") \o Text(e.left, 4)
                                       \o W("COLON") \o Text(e.right, 3)
             [] e.kind = "comma"  -> Text(e.left, 1) \o W("COMMA") \o Text(e.right, 2)
  IN  IF Level(e) >= lvl THEN t ELSE W("LPAREN") \o t \o W("RPAREN")

InParens(e) == W("LPAREN") \o Text(e, 1) \o W("RPAREN")

RECURSIVE StmtText(_)
StmtText(s) ==
  CASE s.kind = "expr"   -> Text(s.val, 1) \o W("SEMICOLON")
    [] s.kind = "send"   -> P(s.port) \o W("SEND") \o Text(s.val, 1)
                              \o W("SEMICOLON")
    [] s.kind = "recv"   -> V(s.name) \o W("SEND") \o P(s.port) \o W("SEMICOLON")
    [] s.kind = "pass"   -> P(s.port) \o W("SEND") \o P(s.from) \o W("SEMICOLON")
    [] s.kind = "if"     -> W("IF") \o InParens(s.test) \o StmtText(s.body)
    [] s.kind = "ifelse" -> W("IF") \o InParens(s.test) \o W("LBRACE") \o StmtText(s.body)
                              \o W("RBRACE") \o W("ELSE") \o StmtText(s.other)
    [] s.kind = "while"  -> W("WHILE") \o InParens(s.test) \o StmtText(s.body)
    [] s.kind = "do"     -> W("DO") \o StmtText(s.body) \o W("WHILE")
                              \o InParens(s.test) \o W("SEMICOLON")
    [] s.kind = "for"    -> W("FOR") \o W("LPAREN") \o Text(s.init, 1) \o W("SEMICOLON")
                              \o Text(s.test, 1) \o W("SEMICOLON") \o Text(s.post, 1)
                              \o W("RPAREN") \o StmtText(s.body)
    [] s.kind = "seq"    -> W("LBRACE") \o StmtText(s.first) \o StmtText(s.second)
                              \o W("RBRACE")
    [] s.kind = "jump"   -> W(s.word) \o W("SEMICOLON")

(* The body of a processor that executes s once.                           *)
ProgramText(s) == W("LBRACE") \o StmtText(s) \o W("HALT") \o W("SEMICOLON") \o W("RBRACE")

-----------------------------------------------------------------------------
(* What a program means: from a state of variables and of messages sent to *)
(* the state it ends in.  st.val is the value of an expression, FAULT once *)
(* something was divided by zero; st.flow is where a statement goes on.    *)
(* "All operators shown behave as they would in a C program", on bytes.    *)
(* Operands are evaluated from left to right, where C leaves it open.      *)
FAULT == -1

(* Arithmetic is that of bytes.                                            *)
ToByte(v) == v % (UINT8_MAX + 1)

(* The value of what is true: 1, as in C, unless st.truth is another byte. *)
Logical(b, st) == IF b THEN st.truth ELSE 0

(* Shifts are by less than the width of an int.                            *)
Arithmetic(op, a, b) ==
  CASE op = "OR"  -> a | b    [] op = "XOR" -> a ^^ b   [] op = "AND" -> a & b
    [] op = "SHL" -> a * 2^b  [] op = "SHR" -> a \div 2^b
    [] op = "ADD" -> a + b    [] op = "SUB" -> a - b    [] op = "MUL" -> a * b
    [] op = "DIV" -> a \div b [] op = "MOD" -> a % b

Holds(op, a, b) ==
  CASE op = "EQL" -> a = b [] op = "LSS" -> a < b [] op = "LTE" -> a <= b
    [] op = "NEQ" -> a # b [] op = "GTR" -> a > b [] op = "GTE" -> a >= b

Comparisons == {"EQL", "NEQ", "LSS", "LTE", "GTR", "GTE"}

BinaryValue(op, a, b, st) ==
  IF FAULT \in {a, b} \/ (op \in {"DIV", "MOD"} /\ b = 0) THEN FAULT
  ELSE IF op \in Comparisons THEN Logical(Holds(op, a, b), st)
  ELSE ToByte(Arithmetic(op, a, b))

UnaryValue(op, a, st) ==
  IF a = FAULT THEN FAULT ELSE
  CASE op = "ADD"  -> a
    [] op = "SUB"  -> ToByte(-a)
    [] op = "LNOT" -> Logical(a = 0, st)
    [] op = "NOT"  -> UINT8_MAX - a

StepBy(op) == IF op = "INC" THEN 1 ELSE -1
Store(st, x, v) == IF v = FAULT THEN [st EXCEPT !.val = FAULT]
                   ELSE [st EXCEPT !.vars[x] = v, !.val = v]

RECURSIVE Eval(_, _)

AfterLeft(e, st) == IF st.val = FAULT THEN st ELSE Eval(e.right, st)

(* The rest of e once its first operand is evaluated, with value st.val.   *)
(* || and && leave out the second one when the first has decided.          *)
Decides(op, a) == (op = "LOR" /\ a # 0) \/ (op = "LAND" /\ a = 0)

AsTruth(st) == IF st.val = FAULT THEN st ELSE [st EXCEPT !.val = Logical(@ # 0, st)]

EvalRight(e, st) ==
  IF st.val = FAULT THEN st
  ELSE IF Decides(e.op, st.val) THEN AsTruth(st)
  ELSE IF e.op \in {"LOR", "LAND"} THEN AsTruth(Eval(e.right, st))
  ELSE [Eval(e.right, st) EXCEPT !.val = BinaryValue(e.op, st.val, @, st)]

StoreInto(e, old, st) ==
  Store(st, e.name, IF e.op = "ASSIGN" THEN st.val
                    ELSE BinaryValue(AssignOps(e.op)[1], old, st.val, st))

Choose(e, st) ==
  IF st.val = FAULT THEN st ELSE Eval(IF st.val # 0 THEN e.left ELSE e.right, st)

Eval(e, st) ==
  CASE e.kind = "num"    -> [st EXCEPT !.val = e.val]
    [] e.kind = "var"    -> [st EXCEPT !.val = st.vars[e.name]]
    [] e.kind = "un"     -> [Eval(e.right, st) EXCEPT !.val = UnaryValue(e.op, @, st)]
    [] e.kind = "bin"    -> EvalRight(e, Eval(e.left, st))
    [] e.kind = "before" -> Store(st, e.name, ToByte(st.vars[e.name] + StepBy(e.op)))
    [] e.kind = "after"  -> [Store(st, e.name, ToByte(st.vars[e.name] + StepBy(e.op)))
                               EXCEPT !.val = st.vars[e.name]]
    [] e.kind = "assign" -> StoreInto(e, st.vars[e.name], Eval(e.right, st))
    [] e.kind = "comma"  -> AfterLeft(e, Eval(e.left, st))
    [] e.kind = "cond"   -> Choose(e, Eval(e.test, st))

(* Statements.  Loops may go round st.fuel times in all.                   *)
Divided(st) == IF st.val = FAULT THEN [st EXCEPT !.flow = "fault"] ELSE st
Value(e, st) == IF st.flow # "on" THEN st ELSE Divided(Eval(e, st))
GoOn(st) == [st EXCEPT !.flow = "on"]

RECURSIVE Exec(_, _)

RECURSIVE Loop(_, _)

AfterTest(s, st) ==
  IF st.flow # "on" \/ st.val = 0 THEN st
  ELSE IF st.fuel = 0 THEN [st EXCEPT !.flow = "forever"]
  ELSE Loop(s, Exec(s.body, [st EXCEPT !.fuel = @ - 1]))

(* A loop whose body has just been executed.                               *)
Loop(s, st) ==
  CASE st.flow = "BREAK" -> GoOn(st)
    [] st.flow \in {"on", "CONTINUE"} ->
         AfterTest(s, Value(s.test, IF s.kind = "for" THEN Value(s.post, GoOn(st))
                                    ELSE GoOn(st)))
    [] OTHER -> st

(* The n-th message that a program receives.                               *)
Message(n) == ToByte(7 * n + 3)

Sends(st, p, b) == [st EXCEPT !.sent = Append(@, <<p, b>>)]

Got(st) == [st EXCEPT !.got = @ + 1]

(* The expression that a statement begins with.                            *)
First(s, st) ==
  CASE s.kind \in {"expr", "send"}            -> Value(s.val, st)
    [] s.kind \in {"if", "ifelse", "while"}   -> Value(s.test, st)
    [] s.kind = "for"                         -> Value(s.test, Value(s.init, st))
    [] OTHER                                  -> st

(* And what comes after it.                                                *)
Then(s, st) ==
  IF st.flow # "on" THEN st ELSE
  CASE s.kind = "expr"   -> st
    [] s.kind = "send"   -> Sends(st, s.port, st.val)
    [] s.kind = "recv"   -> Store(Got(st), s.name, Message(st.got))
    [] s.kind = "pass"   -> Sends(Got(st), s.port, Message(st.got))
    [] s.kind = "if"     -> IF st.val # 0 THEN Exec(s.body, st) ELSE st
    [] s.kind = "ifelse" -> Exec(IF st.val # 0 THEN s.body ELSE s.other, st)
    [] s.kind \in {"while", "for"} -> AfterTest(s, st)
    [] s.kind = "do"     -> Loop(s, Exec(s.body, st))
    [] s.kind = "seq"    -> Exec(s.second, Exec(s.first, st))
    [] s.kind = "jump"   -> [st EXCEPT !.flow = s.word]

Exec(s, st) == Then(s, First(s, st))

(* A program that executes s and halts; flow is "HALT" if it gets there.   *)
Fuel == 20
Start(truth) == [vars |-> [x \in Names |-> 0], val |-> 0, sent |-> << >>, got |-> 0,
                 flow |-> "on", fuel |-> Fuel, truth |-> truth]

Result(st)  == [vars |-> st.vars, sent |-> st.sent, got |-> st.got,
                flow |-> IF st.flow = "on" THEN "HALT" ELSE st.flow]
MeaningIf(s, truth) == Result(Exec(s, Start(truth)))
Meaning(s) == MeaningIf(s, 1)

(* Whether s means the same whichever of these bytes is the value of what  *)
(* is true.                                                                *)
IsOnlyTested(s, truths) == \A t \in truths : MeaningIf(s, t) = Meaning(s)
=============================================================================
