----------------------------- MODULE MCCompiled -----------------------------
(***************************************************************************)
(* Programs for Compiled.                                                  *)
(***************************************************************************)
EXTENDS Compiled

x == Var("x")
y == Var("y")
z == Var("z")

XYZ == {"x", "y", "z"}

Shifts      == {"SHL", "SHR"}
Connectives == {"LOR", "LAND"}
Logicals    == Comparisons \union Connectives
Operators   == UNION {BinaryLevels[k] : k \in DOMAIN BinaryLevels}
Assignments == Levels[PREC_ASSIGN]
UnaryOperators    == {"ADD", "SUB", "LNOT", "NOT"}

(* Two operators beside each other, with no more parentheses than they     *)
(* need.  No shift is by more than 20, and nothing that || and && may      *)
(* leave out divides.                                                      *)
Pairs ==
  {Bin(f, Bin(g, x, y), z) : f, g \in Operators}
  \union {Bin(f, x, Bin(g, y, z)) : f \in Operators \ (Shifts \union Connectives), g \in Operators}
  \union {Bin(f, x, Bin(g, y, z)) : f \in Shifts, g \in Operators \ Logicals}
  \union {Bin(f, x, Bin(g, y, z)) : f \in Connectives, g \in Operators \ {"DIV", "MOD"}}

WithPrefixes ==
  {Un(u, Bin(f, x, y)) : u \in UnaryOperators, f \in Operators}
  \union {Bin(f, Un(u, x), y) : u \in UnaryOperators, f \in Operators}
  \union {Bin(f, x, Un(u, y)) : u \in UnaryOperators, f \in Operators \ Shifts}

(* What an operator reads and what another one of its operands changes;    *)
(* what || and && may leave out changes nothing.                           *)
Changes == {Before("INC", "x"), After("DEC", "x"), Asg("ASSIGN", "x", z)}
SideEffects ==
  {Bin(f, e, d) : f \in Operators \ ({"DIV", "MOD"} \union Connectives), e, d \in {x} \union Changes}
  \union {Bin(f, e, x) : f \in Connectives, e \in Changes}
  \union {Asg(a, "x", Asg(b, v, Bin("LSS", y, z))) :
            a \in Assignments \ {"SHL_ASSIGN", "SHR_ASSIGN"}, b \in Assignments,
            v \in {"x", "y"}}
  \union {Comma(e, d) : e, d \in {x, After("INC", "x"), Before("DEC", "x"), Num(1),
                                  Asg("ADD_ASSIGN", "x", y)}}

(* x, y and z have values, and the expression is sent, or tested.          *)
Given(a, b, c, s) ==
  Seq2(Seq2(Expr(Asg("ASSIGN", "x", Num(a))), Expr(Asg("ASSIGN", "y", Num(b)))),
       Seq2(Expr(Asg("ASSIGN", "z", Num(c))), s))

Sent(e)   == Send("out", e)
Tested(e) == IfElse(e, Send("out", x), Send("out", Num(7)))

(* Of these, the programs in which it is no matter which byte a comparison *)
(* or a connective yields for what is true.                                *)
Expressions ==
  {p \in {Given(6, 5, 2, Sent(e)) : e \in Pairs \union WithPrefixes \union SideEffects}
          \union {Given(6, 5, 2, Tested(e)) : e \in Pairs \union WithPrefixes \union SideEffects}
          \union {Given(1, 3, 0, Sent(e)) : e \in Pairs}
          \union {Given(1, 3, 0, Tested(e)) : e \in Pairs} :
     IsOnlyTested(p, {2, 3, 5, 6, UINT8_MAX})}

-----------------------------------------------------------------------------
(* Statements within statements, but no loop within a loop.                *)
More == Bin("LSS", x, Num(2))
One  == Bin("EQL", x, Num(1))
Inc  == Expr(After("INC", "x"))
Simple == {Inc, Send("out", x), Recv("x", "in"), Pass("out", "in"), Jump("HALT")}

Ifs(S) == {If(One, s) : s \in S} \union {IfElse(One, s, t) : s, t \in S}
Bodies ==
  LET S == Simple \union {Jump("BREAK"), Jump("CONTINUE")}
  IN  {Seq2(s, t) : s, t \in S \union Ifs(S)}

Whiles == {While(More, s) : s \in Bodies}
Nested == Ifs(Ifs(Simple))

Ending(S) == {s \in S : Meaning(s).flow # "forever"}

Statements ==
  {Seq2(s, Send("out", x)) : s \in Ending(Whiles)}
  \union {Seq2(Send("out", x), s) : s \in Nested}

(* 2^n times the same statement of five bytes: 321 bytes, or no more than  *)
(* a byte counts, with the halt at the end.                                *)
RECURSIVE Doubled(_, _)
Doubled(n, s) == IF n = 0 THEN s ELSE Seq2(Doubled(n - 1, s), Doubled(n - 1, s))
Increment == Expr(Asg("ASSIGN", "x", Bin("ADD", x, Num(1))))
LongPrograms == {Doubled(6, Increment)}
LongEnough   == {Seq2(Doubled(5, Increment), Seq2(Doubled(4, Increment), Doubled(1, Increment)))}

MCPrograms == Expressions \union Statements \union LongEnough

-----------------------------------------------------------------------------
(* A program that the compiler gets wrong in each of its statements: a     *)
(* comparison that holds is 255; || does not leave out its second operand; *)
(* x ? z : y is y when z is 0; and a for loop goes from its post           *)
(* expression to the post expression, which at last divides by zero.       *)
CountDown == Bin("DIV", Num(1), Bin("SUB", Num(3), Before("INC", "x")))
UnlikeSpec ==
  {Given(6, 5, 0,
     Seq2(Seq2(Send("out", Bin("GTR", x, y)),
               Seq2(Expr(Bin("LOR", x, Before("INC", "x"))), Send("out", x))),
          Seq2(Send("out", Cond(x, z, y)),
               For(Asg("ASSIGN", "x", Num(0)), Bin("LSS", x, Num(2)), CountDown,
                   Send("out", x)))))}
=============================================================================
