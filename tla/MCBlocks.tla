------------------------------ MODULE MCBlocks ------------------------------
(***************************************************************************)
(* The pieces of blocks.                                                   *)
(***************************************************************************)
EXTENDS Blocks

One(type) == <<Token(type)>>
X == <<Named("VARIABLE", "x")>>
P == <<Named("PORT", "p")>>
L == <<Named("IDENTIFIER", "l")>>
N == <<Literal("NUMBER", 1)>>
(* The tokens that expressions tell apart: of operators on values, a       *)
(* suffix, a prefix and the conditional; and of messages and sequences.    *)
ValueTokens ==
  {X, P, One("LPAREN"), One("RPAREN"), One("SEMICOLON"), One("COND"),
   One("COLON"), One("INC"), One("SUB"), One("ASSIGN")}
MessageTokens ==
  {X, P, N, One("LPAREN"), One("RPAREN"), One("SEMICOLON"), One("ASSIGN"),
   One("SEND"), One("COMMA")}

(* The beginnings of statements, and short ones: loops with their ends,    *)
(* and jumps to labels.                                                    *)
Test == One("LPAREN") \o X \o One("RPAREN")
Branches ==
  {One("IF") \o Test, One("ELSE"), One("WHILE") \o Test, One("LBRACE"),
   One("RBRACE")}
LoopPieces ==
  Branches \union
  {One("DO"),
   One("FOR") \o One("LPAREN") \o X \o One("SEMICOLON") \o N \o One("SEMICOLON")
     \o X \o One("INC") \o One("RPAREN"),
   One("BREAK") \o One("SEMICOLON"), One("CONTINUE") \o One("SEMICOLON"),
   X \o One("INC") \o One("SEMICOLON")}
JumpPieces ==
  Branches \union
  {One("GOTO") \o L \o One("SEMICOLON"), L \o One("COLON"),
   One("HALT") \o One("SEMICOLON")}

(* Declarations, and parts of them; a text may end the block in which it   *)
(* begins and begin another one.                                           *)
NodeName == <<Named("IDENTIFIER", "n")>>
Port == NodeName \o One("PERIOD") \o NodeName
Opened ==
  {One("PROCESSOR") \o NodeName \o One("LBRACE"), One("RBRACE"),
   One("SEMICOLON"), NodeName}
NodePieces ==
  Opened \union
  {One("PROCESSOR") \o NodeName \o One("ASSIGN") \o NodeName \o One("SEMICOLON"),
   One("BUFFER") \o NodeName \o One("ASSIGN") \o One("STRING") \o One("SEMICOLON"),
   One("STACK") \o NodeName \o One("SEMICOLON"),
   Port \o One("WIRE") \o Port \o One("SEMICOLON")}
BlockPieces ==
  Opened \union {One("LBRACE"), X, One("RPAREN"), One("IF") \o Test}

MCAlphabets ==
  {ValueTokens, MessageTokens, LoopPieces, JumpPieces, NodePieces, BlockPieces}

NoLabels == << >>
=============================================================================
