------------------------------- MODULE Source -------------------------------
(***************************************************************************)
(* The front end in one: the scanner gives the tokens of a text, literals  *)
(* among them are read, and nodedc, which compiles in the same way as      *)
(* noded, reports the declarations.                                        *)
(***************************************************************************)
EXTENDS Declarations

Lex == INSTANCE Literals WITH BUFFER_NODE_MAX <- UINT8_MAX + 1

(* asm_push() of a number and of a character.                              *)
Value(tok) ==
  CASE tok.type = "NUMBER" -> Lex!parse_int(tok.lit)
    [] tok.type = "CHAR"   -> Lex!parse_char(tok.lit)
    [] OTHER               -> 0

Lexemes(text) == Lex!TokensFrom(text, 1)
Converted(lexemes) ==
  [k \in DOMAIN lexemes |-> [type |-> lexemes[k].type, lit |-> lexemes[k].lit,
                             val |-> Value(lexemes[k])]]
Tokens(text) == Converted(Lexemes(text))

(* The code of the one processor that the text declares, and the bytes of  *)
(* its one buffer.                                                         *)
CodeOf(text) ==
  LET c == nodedc(File(Tokens(text), TRUE))
  IN  IF Accepted(c) THEN c.reports[1].code ELSE << >>

Strings(text)  == SelectSeq(Lexemes(text), LAMBDA tok : tok.type = "STRING")
BytesOf(text) == Lex!parse_string(Strings(text)[1].lit)
=============================================================================
