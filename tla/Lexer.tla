-------------------------------- MODULE Lexer -------------------------------
(***************************************************************************)
(* From the text of a file to its tokens: what one pass through the loop   *)
(* of scan() makes of the characters from a place on.                      *)
(*                                                                         *)
(* A file f is a string, and s->chr the character at a place k of it.      *)
(* s->chr is a char: the byte 0xFF is EOF to the scanner, and "@" stands   *)
(* for both.  "#" stands for the other bytes above 127, which isutf8()     *)
(* takes for letters.  The vertical tab, which isspace() takes for space,  *)
(* is in no text: a string of TLA+ cannot contain it.                      *)
(***************************************************************************)
EXTENDS Naturals, Sequences, TLC

CONSTANT BUFFER_NODE_MAX        \* 256 in the code

ASSUME LexerAssumption == BUFFER_NODE_MAX \in Nat \ {0}

LITERAL_MAX == 4 * BUFFER_NODE_MAX

Text(f, a, b) == SubSeq(f, a, b)
Chars(s)      == {SubSeq(s, k, k) : k \in 1 .. Len(s)}

Eof   == "@"
Digit == Chars("0123456789")
Ident == Chars("abcdefghijklmnopqrstuvwxyzABCDEFGHIJKLMNOPQRSTUVWXYZ_#") \union Digit
Space == Chars(" \t\n\r\f")

(* What scan() sees at the end of a file is no letter.                     *)
ASSUME EofAssumption == Eof \notin Ident

DigitOf(base) ==
  Chars(CASE base = 2 -> "01" [] base = 8 -> "01234567" [] base = 10 -> "0123456789"
          [] base = 16 -> "0123456789abcdefABCDEF")

-----------------------------------------------------------------------------
(* getc() at the end of the file returns EOF again and again: the last     *)
(* place is the one behind the last character.                             *)
End(f)     == Len(f) + 1
Chr(f, k)  == IF k <= Len(f) THEN Text(f, k, k) ELSE Eof
next(f, k) == IF k <= Len(f) THEN k + 1 ELSE k

(* The first place from k on with a character that is, or is not, in S,    *)
(* or else the end.                                                        *)
First(f, k, S) ==
  CHOOSE j \in k .. End(f) :
    /\ j = End(f) \/ Chr(f, j) \in S
    /\ \A i \in k .. j - 1 : Chr(f, i) \notin S
FirstNot(f, k, S) ==
  CHOOSE j \in k .. End(f) :
    /\ j = End(f) \/ Chr(f, j) \notin S
    /\ \A i \in k .. j - 1 : Chr(f, i) \in S

(* skip_comment(), from the second character of the comment on.            *)
LineEnd(f, k) == next(f, First(f, k, {"\n", Eof}))

(* Defect: a star that no slash follows is passed with the next character. *)
BlockEndPastStars(f, k) ==
  LET end[m \in 1 .. End(f)] ==
        IF Chr(f, m) \in {"/", Eof} THEN next(f, m)
        ELSE end[next(f, First(f, next(f, m), {"*", Eof}))]
  IN  end[next(f, k)]

BlockEnd(f, k) ==
  LET end[m \in 1 .. End(f)] ==
        IF Chr(f, m) \in {"/", Eof} THEN next(f, m)
        ELSE end[next(f, First(f, m, {"*", Eof}))]
  IN  end[next(f, k)]

skip_comment(f, k) ==
  IF Chr(f, k) = "/" THEN LineEnd(f, k) ELSE BlockEnd(f, k)

(* comment(): the place behind a comment at k, if there is one.            *)
comment(f, k) ==
  IF Chr(f, k) = "/" /\ Chr(f, k + 1) \in {"/", "*"} THEN skip_comment(f, k + 1) ELSE k

skip_space(f, k) == FirstNot(f, k, Space)

(* Where the next token begins: after any space and comments.              *)
TokenStart(f, k) ==
  LET start[j \in 1 .. End(f)] ==
        LET after == comment(f, skip_space(f, j))
        IN  IF after = j THEN j ELSE start[after]
  IN  start[k]

-----------------------------------------------------------------------------
(* A token from the place start up to the place to; ok unless an error     *)
(* was sent.                                                               *)
Lexeme(type, lit, to) ==
  [type |-> type, lit |-> lit, start |-> 1, to |-> to, ok |-> TRUE]
TooLarge(type, lit, to) ==
  [type |-> type, lit |-> lit, start |-> 1, to |-> to, ok |-> FALSE]

(* Characters from k up to end, counted from already on: no more than      *)
(* LITERAL_MAX of them; the rest is left for the next token.               *)
Limited(type, f, from, k, end, already) ==
  IF already + (end - k) <= LITERAL_MAX
  THEN Lexeme(type, Text(f, from, end - 1), end)
  ELSE TooLarge(type, Text(f, from, k + LITERAL_MAX - already - 1),
                k + LITERAL_MAX - already)

scan_identifier(f, k, type) == Limited(type, f, k, k, FirstNot(f, k, Ident), 0)

(* Bases after a leading 0, and how much of the header is counted: the     *)
(* letter of "0b" is, those of "0o" and "0x" are not.                      *)
Headers == [b |-> 2, B |-> 2, o |-> 8, O |-> 8, x |-> 16, X |-> 16]

scan_number(f, k) ==
  LET letter == Chr(f, k + 1)
      Digits(from, base, already) ==
        Limited("NUMBER", f, k, from, FirstNot(f, from, DigitOf(base)), already)
  IN  IF Chr(f, k) # "0" THEN Digits(k, 10, 0)
      ELSE IF letter \notin DOMAIN Headers THEN Digits(k + 1, 8, 1)
      ELSE Digits(k + 2, Headers[letter], IF Headers[letter] = 2 THEN 2 ELSE 1)

(* char_() and string(): up to a quote after an even number of             *)
(* backslashes.  At the end of the file, EOF counts as a character.        *)
Escaped(f, k, j) ==
  LET run == CHOOSE n \in 0 .. j - k :
               /\ \A m \in 1 .. n : Chr(f, j - m) = "\\"
               /\ n = j - k \/ Chr(f, j - n - 1) # "\\"
  IN  run % 2 = 1

Closing(f, k, quote) == {j \in k .. Len(f) : Chr(f, j) = quote /\ ~Escaped(f, k, j)}
Least(S) == CHOOSE j \in S : \A i \in S : j <= i

(* Up to a quote at the place end, or up to the place full.                *)
Closed(type, f, k, end) == Lexeme(type, Text(f, k, end - 1), end + 1)
NotClosed(type, f, k, full) == TooLarge(type, Text(f, k, full - 1), full)

QuotedUpTo(type, f, k, ends, full) ==
  IF \E j \in ends : j <= full THEN Closed(type, f, k, Least(ends))
  ELSE NotClosed(type, f, k, IF full <= Len(f) THEN full ELSE End(f))

Quoted(f, k, quote, type) ==
  QuotedUpTo(type, f, k, Closing(f, k, quote), k + LITERAL_MAX)

-----------------------------------------------------------------------------
(* token_table: the token of a character by itself, with "=", with another *)
(* character, and with that one and "=".                                   *)
Rule(tok0, tok1, chr2, tok2, tok3) ==
  [tok0 |-> tok0, tok1 |-> tok1, chr2 |-> chr2, tok2 |-> tok2, tok3 |-> tok3]
simple(tok)        == Rule(tok, "", "", "", "")
switch2(tok, tok1) == Rule(tok, tok1, "", "", "")
switch3(tok, tok1, chr2, tok2)       == Rule(tok, tok1, chr2, tok2, "")
switch4(tok, tok1, chr2, tok2, tok3) == Rule(tok, tok1, chr2, tok2, tok3)

token_table ==
  [c \in {"(", ")", "{", "}", ":", ",", ".", ";", "~", "?", Eof, "%", "!", "*", "/",
          "=", "^", "+", "-", "&", "|", "<", ">"} |->
   CASE c = "(" -> simple("LPAREN") [] c = ")" -> simple("RPAREN")
     [] c = "{" -> simple("LBRACE") [] c = "}" -> simple("RBRACE")
     [] c = ":" -> simple("COLON")  [] c = "," -> simple("COMMA")
     [] c = "." -> simple("PERIOD") [] c = ";" -> simple("SEMICOLON")
     [] c = "~" -> simple("NOT")    [] c = "?" -> simple("COND")
     [] c = Eof -> simple("TOK_EOF")
     [] c = "%" -> switch2("MOD", "MOD_ASSIGN") [] c = "!" -> switch2("LNOT", "NEQ")
     [] c = "*" -> switch2("MUL", "MUL_ASSIGN") [] c = "/" -> switch2("DIV", "DIV_ASSIGN")
     [] c = "=" -> switch2("ASSIGN", "EQL")     [] c = "^" -> switch2("XOR", "XOR_ASSIGN")
     [] c = "+" -> switch3("ADD", "ADD_ASSIGN", "+", "INC")
     [] c = "-" -> switch3("SUB", "SUB_ASSIGN", "-", "DEC")
     [] c = "&" -> switch3("AND", "AND_ASSIGN", "&", "LAND")
     [] c = "|" -> switch3("OR", "OR_ASSIGN", "|", "LOR")
     [] c = "<" -> switch4("LSS", "LTE", "<", "SHL", "SHL_ASSIGN")
     [] c = ">" -> switch4("GTR", "GTE", ">", "SHR", "SHR_ASSIGN")]

(* The scanlets of operators, with the place k behind their first          *)
(* character.                                                              *)
Operator(f, k, rule) ==
  IF rule.tok1 # "" /\ Chr(f, k) = "=" THEN Lexeme(rule.tok1, "", k + 1)
  ELSE IF Chr(f, k) # rule.chr2 THEN Lexeme(rule.tok0, "", k)
  ELSE IF rule.tok3 # "" /\ Chr(f, k + 1) = "=" THEN Lexeme(rule.tok3, "", k + 2)
  ELSE Lexeme(rule.tok2, "", k + 1)

keywords ==
  [break |-> "BREAK", continue |-> "CONTINUE", do |-> "DO", else |-> "ELSE",
   for |-> "FOR", goto |-> "GOTO", halt |-> "HALT", if |-> "IF", while |-> "WHILE",
   buffer |-> "BUFFER", processor |-> "PROCESSOR", stack |-> "STACK"]

lookup(tok) ==
  IF tok.lit \in DOMAIN keywords THEN [tok EXCEPT !.type = keywords[tok.lit]] ELSE tok

(* The scanlet of the character c, with the place k behind it.             *)
scanlet(f, c, k) ==
  CASE c = "$"  -> scan_identifier(f, k, "VARIABLE")
    [] c = "'"  -> Quoted(f, k, "'", "CHAR")
    [] c = "\"" -> Quoted(f, k, "\"", "STRING")
    [] c = "%" /\ Chr(f, k) \in Ident -> scan_identifier(f, k, "PORT")
    [] c = "-" /\ Chr(f, k) = ">"     -> Lexeme("WIRE", "", k + 1)
    [] c = "<" /\ Chr(f, k) = "-"     -> Lexeme("SEND", "", k + 1)
    [] c \notin DOMAIN token_table \union {"$", "'", "\""} -> TooLarge("ILLEGAL", c, k)
    [] OTHER -> Operator(f, k, token_table[c])

(* The token that begins at the place k.                                   *)
TokenAt(f, k, c) ==
  [ CASE c \in Digit         -> scan_number(f, k)
      [] c \in Ident \ Digit -> lookup(scan_identifier(f, k, "IDENTIFIER"))
      [] OTHER               -> scanlet(f, c, next(f, k))
    EXCEPT !.start = k ]

(* The loop of scan(): the next token from the place k on.                 *)
Located(f, start) == TokenAt(f, start, Chr(f, start))
ScanFrom(f, k) == Located(f, TokenStart(f, k))

(* The tokens from the place k on, without the TOK_EOF at the end.         *)
TokensFrom(f, k) ==
  LET from[j \in 1 .. End(f)] ==
        IF TokenStart(f, j) = End(f) THEN << >>
        ELSE LET tok == ScanFrom(f, j) IN <<tok>> \o from[tok.to]
  IN  from[k]
=============================================================================
