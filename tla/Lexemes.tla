------------------------------- MODULE Lexemes ------------------------------
(***************************************************************************)
(* A reference for the scanner: the lexemes of the language by the         *)
(* spellings of token.c and the lexical part of SPEC.md, without a scanner *)
(* in it, and what they stand for.  It follows SPEC.md where scanner.c and *)
(* parse.c do not; which words are reserved, it takes from token.c.        *)
(***************************************************************************)
EXTENDS Literals, FiniteSets

(* tokens[] of token.c, for the tokens that are spelled in one way.        *)
Spelled ==
  "(" :> "LPAREN" @@ ")" :> "RPAREN" @@ "{" :> "LBRACE" @@ "}" :> "RBRACE" @@
  ":" :> "COLON" @@ "," :> "COMMA" @@ "." :> "PERIOD" @@ ";" :> "SEMICOLON" @@
  "->" :> "WIRE" @@ "<-" :> "SEND" @@ "=" :> "ASSIGN" @@ "|=" :> "OR_ASSIGN" @@
  "^=" :> "XOR_ASSIGN" @@ "&=" :> "AND_ASSIGN" @@ ">>=" :> "SHR_ASSIGN" @@
  "<<=" :> "SHL_ASSIGN" @@ "+=" :> "ADD_ASSIGN" @@ "-=" :> "SUB_ASSIGN" @@
  "*=" :> "MUL_ASSIGN" @@ "/=" :> "DIV_ASSIGN" @@ "%=" :> "MOD_ASSIGN" @@
  "?" :> "COND" @@ "||" :> "LOR" @@ "&&" :> "LAND" @@ "|" :> "OR" @@ "^" :> "XOR" @@
  "&" :> "AND" @@ "==" :> "EQL" @@ "!=" :> "NEQ" @@ ">=" :> "GTE" @@ ">" :> "GTR" @@
  "<=" :> "LTE" @@ "<" :> "LSS" @@ ">>" :> "SHR" @@ "<<" :> "SHL" @@ "+" :> "ADD" @@
  "-" :> "SUB" @@ "*" :> "MUL" @@ "/" :> "DIV" @@ "%" :> "MOD" @@ "++" :> "INC" @@
  "--" :> "DEC" @@ "!" :> "LNOT" @@ "~" :> "NOT" @@ "break" :> "BREAK" @@
  "continue" :> "CONTINUE" @@ "do" :> "DO" @@ "else" :> "ELSE" @@ "for" :> "FOR" @@
  "goto" :> "GOTO" @@ "halt" :> "HALT" @@ "if" :> "IF" @@ "while" :> "WHILE" @@
  "buffer" :> "BUFFER" @@ "processor" :> "PROCESSOR" @@ "stack" :> "STACK"

(* The others, as the grammar of SPEC.md has them.                         *)
All(s, from, S) == \A k \in from .. Len(s) : Chr(s, k) \in S
Begins(s, S)    == s # "" /\ Chr(s, 1) \in S

Alphanumeric == Chars("abcdefghijklmnopqrstuvwxyzABCDEFGHIJKLMNOPQRSTUVWXYZ_0123456789")
Letter       == Alphanumeric \ Digit

IsIdentifier(s) == Begins(s, Letter) /\ All(s, 1, Alphanumeric)
IsName(s, sigil) ==
  Begins(s, {sigil}) /\ Len(s) > 1 /\ Chr(s, 2) \in Letter /\ All(s, 2, Alphanumeric)

(* Digits from a place on, at least one, each of which may have an         *)
(* underscore before it if something of the literal is in front of that.   *)
Spaced(s, from, S) ==
  /\ from <= Len(s) /\ Chr(s, Len(s)) \in S
  /\ \A k \in from .. Len(s) :
       \/ Chr(s, k) \in S
       \/ Chr(s, k) = "_" /\ k > 1 /\ Chr(s, k - 1) # "_"

Header(s, letters) == Len(s) > 1 /\ Chr(s, 1) = "0" /\ Chr(s, 2) \in letters

(* The base of a number, and where its digits begin.                       *)
Form(s) ==
  CASE Header(s, {"b", "B"}) -> [base |-> 2, from |-> 3]
    [] Header(s, {"o", "O"}) -> [base |-> 8, from |-> 3]
    [] Header(s, {"x", "X"}) -> [base |-> 16, from |-> 3]
    [] Header(s, Digit \union {"_"}) -> [base |-> 8, from |-> 2]
    [] OTHER -> [base |-> 10, from |-> 1]

IsNumber(s) == Begins(s, Digit) /\ Spaced(s, Form(s).from, DigitOf(Form(s).base))

(* Between two quotes: characters, and backslashes each with the character *)
(* that follows it.                                                        *)
IsQuoted(s, quote) ==
  LET closes[k \in 2 .. Len(s) + 2] ==
        CASE k > Len(s)                 -> FALSE
          [] k <= Len(s) /\ Chr(s, k) = quote -> k = Len(s)
          [] k <= Len(s) /\ Chr(s, k) = "\\"  -> closes[k + 2]
          [] OTHER -> closes[k + 1]
  IN  Begins(s, {quote}) /\ Len(s) > 1 /\ closes[2]

Kind(s) ==
  CASE s \in DOMAIN Spelled -> {Spelled[s]}
    [] IsIdentifier(s) /\ s \notin DOMAIN Spelled -> {"IDENTIFIER"}
    [] IsName(s, "$") -> {"VARIABLE"}
    [] IsName(s, "%") -> {"PORT"}
    [] IsNumber(s)   -> {"NUMBER"}
    [] IsQuoted(s, "'")  -> {"CHAR"}
    [] IsQuoted(s, "\"") -> {"STRING"}
    [] OTHER -> {}

(* Where the lexemes that begin at k end, and the longest of them.         *)
Ends(f, k) == {j \in k .. Len(f) : Kind(Text(f, k, j)) # {}}
Longest(f, k) == CHOOSE j \in Ends(f, k) : \A i \in Ends(f, k) : i <= j

-----------------------------------------------------------------------------
(* What may stand between two tokens: space and comments.  "/*" ends at    *)
(* the first "*/", for which its own star counts too.                      *)
Stars(f, k) == {j \in k + 1 .. Len(f) - 1 : Text(f, j, j + 1) = "*/"}
Comment(f, k) ==
  CASE Text(f, k, k + 1) = "//" -> First(f, k, {"\n"})
    [] Text(f, k, k + 1) = "/*" ->
         IF Stars(f, k) = {} THEN Len(f)
         ELSE 1 + CHOOSE j \in Stars(f, k) : \A i \in Stars(f, k) : j <= i

IsComment(f, k) == k < Len(f) /\ Text(f, k, k + 1) \in {"//", "/*"}

(* The places of f that a token may begin at when the last one ended       *)
(* before k.                                                               *)
Begin(f, k) ==
  LET from[j \in k .. Len(f) + 2] ==
        CASE j > Len(f) -> End(f)
          [] j <= Len(f) /\ Chr(f, j) \in Space -> from[j + 1]
          [] j <= Len(f) /\ IsComment(f, j) -> from[Comment(f, j) + 1]
          [] OTHER -> j
  IN  from[k]

-----------------------------------------------------------------------------
(* What literals stand for.  A number is the sum of its digits, each times *)
(* the base to the power of how many digits follow it.                     *)
NumberOf(s) ==
  LET value[k \in Form(s).from - 1 .. Len(s)] ==
        IF k < Form(s).from THEN 0
        ELSE IF Chr(s, k) = "_" THEN value[k - 1]
        ELSE Form(s).base * value[k - 1] + DigitValue(Chr(s, k))
  IN  value[Len(s)]

(* The units of characters and strings, with their bytes: a character, an  *)
(* escape sequence, three octal digits of a byte, two hexadecimal ones.    *)
(* An escaped apostrophe is in an example of it, an escaped quote only in  *)
(* parse.c.                                                                *)
HexDigits == DigitOf(16)
Plain == [c \in DOMAIN Ord \ {"\\"} |-> Ord[c]]
Named == "\\a" :> 7 @@ "\\b" :> 8 @@ "\\t" :> 9 @@ "\\n" :> 10 @@ "\\v" :> 11
         @@ "\\f" :> 12 @@ "\\r" :> 13 @@ "\\'" :> Ord["'"] @@ "\\\"" :> Ord["\""]
Hexadecimal ==
  [s \in {"\\x" \o c \o d : c, d \in HexDigits} |->
     16 * DigitValue(Chr(s, 3)) + DigitValue(Chr(s, 4))]
Octal ==
  [s \in {"\\" \o c \o d \o e : c \in Chars("0123"), d, e \in DigitOf(8)} |->
     64 * DigitValue(Chr(s, 2)) + 8 * DigitValue(Chr(s, 3)) + DigitValue(Chr(s, 4))]
Unit == Plain @@ Named @@ Hexadecimal @@ Octal

(* The bytes that lit is made of: a set of one sequence, or of none.       *)
Spells(lit) ==
  LET from[k \in 1 .. Len(lit) + 1] ==
        IF k > Len(lit) THEN {<< >>}
        ELSE UNION {{<<Unit[Text(lit, k, k + n - 1)]>> \o rest : rest \in from[k + n]} :
                      n \in {m \in {1, 2, 4} : k + m - 1 <= Len(lit)
                                               /\ Text(lit, k, k + m - 1) \in DOMAIN Unit}}
  IN  from[1]
=============================================================================
