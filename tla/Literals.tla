------------------------------- MODULE Literals ------------------------------
(***************************************************************************)
(* parse_int(), parse_char() and parse_string(): from the text of a        *)
(* literal to its bytes.  INVALID stands for a literal that is reported,   *)
(* and for which 0 is returned.                                            *)
(***************************************************************************)
EXTENDS Lexer, Integers

BYTES   == 256
INVALID == BYTES

(* The byte of a character; some byte above 127 stands for all of them.    *)
Ascii32 == " !\"#$%&'()*+,-./0123456789:;<=>?@ABCDEFGHIJKLMNOPQRSTUVWXYZ[\\]^_"
Ascii97 == "abcdefghijklmnopqrstuvwxyz{|}~"
IndexOf(c, s) == CHOOSE k \in 1 .. Len(s) : Text(s, k, k) = c

Ord == [c \in Chars(Ascii32) \union Chars(Ascii97) \union Space |->
  CASE c = Eof  -> 255
    [] c = "#"  -> 195
    [] c = "\t" -> 9  [] c = "\n" -> 10  [] c = "\f" -> 12  [] c = "\r" -> 13
    [] c \in Chars(Ascii97) -> 96 + IndexOf(c, Ascii97)
    [] c \in Chars(Ascii32) \ {Eof, "#"} -> 31 + IndexOf(c, Ascii32)]

(* The value of a digit of any base.                                       *)
DigitValue(c) ==
  CASE c \in Digit            -> Ord[c] - Ord["0"]
    [] c \in Chars("abcdef")  -> Ord[c] - Ord["a"] + 10
    [] c \in Chars("ABCDEF")  -> Ord[c] - Ord["A"] + 10

-----------------------------------------------------------------------------
(* strtoul(s, &end, base) on an s without an overflow: any space, a sign,  *)
(* "0x" before a hexadecimal digit, and digits.  It takes the base from    *)
(* the prefix if base is 0; C99 has none for base 2.  Result: the value,   *)
(* and how many characters it has read.                                    *)
DigitsUpTo(s, from, end, base) ==
  LET value[k \in from - 1 .. end - 1] ==
        IF k < from THEN 0 ELSE base * value[k - 1] + DigitValue(Chr(s, k))
  IN  [val |-> value[end - 1], len |-> IF end = from THEN 0 ELSE end - 1]

ReadDigits(s, from, base) == DigitsUpTo(s, from, FirstNot(s, from, DigitOf(base)), base)

HasPrefix0x(s, k) ==
  Chr(s, k) = "0" /\ Chr(s, k + 1) \in {"x", "X"} /\ Chr(s, k + 2) \in DigitOf(16)

Unsigned(s, k, base) ==
  IF base \in {0, 16} /\ HasPrefix0x(s, k) THEN ReadDigits(s, k + 2, 16)
  ELSE ReadDigits(s, k, IF base # 0 THEN base ELSE IF Chr(s, k) = "0" THEN 8 ELSE 10)

Signed(s, k, base) ==
  [Unsigned(s, IF Chr(s, k) \in {"+", "-"} THEN k + 1 ELSE k, base)
     EXCEPT !.val = IF Chr(s, k) = "-" THEN -@ ELSE @]

strtoul(s, base) == Signed(s, FirstNot(s, 1, Space), base)

(* The value of a number: the whole literal is read, and it is a byte.     *)
ByteIf(n, lit) == IF n.len = Len(lit) /\ n.val < BYTES THEN n.val ELSE INVALID
parse_int(lit) == ByteIf(strtoul(lit, 0), lit)

-----------------------------------------------------------------------------
(* parse_escape(): the byte of the escape sequence at a place, and how far *)
(* to advance.                                                             *)
Escape(val, advance) == [val |-> val, advance |-> advance]
BadEscape == Escape(INVALID, 0)

(* n characters from k on that strtoul() reads to the last.                *)
AllRead(r, n) == IF r.len = n THEN Escape(r.val % BYTES, 4) ELSE BadEscape
Digits(s, k, n, base) ==
  IF k + n - 1 > Len(s) THEN BadEscape ELSE AllRead(strtoul(Text(s, k, k + n - 1), base), n)

parse_escape(s, k) ==
  LET c == IF k < Len(s) THEN Chr(s, k + 1) ELSE ""
  IN  CASE c = "x" -> Digits(s, k + 2, 2, 16)
        [] c \in Chars("012") -> Digits(s, k + 1, 3, 8)
        [] c = "n" -> Escape(10, 2)
        [] c = "t" -> Escape(9, 2)
        [] c = "r" -> Escape(13, 2)
        [] c \in {"'", "\""} -> Escape(Ord[c], 2)
        [] OTHER -> BadEscape

OnlyEscape(e, lit) == IF e.advance = Len(lit) THEN e.val ELSE INVALID

parse_char(lit) ==
  IF Chr(lit, 1) = "\\" THEN OnlyEscape(parse_escape(lit, 1), lit)
  ELSE IF Len(lit) = 1 THEN Ord[lit] ELSE INVALID

(* The bytes of a string, and <<INVALID>> if it is reported: an escape     *)
(* sequence is wrong, or a byte comes after the last that a buffer holds.  *)
UnitAt(lit, k) ==
  IF Chr(lit, k) = "\\" THEN parse_escape(lit, k) ELSE Escape(Ord[Chr(lit, k)], 1)

Units(lit) ==
  LET from[k \in 1 .. Len(lit) + 1] ==
        LET e == UnitAt(lit, k)
        IN  IF k > Len(lit) THEN << >>
            ELSE IF e.val = INVALID THEN <<INVALID>>
            ELSE <<e.val>> \o from[k + e.advance]
  IN  from[1]

AtMost(bytes, max) ==
  IF Len(bytes) > max \/ \E k \in DOMAIN bytes : bytes[k] = INVALID
  THEN <<INVALID>> ELSE bytes

(* Defect: the check against a buffer overflow comes one byte late.        *)
parse_stringOneMore(lit) == AtMost(Units(lit), BUFFER_NODE_MAX + 1)

parse_string(lit) == AtMost(Units(lit), BUFFER_NODE_MAX)
=============================================================================
