----------------------------- MODULE MCScanner ------------------------------
(***************************************************************************)
(* Small files for the scanner.                                            *)
(***************************************************************************)
EXTENDS Scanner, SequencesExt

(* All texts of up to n pieces.                                            *)
Texts(pieces, n) ==
  LET upto[k \in 0 .. n] ==
        IF k = 0 THEN {""} ELSE {""} \union {p \o t : p \in pieces, t \in upto[k - 1]}
  IN  upto[n]

Comments    == Texts({"/", "*", "\n"}, 5)
Operations  == Texts({"<", ">", "=", "-", "+", "|", "%", "!"}, 3)

(* A variable or a port has a letter behind its sign, as SPEC.md has them. *)
IsWellSigned(t) ==
  \A k \in 1 .. Len(t) : /\ Chr(t, k) = "$" => Chr(t, k + 1) \in Letter
                         /\ Chr(t, k) = "%" => Chr(t, k + 1) \notin Digit
Names       == {t \in Texts({"i", "f", "$", "%", "0", " ", "aaaaaaa"}, 3) : IsWellSigned(t)}

(* Numbers of every length that Token.lit holds, and of those that do not  *)
(* fit, but for the one length of which scan_number() loses count.         *)
DigitTexts  == Texts({"0", "1", "8", "f", "1111111"}, 3)
HexTexts    == {"0x" \o t : t \in {d \in DigitTexts : d # "" /\ Len(d) # LITERAL_MAX - 1}}
Numbers     == DigitTexts \union HexTexts
               \union {"255", "256", "0377", "0400", "0xff", "0x100"}
Escapes     == {"\\", "\\n", "\\x", "\\x4", "\\xg", "1", "\\27", "'"}
Quotes      == {q \o t \o q : q \in {"'", "\""}, t \in Texts(Escapes, 3)}
Recoveries  == Texts({"[", "@", ";", "}", "'"}, 3)

MCFiles == Comments \union Operations \union Names \union Numbers \union Quotes
           \union Recoveries

(* One file: a sign without a name, a port of a digit, a binary and an     *)
(* octal number, a hexadecimal one a character longer than Token.lit       *)
(* holds, one with an underscore, escape sequences of a sign and of the    *)
(* byte 255, and a letter that is not of ASCII.                            *)
Undocumented ==
  {"$ %0 0b1 0o7 0x1111111 1_0 '\\x+1' '\\377' #"}
=============================================================================
