------------------------------- MODULE Blocks -------------------------------
(***************************************************************************)
(* The compiler, noded's first pass and nodedc on every text of a few      *)
(* pieces, right or wrong, as a block and as a file.                       *)
(***************************************************************************)
EXTENDS Declarations, Flow

CONSTANTS
  Alphabets,      \* sets of pieces, sequences of tokens, that texts are made of
  MaxChunks       \* how many make one

ASSUME BlocksAssumption == MaxChunks \in Nat

VARIABLES
  text,
  report,         \* what nodedc makes of the text
  closed          \* and how it ends if all that is open is closed

vars == <<text, report, closed>>

(* The text as a file: the block of a processor, unless it ends before the *)
(* text does and other declarations follow.  The statement that the text   *)
(* ends in is ended.                                                       *)
Tokens(t) == FlattenSeq(t) \o <<Token("SEMICOLON")>>
FileTokens(t) ==
  <<Token("PROCESSOR"), Named("IDENTIFIER", "n"), Token("LBRACE")>> \o Tokens(t)
    \o <<Token("RBRACE")>>

(* Semicolons and braces enough for whatever the text leaves open.         *)
Closing == [k \in 1 .. 8 * MaxChunks |-> Token(IF k % 2 = 1 THEN "SEMICOLON" ELSE "RBRACE")]

Results(c) == [reports |-> c.reports, accepted |-> Accepted(c), fate |-> c.fate]
ReportOf(t) == Results(nodedc(File(FileTokens(t), TRUE)))
FateOf(t)   == nodedc(File(FileTokens(t) \o Closing, TRUE)).fate

Init == text = << >> /\ report = ReportOf(<< >>) /\ closed = FateOf(<< >>)
Next ==
  /\ Len(text) < MaxChunks
  /\ \E A \in Alphabets : \E k \in A : Range(text) \subseteq A /\ text' = Append(text, k)
  /\ report' = ReportOf(text')
  /\ closed' = FateOf(text')
Spec == Init /\ [][Next]_vars

-----------------------------------------------------------------------------
(* The code keeps its balance, and nodedc lists it all.                    *)
KeepsBalance(code) ==
  \A R \in {Reached(code)} :
    /\ AgreeOnHeights(R) /\ Addresses(R) \subseteq disasm(code)
    /\ Balanced(code, HeightsOf(R))

(* Of any block that the compiler accepts: wherever the code may get to,   *)
(* an instruction begins, and nodedc lists it; the stack is as high each   *)
(* time, so that no loop makes it grow or shrink; it is empty when the     *)
(* code starts again; and it holds what each instruction takes.            *)
CodeIsBalanced ==
  \A k \in DOMAIN report.reports :
    report.reports[k].code # << >> => KeepsBalance(report.reports[k].code)

Kinds(kinds) == SelectSeq(report.reports, LAMBDA r : r.kind \in kinds)

(* A block that goes to a label which it does not define is refused.       *)
GotoesAreDefined ==
  report.accepted /\ Len(report.reports) = 1 =>
    \A ts \in {Tokens(text)} : \A k \in 2 .. Len(ts) :
      ts[k].type = "IDENTIFIER" /\ ts[k - 1].type = "GOTO" =>
        \E j \in 1 .. Len(ts) - 1 : ts[j] = ts[k] /\ ts[j + 1].type = "COLON"

(* Where nodedc finds no error the first pass of noded, which only counts  *)
(* braces and semicolons, finds none either, and counts what nodedc has    *)
(* reported: it skips just as much of the file as the compiler reads.      *)
PassesAgree ==
  report.accepted =>
    \A p \in {FirstPass(File(FileTokens(text), TRUE))} :
      /\ Accepted(p) /\ p.toks = << >>
      /\ p.nnodes = 1 + Len(Kinds({"processor", "copy", "buffer", "stack"}))
      /\ p.nwires = Len(Kinds({"wire"}))

(* nodedc, which goes on after an error, comes to an end on every file     *)
(* that can be repositioned, the last block of which is closed: by itself, *)
(* or because there are too many errors.                                   *)
NodedcEnds == closed # "hang"
=============================================================================
