---------------------------- MODULE Declarations ----------------------------
(***************************************************************************)
(* The declarations of a file as tokens, and two programs that read them:  *)
(* noded, whose first pass skips them to count nodes and wires, and        *)
(* nodedc, which reports them one by one and goes on after an error.       *)
(*                                                                         *)
(* Every operator takes a file of module Compiler as it is open, with      *)
(* counts, or with what was reported, and returns it as its C function     *)
(* leaves it.                                                              *)
(***************************************************************************)
EXTENDS Compiler

CONSTANT StaleLabels    \* what compile() finds in the memory of its labels

Expects(c, types) == FoldLeft(Expect, c, types)

-----------------------------------------------------------------------------
(* noded, first pass.                                                      *)

(* The braces that are open after the first k tokens, the first of which   *)
(* is a brace.                                                             *)
OpenBraces(toks, k) ==
  Quantify(1 .. k, LAMBDA j : toks[j].type = "LBRACE")
    - Quantify(1 .. k, LAMBDA j : toks[j].type = "RBRACE")

(* Defect: a block ends at the first closing brace.                        *)
SkipBlockToBrace(c) == Scan(ZapTo(c, "RBRACE"))

SkipBlock(c) ==
  LET Ends == {k \in DOMAIN c.toks : OpenBraces(c.toks, k) = 0}
  IN  IF Ends = {} THEN Error([c EXCEPT !.toks = << >>])
      ELSE [c EXCEPT !.toks = SubSeq(@, Least(Ends) + 1, Len(@))]

Body(c) ==
  CASE PeekType(c) = "ASSIGN" -> Expects(c, <<"ASSIGN", "IDENTIFIER", "SEMICOLON">>)
    [] PeekType(c) = "LBRACE" -> SkipBlock(c)
    [] PeekType(c) \notin {"ASSIGN", "LBRACE"} -> Error(c)

skip_processor(c) == Body(Expects(c, <<"PROCESSOR", "IDENTIFIER">>))

BufferTokens == <<"BUFFER", "IDENTIFIER", "ASSIGN", "STRING", "SEMICOLON">>
StackTokens  == <<"STACK", "IDENTIFIER", "SEMICOLON">>
WireTokens   == <<"IDENTIFIER", "PERIOD", "IDENTIFIER", "WIRE", "IDENTIFIER", "PERIOD",
                  "IDENTIFIER", "SEMICOLON">>
skip_buffer(c) == Expects(c, BufferTokens)
skip_stack(c)  == Expects(c, StackTokens)
skip_wire(c)   == Expects(c, WireTokens)

NodeCounted(c) == [c EXCEPT !.nnodes = @ + 1]
WireCounted(c) == [c EXCEPT !.nwires = @ + 1]

Skipped(c) ==
  LET type == PeekType(c)
  IN  CASE type = "PROCESSOR"  -> skip_processor(NodeCounted(c))
        [] type = "BUFFER"     -> skip_buffer(NodeCounted(c))
        [] type = "STACK"      -> skip_stack(NodeCounted(c))
        [] type = "IDENTIFIER" -> skip_wire(WireCounted(c))
        [] type \notin {"PROCESSOR", "BUFFER", "STACK", "IDENTIFIER"} -> Error(c)

(* A loop goes round for ever if one round changes nothing.                *)
RECURSIVE Count(_)
Counted(c, after) == IF after = c THEN Dies(c, "hang") ELSE Count(after)
Count(c) ==
  IF c.fate # "ok" \/ PeekType(c) = "TOK_EOF" \/ HasErrors(c) THEN c
  ELSE Counted(c, Skipped(c))

FirstPass(file) == Count([nnodes |-> 1, nwires |-> 0] @@ file)

-----------------------------------------------------------------------------
(* nodedc.                                                                 *)
Reports(c, kind, code) ==
  [c EXCEPT !.reports = Append(@, [kind |-> kind, code |-> code])]

(* disasm(): the addresses at which it lists an instruction.  block->size  *)
(* is a byte.                                                              *)
RECURSIVE ListedFrom(_, _)
ListedFrom(code, a) ==
  IF a >= Wrap(Len(code)) THEN {} ELSE {a} \union ListedFrom(code, a + Size(code[a + 1]))
disasm(code) == ListedFrom(code, 0)

ReportBlock(c, compiled) ==
  LET after == [c EXCEPT !.toks = compiled.toks, !.errors = compiled.errors,
                         !.fate = compiled.fate]
  IN  IF Accepted(after) THEN Reports(after, "processor", compiled.code) ELSE after

ReportBody(c) ==
  CASE PeekType(c) = "LBRACE" -> ReportBlock(c, compile(c, StaleLabels))
    [] PeekType(c) = "ASSIGN" ->
         Reports(Expects(Scan(c), <<"IDENTIFIER", "SEMICOLON">>), "copy", << >>)
    [] PeekType(c) \notin {"ASSIGN", "LBRACE"} -> Error(c)

report_processor(c) == ReportBody(Expects(c, <<"PROCESSOR", "IDENTIFIER">>))
report_buffer(c) == Reports(Expects(c, BufferTokens), "buffer", << >>)
report_stack(c)  == Reports(Expects(c, StackTokens), "stack", << >>)
report_wire(c)   == Reports(Expects(c, WireTokens), "wire", << >>)

Reported(c) ==
  LET type == PeekType(c)
  IN  CASE type = "PROCESSOR"  -> report_processor(c)
        [] type = "BUFFER"     -> report_buffer(c)
        [] type = "STACK"      -> report_stack(c)
        [] type = "IDENTIFIER" -> report_wire(c)
        [] type \notin {"PROCESSOR", "BUFFER", "STACK", "IDENTIFIER"} -> Error(c)

RECURSIVE Report(_)
ReportedOne(c, after) == IF after = c THEN Dies(c, "hang") ELSE Report(after)
Report(c) ==
  IF c.fate # "ok" \/ PeekType(c) = "TOK_EOF" THEN c ELSE ReportedOne(c, Reported(c))

nodedc(file) == Report([reports |-> << >>] @@ file)
=============================================================================
