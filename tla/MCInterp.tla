------------------------------ MODULE MCInterp ------------------------------
(***************************************************************************)
(* Programs of the repository's examples directory for TLC: the bytecode   *)
(* that compile() emits for their processors (nodedc lists it), their      *)
(* nodes and their wires.                                                  *)
(***************************************************************************)
EXTENDS Interp, Examples, FiniteSets, SequencesExt

Cleared == << >>
FrontEnd == INSTANCE Source WITH ERROR_MAX <- 10, StaleLabels <- Cleared

To(node, port, wire) == [recp |-> node, recp_port |-> port, wire |-> wire]
WireIds == UNION {{Port[n][p].wire : p \in DOMAIN Port[n]} : n \in Proc}

(* parse_string(): the bytes of the literal, then zeroes.                  *)
Filled(s) == [b \in Byte |-> IF b < Len(s) THEN s[b + 1] ELSE 0]

NoBuffers == << >>
Finished == exit = "done"

-----------------------------------------------------------------------------
(* examples/tac.nod: io, store, line, report.                              *)

TacStore == <<
  OP["RECV0"], OP["SAVE0"], OP["LOAD0"], OP["PUSH"], 10, OP["EQL"],
  OP["LNOT"], OP["FJMP"], 20, 0, OP["LOAD0"], OP["SEND1"], OP["LOAD1"],
  OP["PUSH"], 1, OP["ADD"], OP["SAVE1"], OP["JMP"], 25, 0, OP["LOAD1"],
  OP["SEND2"], OP["PUSH"], 0, OP["SAVE1"] >>

TacReport == <<
  OP["RECV0"], OP["SAVE0"], OP["LOAD0"], OP["FJMP"], 16, 0, OP["RECV2"],
  OP["SEND1"], OP["LOAD0"], OP["PUSH"], 1, OP["SUB"], OP["SAVE0"],
  OP["JMP"], 2, 0, OP["PUSH"], 10, OP["SEND1"] >>

TacType == 0 :> "IO_NODE" @@ 1 :> "PROC_NODE" @@ 2 :> "STACK_NODE" @@
           3 :> "PROC_NODE"
TacPort == 1 :> (0 :> To(0, 0, "in") @@ 1 :> To(2, 0, "st") @@
                 2 :> To(3, 0, "send")) @@
           3 :> (0 :> To(1, 2, "send") @@ 1 :> To(0, 1, "out") @@
                 2 :> To(2, 0, "elm"))
TacCode == 1 :> TacStore @@ 3 :> TacReport

(* The lines of s, each one reversed, up to the last newline.              *)
NEWLINE == 10
ReversedLines(s) ==
  FoldLeft(LAMBDA acc, c :
             IF c = NEWLINE
             THEN [text |-> acc.text \o Reverse(acc.line) \o <<c>>, line |-> <<>>]
             ELSE [acc EXCEPT !.line = Append(@, c)],
           [text |-> <<>>, line |-> <<>>], s).text

(* tac.nod reverses individual lines: whatever was typed, the console      *)
(* shows the lines typed so far reversed, all of them when it ends.  The   *)
(* two processors share the stack node without any protocol; it is run()'s *)
(* letting a turn last until it blocks that keeps the next line out of the *)
(* stack while report empties it.                                          *)
TacReverses ==
  proc[1].code = TacStore =>
    /\ IsPrefix(out[IO_OUT], ReversedLines(stdin.written))
    /\ Finished => out[IO_OUT] = ReversedLines(stdin.written)

-----------------------------------------------------------------------------
(* examples/adder.nod: io, reader, adder, error, errormsg, printer.        *)

AdderReader == <<
  OP["RECV0"], OP["SAVE0"], OP["LOAD0"], OP["PUSH"], 48, OP["LSS"],
  OP["LNOT"], OP["LOAD0"], OP["PUSH"], 57, OP["LTE"], OP["LAND"],
  OP["FJMP"], 31, 0, OP["LOAD1"], OP["PUSH"], 10, OP["MUL"], OP["LOAD0"],
  OP["PUSH"], 48, OP["SUB"], OP["ADD"], OP["SAVE1"], OP["PUSH"], 1,
  OP["SAVE2"], OP["JMP"], 90, 0, OP["LOAD0"], OP["PUSH"], 32, OP["EQL"],
  OP["FJMP"], 56, 0, OP["LOAD2"], OP["FJMP"], 53, 0, OP["PUSH"], 0,
  OP["SEND1"], OP["LOAD1"], OP["SEND1"], OP["PUSH"], 0, OP["SAVE1"],
  OP["PUSH"], 0, OP["SAVE2"], OP["JMP"], 90, 0, OP["LOAD0"], OP["PUSH"], 10,
  OP["EQL"], OP["FJMP"], 86, 0, OP["LOAD2"], OP["FJMP"], 78, 0,
  OP["PUSH"], 0, OP["SEND1"], OP["LOAD1"], OP["SEND1"], OP["PUSH"], 0,
  OP["SAVE1"], OP["PUSH"], 0, OP["SAVE2"], OP["PUSH"], 1, OP["SEND1"],
  OP["RECV2"], OP["SAVE3"], OP["JMP"], 90, 0, OP["PUSH"], 0, OP["SEND3"],
  OP["HALT"] >>

AdderAdder == <<
  OP["RECV0"], OP["SAVE0"], OP["LOAD0"], OP["PUSH"], 0, OP["EQL"],
  OP["FJMP"], 18, 0, OP["RECV0"], OP["SAVE1"], OP["LOAD2"], OP["LOAD1"],
  OP["ADD"], OP["SAVE2"], OP["JMP"], 30, 0, OP["LOAD0"], OP["PUSH"], 1,
  OP["EQL"], OP["FJMP"], 30, 0, OP["LOAD2"], OP["SEND1"], OP["PUSH"], 0,
  OP["SAVE2"] >>

AdderError == <<
  OP["RECV0"], OP["SAVE0"], OP["PUSH"], 1, OP["FJMP"], 29, 0, OP["LOAD1"],
  OP["DUP"], OP["PUSH"], 1, OP["ADD"], OP["SAVE1"], OP["SEND1"], OP["RECV2"],
  OP["SAVE2"], OP["LOAD2"], OP["PUSH"], 0, OP["EQL"], OP["FJMP"], 24, 0,
  OP["HALT"], OP["LOAD2"], OP["SEND3"], OP["JMP"], 2, 0 >>

AdderPrinter == <<
  OP["RECV0"], OP["SAVE0"], OP["PUSH"], 0, OP["SAVE1"], OP["PUSH"], 32,
  OP["SEND1"], OP["LOAD0"], OP["PUSH"], 100, OP["LSS"], OP["LNOT"],
  OP["FJMP"], 34, 0, OP["LOAD0"], OP["PUSH"], 100, OP["DIV"], OP["PUSH"], 48,
  OP["ADD"], OP["SAVE2"], OP["LOAD2"], OP["SEND1"], OP["LOAD0"],
  OP["PUSH"], 100, OP["MOD"], OP["SAVE0"], OP["PUSH"], 1, OP["SAVE1"],
  OP["LOAD1"], OP["LOAD0"], OP["PUSH"], 10, OP["LSS"], OP["LNOT"], OP["LOR"],
  OP["FJMP"], 59, 0, OP["LOAD0"], OP["PUSH"], 10, OP["DIV"], OP["PUSH"], 48,
  OP["ADD"], OP["SAVE2"], OP["LOAD2"], OP["SEND1"], OP["LOAD0"],
  OP["PUSH"], 10, OP["MOD"], OP["SAVE0"], OP["LOAD0"], OP["PUSH"], 48,
  OP["ADD"], OP["SAVE2"], OP["LOAD2"], OP["SEND1"], OP["PUSH"], 10,
  OP["SEND1"], OP["PUSH"], 0, OP["SEND2"] >>

AdderType == 0 :> "IO_NODE" @@ 1 :> "PROC_NODE" @@ 2 :> "PROC_NODE" @@
             3 :> "PROC_NODE" @@ 4 :> "BUFFER_NODE" @@ 5 :> "PROC_NODE"
AdderPort ==
  1 :> (0 :> To(0, 0, "in") @@ 1 :> To(2, 0, "num") @@
        2 :> To(5, 2, "cont") @@ 3 :> To(3, 0, "err")) @@
  2 :> (0 :> To(1, 1, "num") @@ 1 :> To(5, 0, "sum")) @@
  3 :> (0 :> To(1, 3, "err") @@ 1 :> To(4, 1, "idx") @@
        2 :> To(4, 0, "elm") @@ 3 :> To(0, 2, "msg")) @@
  5 :> (0 :> To(2, 1, "sum") @@ 1 :> To(0, 1, "out") @@ 2 :> To(1, 2, "cont"))
AdderCode == 1 :> AdderReader @@ 2 :> AdderAdder @@ 3 :> AdderError @@
             5 :> AdderPrinter
Message == <<85, 115, 101, 114, 32, 105, 110, 112, 117, 116, 32, 101, 114,
               114, 111, 114, 10>>
AdderData == 4 :> Filled(Message)

(* Scanner, literals and compiler make these bytes out of the texts.       *)
ASSUME CodeIsThatOfTheTexts ==
  /\ FrontEnd!CodeOf(StoreText) = TacStore   /\ FrontEnd!CodeOf(ReportText) = TacReport
  /\ FrontEnd!CodeOf(ReaderText) = AdderReader  /\ FrontEnd!CodeOf(AdderText) = AdderAdder
  /\ FrontEnd!CodeOf(ErrorText) = AdderError /\ FrontEnd!CodeOf(PrinterText) = AdderPrinter
  /\ FrontEnd!BytesOf(MessageText) = Message

(* The decimal digits of a byte, as printer writes them after a blank.     *)
Decimal(b) ==
  (IF b >= 100 THEN <<48 + b \div 100>> ELSE << >>)
    \o (IF b >= 10 THEN <<48 + ((b \div 10) % 10)>> ELSE << >>) \o <<48 + (b % 10)>>

BLANK == 32
Digits == 48 .. 57
Sum(line) ==
  LET r == FoldLeft(LAMBDA acc, c :
             IF c = BLANK THEN [total |-> acc.total + acc.number, number |-> 0]
             ELSE [acc EXCEPT !.number = Wrap(10 * @ + c - 48)],
             [total |-> 0, number |-> 0], line)
  IN  Wrap(r.total + r.number)

(* A sum for every line of s, up to the first byte that cannot be read.    *)
Sums(s) ==
  FoldLeft(LAMBDA acc, c :
             CASE acc.bad -> acc
               [] c = NEWLINE -> [acc EXCEPT !.text = @ \o <<BLANK>> \o Decimal(Sum(acc.line))
                                                        \o <<NEWLINE>>, !.line = << >>]
               [] c \in Digits \union {BLANK} -> [acc EXCEPT !.line = Append(@, c)]
               [] OTHER -> [acc EXCEPT !.bad = TRUE],
           [text |-> << >>, line |-> << >>, bad |-> FALSE], s)

(* adder.nod prints the sum of every line, and the error message exactly   *)
(* if something else was typed; four processors, three of which wait for   *)
(* messages of the others, bring it about, and none ends the process.      *)
AdderAdds ==
  LET sums == Sums(stdin.written)
  IN  /\ exit # "error"
      /\ IsPrefix(out[IO_OUT], sums.text)
      /\ IsPrefix(out[IO_ERR], Message)
      /\ out[IO_ERR] # << >> => sums.bad
      /\ Finished => /\ out[IO_OUT] = sums.text
                     /\ sums.bad <=> out[IO_ERR] = Message

-----------------------------------------------------------------------------
(* One statement in the place of store, or of report, with a stack of two  *)
(* bytes.  It receives from a processor, or from the console, and has room *)
(* or not; sends on a port without a wire; uses io.in and io.out the wrong *)
(* way round; divides by zero; goes well.                                  *)

(* $y = 1 + (1 + (e, 1)) for an e that leaves nothing on the stack.        *)
Deep(e) == <<OP["PUSH"], 1, OP["PUSH"], 1>> \o e
             \o <<OP["PUSH"], 1, OP["ADD"], OP["ADD"], OP["SAVE1"]>>

Receiving == {
  Deep(<<OP["RECV2"], OP["SAVE2"]>>),
  <<OP["RECV2"], OP["SAVE2"], OP["LOAD0"], OP["PUSH"], 7, OP["SUB"], OP["SAVE1"]>> }

Alone == {
  <<OP["HALT"]>>, Deep(<<OP["RECV0"], OP["SAVE2"]>>),
  <<OP["PUSH"], 1, OP["SEND3"]>>, <<OP["PUSH"], 1, OP["SEND0"]>>,
  <<OP["LOAD0"], OP["PUSH"], 0, OP["DIV"], OP["SAVE1"]>>, Deep(<< >>) }

FaultyCodes ==
  {1 :> m @@ 3 :> <<OP["PUSH"], 1, OP["SEND0"]>> : m \in Receiving}
    \union {1 :> m @@ 3 :> <<OP["RECV1"], OP["SAVE2"]>> : m \in Alone}
TacAndFaulty == FaultyCodes \union {TacCode}
OnlyAdder == {AdderCode}

-----------------------------------------------------------------------------
(* All of these codes stay inside of themselves, those of the two examples *)
(* keep their balance, with room enough on the stacks, and every port of   *)
(* adder.nod is only read from or only written to.                         *)
ASSUME AllStayInside == CodesStayInside

ASSUME ExamplesAreBalanced ==
  \A code \in Codes \intersect {TacCode, AdderCode} : \A n \in Proc :
    \A heights \in {HeightsOf(Reached(code[n]))} :
      heights \in [DOMAIN heights -> 0 .. STACK_SIZE] /\ Balanced(code[n], heights)

ASSUME AdderIsOneWay == Codes = OnlyAdder => Machine!OneWay
=============================================================================
