# Noded, in TLA+

This directory specifies and verifies Noded: a language in which small
processors exchange bytes over wires (`SPEC.md`), its compiler to bytecode
(`compiler.c`), and the single-threaded virtual machine that runs the processors
as if they were concurrent (`vm.c`). The modules are translated from the C
sources; `PROJECT.json` maps every definition to the lines it stands for.

* `tlc -config MCRing.cfg MCVM.tla` checks an instance (the table under
  [Runs](#runs) pairs the `.cfg` files with their modules),
* `tlapm M.tla` checks the proofs of a module `M`: `MachineProofs`, `VMProofs`,
  `VMRefinement`, `ProcessorProofs`, `InterpProofs`, `LoaderProofs`, `TopologyProofs`
  and `ScannerProofs`.

## Inventory

| Part | State it keeps | Operations | Talks to |
|---|---|---|---|
| Processor (`tick()`, `vm.c:346-523`) | code, `isp`, stack of 512 bytes, 4 variables, 4 ports | 41 opcodes, `push`, `pop`, `peekproc` | wires and devices, through `send()`/`recv()` |
| Scheduler (`run_proc()`, `run()`, `vm.c:525-542`) | loop index, `progressed` | a turn lasts while `tick()` is true; rounds go on while one of their turns progressed | calls `tick()` |
| Wires (`send_proc()`, `recv_proc()`, `vm.c:190-228`) | `EMPTY`/`FULL`/`CONSUMED` and one byte | fill, retry, reset; consume | shared by two processors |
| Devices (`vm.c:230-329`) | buffer: 256 bytes and an index; stack node: a growing vector; io: stdin, stdout, stderr | three sendlets, three recvlets (`port_table`) | called by any number of processors |
| Loader (`noded.c`) | node and wire counts, the node rules, the `VM` under construction | a pass that counts, a pass that builds, `copy_proc_node()`, `add_wire()` | scanner, compiler, VM |
| Compiler (`compiler.c`) | bytecode, symbols, scope chain, labels, a last expression | a parselet per token, a function per statement, back-patching | scanner, error reports |
| Scanner, tokens (`scanner.c`, `token.c`) | file position, one token of lookahead | a scanlet per kind of token; `peek`, `scan`, `expect`, `zap_to` | error reports |
| Literals (`parse.c`) | none | integers, characters with escapes, strings | error reports |
| Error reports (`err.c`) | number of errors | `send_error`, `has_errors` | everybody; repositions the scanner's file |
| Dictionary (`dict.c`) | interned names | `sym_id`, `id_sym`, `clear_dict` | loader, compiler |
| Vectors, allocation (`vec.c`, `alloc.c`) | arrays | append, reserve, shrink, abort without memory | everybody |
| Disassembler (`nodedc.c`) | none | reports declarations one by one, lists bytecode | scanner, compiler |

What makes each part right, and what is hard about it:

* **Wires and scheduler.** The processors are concurrent for the programmer and
  take turns in one thread. A message takes up to three calls of `tick()` in
  different turns: the sender fills the wire and *fails*, the receiver consumes,
  the sender executes the same SEND again and passes. The sender must not pass
  for a message that is not its own or not read; what it offered must be what it
  pops; the calls that change a wire and yet return false must not be taken for
  idleness, or `run()` would end a program that can go on; and no message may
  wait for ever because other processors are busy.
* **Devices.** Unlike a wire they have no handshake and no owner: the order in
  which processors reach them is the order of turns. Console input may pause,
  and while it does, the whole interpreter waits in `getchar()`.
* **Processor.** Wrap-around of bytes and of `isp`; underflow, overflow and
  division by zero end *all* processors, in the middle of a round.
* **Compiler.** One pass, no syntax tree: the height of the stack after each
  construct, the patching of jumps and the scope chain are invariants that no
  type expresses. What is wrong with them shows hundreds of rounds later, when
  the stack overflows, or never, when the wrong branch is seldom taken.
* **Loader.** The file is read twice; the first pass sizes arrays for the
  second, and finds the end of a block by counting braces where the second one
  parses it; names resolve to what has been declared *so far*.
* **Scanner.** The longest lexeme wins, in the presence of headers, escapes and
  comments that begin like operators; a literal must fit into a token; the
  parsers call five operations in any order on one buffered token.
* **Literals.** Escapes and numbers go through `strtoul()`, which accepts more
  than the language has, and less.
* **Error reports.** Loops that consume nothing rely on the count of errors to
  end, and the count on a file that can be repositioned.
* **nodedc** goes on after an error, from whatever token recovery has stopped at.

## Modules

```
Limits ── Topology ─┬─ Wires ──────┐
   │                ├─ Devices ────┼─ VM ── VMProofs ── VMRefinement
   │                ├─ Scheduler ──┘   :  (implements)
   │                └─ Noded  ·········:   Noded
   ├─ Bytecode ─┬─ Processor ─┬─ Flow ── Interp (+ Wires, Devices, Scheduler; implements VM)
   │            │             └─ Compiled (+ Language)
   │            └─ Assembler ── Compiler ─┬─ Language
   │                                      └─ Declarations ─┬─ Blocks (+ Flow)
   │                                                       └─ Source (+ Literals)
   └─ Loader (its result is a Topology) ── LoaderProofs ── TopologyProofs

Lexer ── Literals ── Lexemes ── Scanner (implements TokenStream) ── ScannerProofs

Wires, Devices, Scheduler ── MachineProofs ─┬─ VMProofs
Flow, Assembler ── ProcessorProofs ─────────┴─ InterpProofs (+ Interp, VMRefinement)
```

| Module | Models | State and actions |
|---|---|---|
| `Limits` | sizes of bytes, ports and variables (`noded.h`) | none |
| `Topology` | what the loader leaves: node types, port tables | constants |
| `Wires` | `send_proc()`, `recv_proc()` | `wires`; an operator per branch of their `switch` |
| `Devices` | `send_io` … `recv_stack`, `port_table` | `bufs`, `stacks`, `stdin`, `out`; an operator per outcome (goes on, blocks, ends the process) |
| `Scheduler` | `run_proc()`, `run()` | `i`, `progressed`, `ticked`, `exit`; `TickTrue`, `TickFalse`, `SkipNode`, `NextRound`, `Return`, `Abort` |
| `VM` | `tick()` with the processors' computations left open | adds `instr` (the instruction at `isp`) and `top`; an action per way an instruction can go: `Offer`, `AwaitAck`, `Resume`, `Take`, `AwaitMessage`, `Read`, `Write`, … |
| `Noded` | **abstract specification**: concurrent nodes, a message passes in one step of both, the program ends when all wait (`SPEC.md`) | no wires' states, no turns |
| `Bytecode`, `Processor` | opcodes, arithmetic, `push`, `pop`, one instruction | records of code, `isp`, stack, variables |
| `Flow` | what bytecode must be for `tick()` to stay inside of it and to find on the stack what it takes: where each instruction leads, `WellFormed`, `Balanced` | operators on code |
| `Interp` | the machine of `VM` on real bytecode | `proc[n]` in place of `instr`, `top` |
| `Loader` | both passes of `main()`, the dictionary | `file`, `seekable`, `pc`, `pos`, the counts, `nodes`, `ports`, `rules`, `dict`; an action per kind of declaration and pass |
| `Lexer` | from a place in a text to the next token: the loop of `scan()`, every scanlet, comments, `token_table` | operators on a text and a place |
| `Literals` | `parse_int()`, `parse_escape()`, `parse_char()`, `parse_string()`, and `strtoul()` as they use it | operators on the text of a literal |
| `Lexemes` | **reference** for both: spellings (`token.c`), lexemes and literals as `SPEC.md` has them, where the code does not follow it too | operators on texts |
| `TokenStream` | **abstract specification**: what the parsers expect of a scanner; `Compiler` is written on it | `toks`, `given` |
| `Scanner` | `peek()`, `scan()`, `expect()`, `zap_to()` and the recovery loop of `parse_stmt()` on a file, with the peek buffer | `at`, `buffered`, `peek`, `given`, `zap`, `reported`; an action per call and per round of a loop |
| `Assembler` | what `compile()` does to the bytecode: `asm_op()` … `asm_jump2()`, `patch_addr()`, the scope chain | operators on a `Context`; no recursion, so that theorems can be about them |
| `Compiler` | `compile()` on tokens, errors counted as `send_error()` does | an operator per C function, from `Context` to `Context`; `fate` records how the compiler itself goes wrong |
| `Declarations` | the first pass of noded, and all of nodedc, on tokens | an operator per C function, from file to file |
| `Source` | the front end in one: text, tokens, literals, bytecode | none |
| `Examples` | the texts of `examples/tac.nod` and `examples/adder.nod` | none |
| `Language` | **reference semantics** of statements and expressions, with the operators of C (`SPEC.md:492`), and their text | none |
| `Compiled` | compile a program, run it on one processor | `prog`, `phase`, `proc`, `sent`, `got` |
| `Blocks` | compiler, first pass and nodedc on arbitrary texts of tokens | `text`, extended piece by piece, and what they make of it |
| `MC*` | instances for TLC | programs, topologies, files, token alphabets |

`VM` is about every program: `Program[n]` is the set of instructions processor
`n` may ever meet, and `Advance` goes to any of them with any byte on top.
`Interp` closes the gap to real code, and `ImplementsVM` (checked and proved) says that
nothing proved of `VM` is lost there. `Noded` says what a programmer may rely on,
and `ImplementsNoded` (checked and proved) that the interpreter provides it. The
sender's and the receiver's steps are one in `Noded`; the refinement mapping
`instrBar` regards a sender whose wire is `CONSUMED` as having left its SEND.
`CodeImplementsNoded` of `Interp` (checked and proved) is both in one: bytecode on the
turns of `run()` cannot be told from nodes that run side by side.

Operators whose comment begins with *Defect:* are not used by any
specification. Each is the neighbour of a definition with a plausible mistake in
it, and with it in place of the original the property listed under `mutants` in
`PROJECT.json` fails. They show that no property holds for want of a way to
break it.

## Runs

| Run | Instance | What it shows |
|---|---|---|
| `ring` (`MCRing`, `MCVM`) | 3 processors in a ring; buffer node, stack node with memory for 1 byte, unconnected port, port wired to itself, io used the wrong way round; bytes 0–1 | `TypeOK`; `QuiescentExit`: `run()` returns only if all processors are stuck; `IInv`, the inductive invariant of the proofs; `SendBlocksUntilRead`; `ImplementsNoded` |
| `relay` (`MCRelay`, `MCVM`) | 2 processors that could keep each other busy for ever, a third that relays the console | `Ends`: once all are stuck, `run()` returns; `MessagesArrive`; `EndlessTurnsAreAlone`: a turn that never ends at last uses no wire to another processor; `StuckMachinesWindDown`, `NoTurnIsMissed`, `TurnsDrainWires`: why, step by step |
| `mixed` (`MCMixed`, `MCVM`) | one wire written to from both ends | *violated:* `SendBlocksUntilRead` |
| `interp` (`MCInterp`) | `examples/tac.nod`, all inputs of up to 4 of `a`, `b`, newline; 8 programs that do whatever ends a process, on the same wires; stack of 2 bytes | `TacReverses`; `ImplementsVM`; `CodeImplementsNoded`; `TypeOK` (the stack stays in its array). Its assumptions: `CodeIsThatOfTheTexts`, scanner, literals and compiler produce the bytecode from the text; `AllStayInside`, it is `WellFormed` as the theorems assume, and so are the 8 programs |
| `adder` (`MCAdder`, `MCInterp`) | `examples/adder.nod`, all inputs of up to 4 of `9`, blank, newline, `x` | `AdderAdds`: sums or the error message, nothing lost between 4 processors; `StatementsBalance`. Its assumptions: `ExamplesAreBalanced` and `AdderIsOneWay`, the other two hypotheses of the theorems |
| `compiled` (`MCCompiled`) | 3064 programs that send or test an expression of two operators, prefixes and side effects; loops, ifs, jumps and messages within each other; a program of 251 bytes | `Compiles`, `MeansWhatItSays`, `StackIsEmpty`, `Ends`, `TypeOK` |
| `unlike_spec` (`MCUnlikeSpec`, `MCCompiled`) | one program: a comparison sent, <code>$x &#124;&#124; ++$x</code>, `x ? z : y` with z = 0, a `for` loop | *violated:* `MeansWhatItSays`. It sends 255, 7, 5, 0 and divides by zero; the language says 1, 6, 0, 0, 1 and the halt |
| `long` (`MCLong`, `MCCompiled`) | 64 assignments, 321 bytes | *violated:* `Ends` |
| `blocks` (`MCBlocks`) | every text of ≤ 5 pieces from one of six alphabets of 8 to 10: tokens of operators on values, and of messages; loops and branches; gotos, labels and branches; declarations of nodes and wires; blocks that open and close | `CodeIsBalanced`, `GotoesAreDefined`; `PassesAgree`: noded's counting pass and nodedc find the same nodes and wires in a file without errors; `NodedcEnds` |
| `loader` (`MCLoader`) | every file of ≤ 4 of 20 declarations, odd ones included, seekable or not | `CountsAgree`, `AbortsAtACopyOfIo`, `RunsOnATopology`, `WiredAsDeclared`, `TypeOK` |
| `scanner` (`MCScanner`) | texts of up to 3 to 5 pieces: comments, operators, names, numbers, quotes with escapes, errors; every order of calls | `ImplementsTokenStream`; `LongestLexeme`: tokens are the longest lexemes of `SPEC.md`, and reported exactly if they have no room in `Token.lit`; `LiteralsAreRead`: numbers, characters and strings are what `SPEC.md` says; `ReportedOnce`; `ZapArrives`: a recovery loop ends if its token is there, `ZapComesNearer`: because each round comes nearer to it; `TypeOK` |
| `literals` (`MCLiterals`, `MCScanner`) | one file: `$ %0 0b1 0o7 0x1111111 1_0 '\x+1' '\377'` and a letter that is not of ASCII | *violated:* `TokensAreDocumented`, by each of its tokens |

The two runs `unlike_spec` and `literals` each have several disagreements in one
instance: the trace shows where each of them comes out otherwise.

**Bounds.** Nothing in `VM` but a buffer's index looks at the value of a byte, so two values
(`UINT8_MAX = 1`) tell messages apart; three processors are the fewest with a
third party between a sender and its receiver, in either order of declaration.
`MaxStdin` bounds what is typed and `MaxOut` how much of the output is kept
(further output is still accepted); `MaxStack` is not only a bound: a stack node
that finds no memory ends the process, in the code too. `Interp` runs with the real
`UINT8_MAX = 255`, and with `STACK_SIZE = 512`, except that `interp` makes the
stack 2 bytes so that both overflows (a result, a received message) are
reached. Four characters are two lines of one character each, or two numbers
in one line, or an error in any place among them, so that every loop of the two programs
goes round again after it has been left with state behind it. Two operators suffice for every pair of levels
of the precedence table, in both orders. The expressions of `compiled` are those in which
the code can be as C is: their meaning is the same whether a comparison that holds, `!`,
`||` or `&&` yields 1, as in C, or 2, 3, 5, 6 or 255 (`IsOnlyTested`), and what `||` or `&&`
may leave out has no effect. Five pieces are the smallest count with an
`if`–`else` inside a loop, or `a ? b : c`. `Fuel` ends `Language`'s loops after 20
rounds and `Statements` leaves out the programs that would need more.
Four declarations are two processors with two wires at one port, or a copy with
a wire. `ERROR_MAX` is 2 instead of 10 in `blocks`, so that texts of five pieces
have too many errors, and `BUFFER_NODE_MAX` is 2 instead of 256 in `scanner`, so that the
seven-letter pieces make literals of `LITERAL_MAX = 8` characters, one less and
more, and strings of two bytes and of three. `blocks` judges `NodedcEnds` on the text with
enough semicolons and braces behind it (`Closing`) to close whatever it leaves open.
The longest operator has three characters and the longest escape sequence
four, of one to three pieces. The texts of `scanner` have letters behind `$`, no digit behind
`%`, no `0b`, `0o` or underscore in a number, no hexadecimal number of `LITERAL_MAX + 1`
characters, and in escapes no sign, no octal byte above `\277` and none of `\a`, `\b`,
`\f`, `\v`: what the code makes of these is not what `SPEC.md` says (below).

**Fairness.** `FairSpec` of `VM` is `WF_vars(Interpreter)`: one thread runs the
interpreter and the operating system keeps running it. There is no fairness for
single processors, because the code has none, and none for the console, which
may stay silent for ever. `Ends` needs nothing more. `MessagesArrive` assumes
that rounds end (`RoundsGoOn`): a processor that never blocks, or a silent
console, stops everybody, and that is a property of programs. `Compiled` has
`WF_vars(Next)`: its one processor keeps running. `Scanner` has weak fairness of
the rounds of its loops, which nothing in the code interrupts, and none of the
parsers' calls. `Blocks`, `Compiled`
run without deadlock checking because compiling and a single program end.

## Proofs

Of the virtual machine, for every number of nodes, topology, set of instructions,
console input and bounds (`TopologyAssumption`, `ProgramAssumption`, `DevicesAssumption`,
`LimitsAssumption`):

| Theorem | States |
|---|---|
| `TypeCorrect` | `Spec => []TypeOK` |
| `Invariant` | under `OneWay`, `Spec => []IInv` |
| `ExitIsQuiescent` | under `OneWay`, `Spec => []QuiescentExit` |
| `SendsAreAcknowledged` | under `OneWay`, `Spec => SendBlocksUntilRead` |
| `Refinement` | under `OneWay`, `Spec => ImplementsNoded` |
| `WindingDown` | `Spec => StuckMachinesWindDown`: processors that are stuck stay so, and every step of the interpreter counts `StepsLeft` down to the one that returns |
| `TurnsAreKept` | `Spec => NoTurnIsMissed`: rounds leave out nobody, and who can go on neither loses the chance nor ends a turn without taking it |
| `TurnsDrain` | `Spec => TurnsDrainWires`: while a turn lasts, no wire fills, and each `tick()` at a SEND or RECV drains one |

`OneWay` says that a wire which somebody reads is written to by one processor
only. `SPEC.md:186-187` demands it of programs; neither compiler nor loader
checks it, and `mixed` shows that it is needed.

`QuiescentExit` is not inductive. A round may end without progress although
`send_proc()` filled a wire in it, which makes a receiver that had its turn
earlier runnable again. That this cannot happen follows from `IInv`:

* `OffersEndATurn`: a SEND whose wire is `EMPTY` occurs only in the middle of a
  turn. A processor reaches a SEND by a `tick()` that returned true, and calls
  `tick()` again at once, so the turn that fills the wire counts as progress.
* `IdleSoFar`: while no turn of the round has progressed, the processors before
  `i` are stuck: no wire has changed since their turn.
* `MessageHasItsSender`: a wire that is not `EMPTY` belongs to a processor at a
  SEND on it, with the wire's byte on top of its stack. It makes the
  acknowledgement the sender's own (`SendsAreAcknowledged`) and gives the
  receiver's step its partner in `Noded` (`Refinement`).
* `AckHasItsReader`: a `CONSUMED` wire has a reader, so that `OneWay` applies.
* `TurnIsOpen`: only a processor is in the middle of a turn.

`VMProofs` shows these inductive action by action (`TickType`, `MessageNext`,
`AckNext`, …); `VMRefinement` maps each action to the step of `Noded` it
implements: `Take` is `Rendezvous`, `Resume` is the ready sender's `Step`,
`Return` is `Finish`, and offers, waiting and the scheduler's steps are stutters.

The last three say of liveness what a step can: `StepsLeft`, at most `2 * NNodes + 2`,
is a variant for `Ends`; an enabled exchange stays enabled until it happens, and each
processor's turn comes in at most a round (`MessagesArrive`, given that rounds end); a
turn goes on after at most two `tick()`s at each wire between two processors
(`EndlessTurnsAreAlone`). What is left to TLC is that the interpreter keeps taking
steps (`WF_vars(Interpreter)`). They need no `OneWay`. In `VMProofs` they rest on two facts:
only a processor is in the middle of a turn (`OpenNext`), and a processor that is stuck can
only be made to wait, whatever is typed (`StuckBlocks`, `ConsoleUnsticksNobody`).

The same for real bytecode, for every code of every processor, every topology and stack
size (`BytecodeAssumption`: a byte is 0–255, `StackAssumption`, `InterpAssumption` and those above):

| Theorem of `InterpProofs` | States |
|---|---|
| `TypeCorrect` | under `CodesAreWellFormed`, `Spec => []TypeOK`: `isp` stays in the code, the stack in its array, all results are bytes |
| `Balance` | under `CodesAreBalanced`, `Spec => []StatementsBalance`: the stack is empty when the code starts again, there is room for what is received, only a division by zero is a fault |
| `Refinement` | under `CodesAreWellFormed`, `Spec => ImplementsVM` |
| `CodeExitsQuiescent` | under `CodesAreWellFormed` and `OneWay`, `Spec => []QuiescentExit` |
| `CodeRefinesNoded` | under `CodesAreWellFormed` and `OneWay`, `Spec => CodeImplementsNoded` |
| `CodeTurns` | under `CodesAreWellFormed`, the three properties of turns: `StuckMachinesWindDown`, `NoTurnIsMissed`, `TurnsDrainWires` |

`BalanceIsDecided` of `ProcessorProofs` ties the hypothesis of `Balance` to what TLC
evaluates: `IsBalanced(code)` holds if and only if the heights that the abstract run
`Reached(code)` finds agree and are `Balanced`, whatever the length of the code.

`IsWellFormed(code)`: there are addresses, 0 among them, at each of which an instruction
lies wholly in the code and leads to others of them, or to the end, or no instruction
lies at all (`tick()` then ends the process). `IsBalanced(code)` adds one height of the
stack to each address, as much as its instruction needs. Both are what a compiler owes
and no C code checks. `Blocks` finds `Balanced` of whatever `compile()` accepts, up to its
bound (`CodeIsBalanced`), with the check that `BalanceIsDecided` shows to be exact; the assumptions of `MCInterp` find it of the examples. Code of
more than 255 bytes may fall out of `IsWellFormed` (`long`).

How the compiler arrives at such code is the subject of the last theorems of
`ProcessorProofs`, about `Assembler`. `Assembled(code, heights, open)`: at each address of
`heights` an instruction begins, or the code ends; the stack has that height there; every
jump leads to an address of its height, except those whose operands, at `open`, are
missing. `InLoop` is the invariant of the innermost scope: `continue` leads to an
instruction, and the breaks are open jumps that leave the stack as high as it is there.

| Theorem of `ProcessorProofs` | States |
|---|---|
| `InstructionsAreAssembled` | `AsmOp`, `AsmPush` and `AsmVar` keep both where the stack holds what the instruction takes and has room for what it gives |
| `JumpsWait`, `JumpsLeadBack`, `JumpsComeHere` | a jump forward is open; one back leads to its address; a patched one leads to the end of the code, and no other instruction changes |
| `ScopeBegins`, `BreaksWait`, `ContinuesLeadBack`, `ScopeEnds` | `InLoop` holds after `push_scope()`, is kept by `asm_break()` and `asm_continue()`, and lets `pop_scope()` close all breaks of this loop and nothing else (and leave a parent that has been freed) |
| `LoopsAreAssembled` | the end of a `while`: the code behind it has the height of its beginning |
| `AssembledIsBalanced` | code of 1 to 255 bytes without open jumps that ends at height 0 is `IsBalanced` |

They hold for code of up to `UINT16_MAX` bytes: beyond it `here()` wraps. `WhileIsBalanced`
puts them together for `while (n);`, whatever `n`. The proofs turn on `PatchedBytes`: an open operand lies
inside an instruction of three bytes, no other instruction begins in there, and hence no
patch touches an opcode or another jump.

* `Inside` is the invariant of one processor: `isp` is one of those addresses, stack
  and variables are bytes. `Level` adds the height at `isp`. `ProcessorProofs` shows, for the
  families of opcodes in turn, that `tick()` takes from the stack and gives to it
  what `Takes` and `Gives` say (`TakesAndGives`, `StacksFacts`), that every operator returns a
  byte (`BinaryIsByte`, with `BitAndBounds` for the sums of bits), and that it goes on to
  one of `Targets` (`NextIsTarget`); hence `StaysInside` and `StaysLevel`.
* `ProgramOf[n]`, which takes the place of `VM`'s `Program[n]`, consists of the
  instructions at `Starts(code)`, the addresses that an abstract run of the code gets to. That
  run stops after as many steps as there are bytes; `RunCloses` shows that it has found
  everything by then, as each step finds another address or none is left, and so
  `StartsAreWellFormed`.
* Each `tick()` is then a step of `VM` (`TickMaps`, by kind of instruction: `ComputeMaps`,
  `SendMaps`, `RecvMaps`, …) under the mapping `instrBar`, the instruction at `isp` as `VM` sees
  it (`Seen`), and `topBar`, the byte on top or 0.
* The last two theorems compose: `M` is `VMRefinement` at this mapping, so that its
  theorems apply to the machine that `Refinement` reaches (`MachineAssumptions`, `SameSpec`).

`MachineProofs` holds what both machines need of wires, devices and turns.

Of the loader, for every set of names, every file of any length, seekable or not
(`LoaderAssumption`, `LimitsAssumption`):

| Theorem | States |
|---|---|
| `PassesCountTheSame` | `Spec => []CountsAgree`: the arrays have just enough room for what is left of the file |
| `ArraysNeverFull` | `Spec => []ArraysSuffice`: once the file could be rewound, only a copy can end the process |
| `LoadsATopology` | `Spec => []RunsOnATopology`: what `run()` gets satisfies `TopologyOK` |
| `TypeCorrect` | `Spec => []TypeOK`, the dictionary's having no name twice included |
| `OnlyACopyOfIoAborts` | `Spec => []AbortsAtACopyOfIo`: and of copies, only that of the console ends the process |
| `LoadsWhatIsDeclared` | `Spec => []WiredAsDeclared`: each port leads where the last wire declared for it says |

`CountsAgree` speaks of the second pass only; `LInv` adds `CountsSoFar`, what the first
pass has counted when it stands at `pos`, so that `Rewind`, which goes from `pos` at the
end to `pos = 1`, turns what was passed into what is left (`InvRewind`). Each declaration
then moves one node or wire from `Left` to the arrays, which therefore have room
(`InvAddNode`, `InvAddWire`). `TInv` of `TopologyProofs` adds that every entry of a port
table names a node and a wire that have been added (`TablesOK`), and every rule at most
`PORT_MAX` ports (`RulesOK`), so that `find_port()` returns a port; at `Run` nothing is
left and the numbers of nodes and wires are those counted. `TopologyAssumption`, from which
the theorems on the virtual machine start, thus holds of whatever the loader runs.

`WiredAsDeclared` relates two ends that never meet: names in the file, and indices in
the port tables, with ids between them that a growing dictionary hands out.

* The dictionary: to intern names keeps the id of every name that it knew (`Grows`) and no
  name has two (`Dict`); `Interns` shows it for any number of names, by induction on it.
* `DInv` says, of the second pass at `pos`: `Named`, rule `k` has the id and the ports of
  the node that the file declares `k`-th (`IoIsFirst` for the console); `Resolved`, the ends
  of the wires that it has passed are a node and a port that exist; `Wired`, each port's
  entry is the other end of the last of these wires that has an end there.
* Nodes that are added later have later indices, so that the first rule with an id, which
  is what `find_rule()` returns, stays the same (`RuleKept`, `EndsStay`, `WiredStays`): a wire
  means for ever what it meant when it was read.

Of the scanner, for every set of files of any length and contents, and every order of
the parsers' calls (`LexerAssumption`, `EofAssumption`, `ScannerAssumption`):

| Theorem of `ScannerProofs` | States |
|---|---|
| `TypeCorrect` | `Spec => []TypeOK` |
| `ErrorsAreReportedOnce` | `Spec => []ReportedOnce`: what was counted and what is to come are the errors of the file |
| `Refinement` | `Spec => ImplementsTokenStream`: with the one buffered token, the calls are those on a stream |
| `RecoveryComesNearer` | `Spec => ZapComesNearer`: each round of a recovery loop comes one token nearer to the first that it looks for, which `zap_to()` leaves and `parse_stmt()` takes |

Every scanlet, comment and escape ends behind the place it begins at, or at the end of
the file (`TokenMoves`, from `NumberPlace`, `QuotedPlace`, `CommentPlace`, …). So the functions
that run along a text exist (`Recursion`) and unfold: `TokensFrom(f, k)` is the token at `k`
and those behind it (`TokensUnfold`), and likewise `Errors` and the stream. `SInv` says
that a token in the buffer is that of some place, behind which the file stands; every call
keeps the buffer, passes a token or leaves all as it is (`Keeps`, `Passes`, `Still`), and
each of these is a step of `TokenStream` or none. A round of a recovery loop passes the
token in front unless it is one of those sought (`PassedBy`), so that the number of tokens up to
the first of these is a variant for `ZapArrives`.

The library's induction theorems take operators as parameters, and no prover here can
instantiate those. Where a proof needs induction, it considers the least number for
which the statement fails (`LeastOf`, from `NatLessThanWellFounded` and `WFMin`).

Only model-checked are

* liveness: `Ends`, `MessagesArrive`, `EndlessTurnsAreAlone`, `ZapArrives`, which need
  fairness on top of the theorems about their steps, and `Ends` of `Compiled`;
* the example programs, `TacReverses` and `AdderAdds`: they are about these texts;
* `LongestLexeme` and `LiteralsAreRead`: they compare spellings, and a string is an atom
  for the provers;
* everything about the parsing functions and nodedc, whose operators are recursive in the
  nesting of the text (`RECURSIVE`, which the provers do not take): `Compiles`, `MeansWhatItSays`,
  `StackIsEmpty`, `CodeIsBalanced`, `GotoesAreDefined`, `PassesAgree`, `NodedcEnds`. Of these,
  `CodeIsBalanced` is what `Balance` assumes of the code; what the compiler appends and
  patches keeps it (the theorems on `Assembler`), but that each parsing function calls these
  operations at the heights they need, and resolves each goto, remains to TLC.

## Where the code disagrees with its documents

Four runs show disagreements. `mixed` (`vm.c:203`) and `long` (`noded.h:239`) show one
each, `unlike_spec` and `literals` several. `unlike_spec`:

* `compiler.c:697` `x ? y : z` is compiled as `x && y || z`, which is z when y is 0.
* `compiler.c:872` After its first iteration a `for` loop executes its post expression for
  ever (`SPEC.md:597-599`).
* `vm.c:397-433` Comparisons and `!` yield 255, `||` and `&&` an operand; `SPEC.md:492`
  promises operators "as they would in a C program", where they yield 1.
* `compiler.c:552` `||` and `&&` evaluate both operands: `$x || ++$x` increments x,
  whatever x is.

`literals`:

* `scanner.c:225` The letter of `0o` and `0x` is not counted, so that such a number may
  be one longer than `LITERAL_MAX` without being reported, and ends, with its 0, behind
  `Token.lit` (`scanner.c:187-190`).
* `parse.c:17` The scanner takes `0b11` and `0o17` for numbers (`SPEC.md:91-93`),
  and `strtoul()` then refuses them. `scanner.c:245` knows no underscore (`SPEC.md:95`).
* `parse.c:68`, `parse.c:91` `strtoul()` takes a sign or space in place of the first
  digit of `\x+1`; of octal escapes only `\000` to `\277` are known.
* `scanner.c:325` `$` alone is a variable and `%0` a port, `SPEC.md:352` and `414` want
  a letter. Bytes above 127 are letters (`SPEC.md:30`).

The models have the following ones too, each found with TLC while modelling and seen with
the program itself. No passing run judges the code by what it says there, or its
instance does not contain the case.

* `vm.c:525-530` A turn has no limit: with two processors that never block,
  the second never executes an instruction (`SPEC.md:649-650`).
* `vm.c:335` A SEND or RECV on a port without a wire follows a NULL pointer;
  `SPEC.md:188-189` demands that ports are connected, nobody checks. `VM`'s and
  `Interp`'s `Crash` include it. A processor without code fails the same way.
* `compiler.c:371` `pop_scope()` frees the parent it has just restored, so that
  a loop inside a loop makes the compiler use freed memory (fate
  `"undefined"`).
* `compiler.c:925` `parse_do_stmt()` pops its scope before it uses it: a `do`
  outside another loop crashes the compiler (fate `"crash"`).
* `compiler.c:451` The operand of a prefix operator never includes a suffix:
  `-$x++` is refused (`SPEC.md:487-488`).
* `compiler.c:390` A new label keeps the `defined` flag that its memory had: a
  goto without a label may be accepted. `StaleLabels` of `Blocks` holds that
  memory; `GotoesAreDefined` is checked, and true, for cleared memory.
* `compiler.c:1009`, `scanner.c:552` Error recovery scans for ever when the file
  ends before the token it looks for (fate `"hang"`).
* `noded.h:239` `CodeBlock.size` is a `uint8_t`: `CodeEnd` wraps, and nodedc lists
  only the instructions below it, too (`disasm`).
* `noded.c:158` A processor cannot be copied from a later one (`SPEC.md:212`).
* `err.c:97` An error report returns uncounted when the file cannot be
  repositioned: on a pipe, `CountGarbageForEver` of `Loader` and the fate
  `"hang"` of `nodedc` (for `File(toks, FALSE)`) go on for ever.
* `parse.c:35-125` Of the escape sequences of `SPEC.md:125`, `\a`, `\b`, `\f` and `\v` are
  not known; `\'`, which `SPEC.md` has in an example only, and `\"` are.
* `scanner.c:145` `/*/` is a whole comment. `SPEC.md:57-60`, the nearest asterisk slash, may
  be read that way, and `Lexemes` does.
* `token.c:12` The reserved words are not those of `SPEC.md:64-73`: `case`, `default`, `go` and
  `switch` are names, `do` and `stack` are not. `Lexemes` takes the words from `token.c`.
* `vm.c:181` A port can have two wires, against `SPEC.md:186-189`; the later one holds.
  `WiredAsDeclared` says what becomes of such files, not that they should be refused.

## Not modelled

Hazards that no property covers, with the reason in `PROJECT.json`: a silent console
(`vm.c:260`), the scopes of nested loops (`compiler.c:371`), labels in memory that is not
cleared (`compiler.c:390`), a buffer copied as a processor (`vm.c:137`), recovery from an
error when the token it looks for is missing (`scanner.c:552`), errors in a file that
cannot be repositioned (`err.c:97`). In these cases the code goes wrong, or can, as
described above; the properties of the runs are about the others.

Lines, columns and the wording of error messages, and the excerpt that `send_error()`
prints (read only: it searches for its line for ever if a NUL comes before);
bytes above 127 as such (one stands for all), and NULs and vertical tabs in a text; `clear_dict()`;
names of variables and labels in the dictionary that `Loader` keeps (`Compiler` compares
names, as their ids are compared); how vectors grow, and memory exhaustion other
than a stack node's. A copy of a buffer or
stack node as a processor (`vm.c:137`) is loaded and marked `undefined`, but what
running it does is not explored. What the bytes beyond the end of the code hold
is undefined; an invalid opcode stands for them.

## Plan

1. *Done:* `VM` and its parts, `Noded`, the type invariant, `IInv` and the
   refinement; `Interp`; `Loader`; `Compiler` with `Language` and `Blocks`;
   `Lexer`, `Literals` and `Scanner` against `Lexemes` and `TokenStream`; nodedc; the
   count of errors; programs of more than 255 bytes; the front end from the texts
   of the examples to the bytecode that `Interp` runs.
2. *Proved:* the virtual machine, its refinement of `Noded` and the steps that its liveness
   rests on; the bytecode interpreter, its types, its balance and its refinement of `VM`, and through it of `Noded`; the
   loader from the counts to the wiring; the scanner and its refinement of `TokenStream`; the
   compiler's assembling of bytecode, and that what is assembled keeps its balance.
3. *Left:* the labels of gotos, whose jumps may lead to a height that is not theirs; that a file's ports and its code's SENDs
   together give `OneWay`, from the declarations alone.
