------------------------------ MODULE Compiled ------------------------------
(***************************************************************************)
(* The compiler and the virtual machine together against the language: one *)
(* of a set of programs is compiled, and a processor by itself runs the    *)
(* bytecode.  Its messages are noted, and answered at once.                *)
(***************************************************************************)
EXTENDS Language, Processor

CONSTANT Programs       \* statements of Language

VARIABLES
  prog,       \* the program
  phase,      \* running, halted, fault, or what the compiler came to:
              \* rejected, exit, crash, undefined, hang
  symbols,    \* the names of its ports and variables
  proc,
  sent,       \* what was sent, with the port's name
  got         \* how many messages were received

vars == <<prog, phase, symbols, proc, sent, got>>

(* The program is compiled, and run if the compiler accepts it.            *)
Init ==
  /\ prog \in Programs
  /\ \E c \in {compile(File(ProgramText(prog), TRUE), << >>)} :
       /\ phase = IF Accepted(c) THEN "running"
                  ELSE IF c.fate = "ok" THEN "rejected" ELSE c.fate
       /\ symbols = [ports |-> c.ports, vars |-> c.vars]
       /\ proc = NewProcessor(c.code)
  /\ sent = << >>
  /\ got = 0

Running == phase = "running"

Compute ==
  /\ Running
  /\ IsLocal(Op(proc))
  /\ proc' \in LocalSteps(proc)
  /\ UNCHANGED <<prog, phase, symbols, sent, got>>

PortName == symbols.ports[PortAt(proc) + 1]

Deliver ==
  /\ Running
  /\ IsSend(proc)
  /\ sent' = Append(sent, <<PortName, Top(proc)>>)
  /\ proc' = AfterSend(proc)
  /\ UNCHANGED <<prog, phase, symbols, got>>

Receive ==
  /\ Running
  /\ IsRecv(proc)
  /\ got' = got + 1
  /\ proc' \in AfterRecv(proc, Message(got))
  /\ UNCHANGED <<prog, phase, symbols, sent>>

Stop ==
  /\ Running
  /\ \/ Op(proc) = OP["HALT"] /\ phase' = "halted"
     \/ Faults(proc) /\ phase' = "fault"
  /\ UNCHANGED <<prog, symbols, proc, sent, got>>

Next == Compute \/ Deliver \/ Receive \/ Stop

Spec     == Init /\ [][Next]_vars
FairSpec == Spec /\ WF_vars(Next)

-----------------------------------------------------------------------------
Stopped == phase \in {"halted", "fault"}

TypeOK ==
  /\ phase \in {"running", "halted", "fault", "rejected", "exit", "crash", "undefined", "hang"}
  /\ proc.isp \in 0 .. Len(proc.code)
  /\ proc.stack \in Seq(Byte)
  /\ proc.vars \in [VarIdx -> Byte]
  /\ got \in Nat

(* The compiler takes each of the programs, all of which the grammar       *)
(* allows: it neither rejects it nor goes wrong.                           *)
Compiles == phase \notin {"rejected", "exit", "crash", "undefined", "hang"}

(* What a program leaves in its variables, what it has sent and received   *)
(* when it halts, or divides by zero, is what SPEC.md says: "All operators *)
(* shown behave as they would in a C program", a for statement "returns    *)
(* back to checking the conditional".                                      *)
MeansWhatItSays ==
  Stopped =>
    \A m \in {Meaning(prog)} :
      /\ m.flow = IF phase = "halted" THEN "HALT" ELSE "fault"
      /\ sent = m.sent
      /\ got = m.got
      /\ \A k \in DOMAIN symbols.vars : proc.vars[k - 1] = m.vars[symbols.vars[k]]

(* A program that halts has left nothing on the stack: its statements      *)
(* could have gone on for ever.                                            *)
StackIsEmpty == phase = "halted" => proc.stack = << >>

(* A program ends; every one of the programs that are run should.          *)
Ends == <>Stopped
=============================================================================
