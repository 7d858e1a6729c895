------------------------------- MODULE Interp -------------------------------
(***************************************************************************)
(* The virtual machine on real bytecode: what module VM leaves open of a   *)
(* processor, its code, isp, variables and stack, is here as in tick().    *)
(***************************************************************************)
EXTENDS Wires, Devices, Scheduler, Flow

CONSTANT Codes          \* sets of bytecode: code[n] is that of processor n

VARIABLE proc           \* proc[n]: the struct ProcNode of processor n

vars == <<proc, wires, devVars, schedVars>>

ASSUME InterpAssumption == \A code \in Codes : code \in [Proc -> Seq(Byte)]

Init ==
  /\ \E code \in Codes : proc = [n \in Proc |-> NewProcessor(code[n])]
  /\ WiresInit /\ DevicesInit /\ SchedulerInit

Connected(n)    == Wired(n, PortAt(proc[n]))
PeerIsProc(n)   == Connected(n) /\ PeerType(n, PortAt(proc[n])) = "PROC_NODE"
PeerIsDevice(n) == Connected(n) /\ PeerType(n, PortAt(proc[n])) # "PROC_NODE"
TheWire(n)      == WireOf(n, PortAt(proc[n]))
Peer(n)         == Port[n][PortAt(proc[n])].recp
PeerPort(n)     == Port[n][PortAt(proc[n])].recp_port

-----------------------------------------------------------------------------
Advance(n, next) == proc' = [proc EXCEPT ![n] = next] /\ TickTrue
Block            == UNCHANGED proc /\ TickFalse
Fail             == UNCHANGED proc /\ Abort

Compute(n) ==
  /\ Turn(n) /\ IsLocal(Op(proc[n]))
  /\ \E next \in LocalSteps(proc[n]) : Advance(n, next)
  /\ UNCHANGED <<wires, devVars>>

HaltHere(n) ==
  /\ Turn(n) /\ Op(proc[n]) = OP["HALT"]
  /\ Block
  /\ UNCHANGED <<wires, devVars>>

Crash(n) ==
  /\ Turn(n)
  /\ \/ Faults(proc[n])
     \/ (IsSend(proc[n]) \/ IsRecv(proc[n])) /\ ~Connected(n)
  /\ Fail
  /\ UNCHANGED <<wires, devVars>>

(* push() of what was received: there is room for it, or the process ends. *)
Received(n, dat) ==
  \/ \E next \in AfterRecv(proc[n], dat) : Advance(n, next)
  \/ AfterRecv(proc[n], dat) = {} /\ Fail

(* Defect: OP_SEND gives up the turn when it sees the acknowledgement.     *)
SendEndsTurn(n) ==
  /\ Turn(n) /\ IsSend(proc[n]) /\ PeerIsProc(n)
  /\ \/ FillWire(TheWire(n), Top(proc[n])) /\ Block
     \/ StillFull(TheWire(n)) /\ Block
     \/ ResetWire(TheWire(n)) /\ TickFalse /\ proc' = [proc EXCEPT ![n] = AfterSend(@)]
  /\ UNCHANGED devVars

Send(n) ==
  /\ Turn(n) /\ IsSend(proc[n]) /\ PeerIsProc(n)
  /\ \/ FillWire(TheWire(n), Top(proc[n])) /\ Block
     \/ StillFull(TheWire(n)) /\ Block
     \/ ResetWire(TheWire(n)) /\ Advance(n, AfterSend(proc[n]))
  /\ UNCHANGED devVars

(* Defect: OP_RECV goes on with the byte of a wire that nobody has filled. *)
RecvLeavesMessage(n) ==
  /\ Turn(n) /\ IsRecv(proc[n]) /\ PeerIsProc(n)
  /\ \/ /\ ConsumeWire(TheWire(n), wires[TheWire(n)].buf)
        /\ Received(n, wires[TheWire(n)].buf)
     \/ NothingToRead(TheWire(n)) /\ Received(n, wires[TheWire(n)].buf)
  /\ UNCHANGED devVars

Recv(n) ==
  /\ Turn(n) /\ IsRecv(proc[n]) /\ PeerIsProc(n)
  /\ \/ /\ ConsumeWire(TheWire(n), wires[TheWire(n)].buf)
        /\ Received(n, wires[TheWire(n)].buf)
     \/ NothingToRead(TheWire(n)) /\ Block
  /\ UNCHANGED devVars

Write(n) ==
  /\ Turn(n) /\ IsSend(proc[n]) /\ PeerIsDevice(n)
  /\ \/ /\ SendDevice(Peer(n), PeerPort(n), Top(proc[n]))
        /\ Advance(n, AfterSend(proc[n]))
     \/ SendDeviceFails(Peer(n), PeerPort(n)) /\ Fail /\ UNCHANGED devVars
  /\ UNCHANGED wires

Read(n) ==
  /\ Turn(n) /\ IsRecv(proc[n]) /\ PeerIsDevice(n)
  /\ \/ \E dat \in Byte :
          RecvDevice(Peer(n), PeerPort(n), dat) /\ Received(n, dat)
     \/ RecvDeviceBlocks(Peer(n), PeerPort(n)) /\ Block /\ UNCHANGED devVars
     \/ RecvDeviceFails(Peer(n), PeerPort(n)) /\ Fail /\ UNCHANGED devVars
  /\ UNCHANGED wires

tick(n) ==
  \/ Compute(n) \/ HaltHere(n) \/ Crash(n)
  \/ Send(n) \/ Recv(n) \/ Write(n) \/ Read(n)

-----------------------------------------------------------------------------
run ==
  /\ SkipNode \/ NextRound \/ Return
  /\ UNCHANGED <<proc, wires, devVars>>

Interpreter == run \/ \E n \in Proc : tick(n)

Console ==
  /\ exit = "running"
  /\ WriteStdin \/ CloseStdin
  /\ UNCHANGED <<proc, wires, schedVars>>

Exited == exit # "running" /\ UNCHANGED vars

Next == Interpreter \/ Console \/ Exited

Spec == Init /\ [][Next]_vars

-----------------------------------------------------------------------------
(* The machine of module VM: the instruction at isp as far as wires and    *)
(* devices can tell, and the byte on top of the stack.                     *)
Instruction(op, port) == [op |-> op, port |-> port]

Seen(p) ==
  CASE Faults(p)        -> Instruction("fault", 0)
    [] IsRecv(p)        -> Instruction("recv", PortAt(p))
    [] IsSend(p)        -> Instruction("send", PortAt(p))
    [] IsLocal(Op(p)) /\ ~Faults(p) -> Instruction("local", 0)
    [] Op(p) = OP["HALT"] -> Instruction("halt", 0)

instrBar == [n \in Proc |-> Seen(proc[n])]
topBar   == [n \in Proc |-> IF Height(proc[n]) = 0 THEN 0 ELSE Top(proc[n])]

(* Wherever isp may get to begins an instruction that is whole, or nothing *)
(* that could be one.                                                      *)
CodesStayInside ==
  \A code \in Codes : \A n \in Proc : WellFormed(code[n], Starts(code[n]))

(* The ports that the code of n names where isp may get to.                *)
UsedPorts(n, first) ==
  {k \in PortIdx : \E code \in Codes :
     \E a \in Starts(code[n]) \ {Len(code[n])} : code[n][a + 1] = OP[first] + k}

ProgramOf == [n \in Proc |->
  {Instruction(op, 0) : op \in {"local", "halt", "fault"}}
    \union {Instruction("send", k) : k \in UsedPorts(n, "SEND0")}
    \union {Instruction("recv", k) : k \in UsedPorts(n, "RECV0")}]

Machine == INSTANCE VM WITH instr <- instrBar, top <- topBar, Program <- ProgramOf

(* The bytecode interpreter implements the machine of any program.         *)
ImplementsVM == Machine!Spec

(* And the nodes of SPEC.md, as far as that machine does.                  *)
CodeImplementsNoded == Machine!ImplementsNoded

(* isp stays inside the code, the stack inside its array, and every cell   *)
(* holds a byte.                                                           *)
TypeOK ==
  /\ [n \in Proc |-> proc[n].code] \in Codes
  /\ \A n \in Proc :
       /\ proc[n].isp \in 0 .. Len(proc[n].code)
       /\ proc[n].stack \in Seq(Byte) /\ Height(proc[n]) <= STACK_SIZE
       /\ proc[n].vars \in [VarIdx -> Byte]
  /\ WiresType /\ DevicesType /\ SchedulerType

(* Every time a processor is back at the beginning of its code, its stack  *)
(* is empty: the statements that the compiler emits pop what they push,    *)
(* on every path, so no number of rounds reaches the overflow of push().   *)
(* Nothing that a processor comes to ends the process by itself, unless it *)
(* divides by zero, and there is room for whatever it receives.            *)
StatementsBalance ==
  \A n \in Proc :
    LET p == proc[n]
    IN  /\ p.isp = 0 => p.stack = << >>
        /\ Faults(p) => Op(p) \in {OP["DIV"], OP["MOD"]} /\ Top(p) = 0
        /\ IsRecv(p) => Height(p) < STACK_SIZE
=============================================================================
