--------------------------------- MODULE VM ---------------------------------
(***************************************************************************)
(* The virtual machine: tick() on the processor nodes of any program,      *)
(* their wires and the devices, under the scheduler of run().              *)
(*                                                                         *)
(* What a processor computes is left open: of its code, variables and      *)
(* stack only the instruction at isp and the byte on top of the stack are  *)
(* kept, and the next instruction is any member of Program[n].  Whatever   *)
(* holds here holds of every program whose instructions are among          *)
(* Program[n] (module Interp is the same machine with real bytecode, and   *)
(* implements this one).  Fault stands for an instruction that ends the    *)
(* process: an underflow, an overflow, a division by zero, an invalid      *)
(* opcode.                                                                 *)
(***************************************************************************)
EXTENDS Wires, Devices, Scheduler

CONSTANT Program        \* Program[n]: what may be found at isp of processor n

VARIABLES
  instr,        \* instr[n]: the instruction at isp of processor n
  top           \* top[n]: the byte that peekproc() would return

procVars == <<instr, top>>
vars == <<instr, top, wires, devVars, schedVars>>

Local   == [op |-> "local", port |-> 0]
Halt    == [op |-> "halt",  port |-> 0]
Fault   == [op |-> "fault", port |-> 0]
Send(p) == [op |-> "send",  port |-> p]
Recv(p) == [op |-> "recv",  port |-> p]

Instr == {Local, Halt, Fault} \union {Send(p) : p \in PortIdx}
                              \union {Recv(p) : p \in PortIdx}

ASSUME ProgramAssumption == \A n \in Proc : Program[n] \subseteq Instr

(* Processor n is at an instruction that sends to, or receives from, a     *)
(* processor over wire w, or a device.                                     *)
At(n, op)          == instr[n].op = op
Connected(n)       == Wired(n, instr[n].port)
PeerIsProc(n)      == Connected(n) /\ PeerType(n, instr[n].port) = "PROC_NODE"
PeerIsDevice(n)    == Connected(n) /\ PeerType(n, instr[n].port) # "PROC_NODE"
TheWire(n)         == WireOf(n, instr[n].port)
Peer(n)            == Port[n][instr[n].port].recp
PeerPort(n)        == Port[n][instr[n].port].recp_port

SendsOn(n, w) == At(n, "send") /\ PeerIsProc(n) /\ TheWire(n) = w
RecvsOn(n, w) == At(n, "recv") /\ PeerIsProc(n) /\ TheWire(n) = w

-----------------------------------------------------------------------------
(* add_proc_node() leaves the stack empty, so a program that begins with a *)
(* SEND begins with an underflow, and so does one without any code.        *)
Init ==
  /\ instr \in [Proc -> Instr]
  /\ \A n \in Proc :
       instr[n] \in {c \in Program[n] : c.op # "send"} \union {Fault}
  /\ top = [n \in Proc |-> 0]
  /\ WiresInit /\ DevicesInit /\ SchedulerInit

(* The three ways tick() ends: true, with isp on a next instruction and    *)
(* one of the bytes V on top of the stack; false, with isp where it was;   *)
(* or with the process.                                                    *)
Advance(n, V) ==
  /\ \E c \in Program[n] : instr' = [instr EXCEPT ![n] = c]
  /\ \E v \in V : top' = [top EXCEPT ![n] = v]
  /\ TickTrue

Block == UNCHANGED procVars /\ TickFalse

Fail == UNCHANGED procVars /\ Abort

(* push() of what was received: dat is on top, or there was no room.       *)
PushReceived(n, dat) ==
  \/ Advance(n, {dat})
  \/ Fault \in Program[n] /\ Fail

-----------------------------------------------------------------------------
(* The instructions that stay inside the processor.                        *)

Compute(n) ==
  /\ Turn(n) /\ At(n, "local")
  /\ Advance(n, Byte)
  /\ UNCHANGED <<wires, devVars>>

HaltHere(n) ==
  /\ Turn(n) /\ At(n, "halt")
  /\ Block
  /\ UNCHANGED <<wires, devVars>>

(* An instruction that cannot be executed; send() and recv() on a port     *)
(* that no wire was added to dereference its NULL recp.                    *)
Crash(n) ==
  /\ Turn(n)
  /\ At(n, "fault") \/ (instr[n].op \in {"send", "recv"} /\ ~Connected(n))
  /\ Fail
  /\ UNCHANGED <<wires, devVars>>

(* OP_SEND to another processor: send_proc(), then pop() if it was true.   *)

Offer(n) ==
  /\ Turn(n) /\ At(n, "send") /\ PeerIsProc(n)
  /\ FillWire(TheWire(n), top[n])
  /\ Block
  /\ UNCHANGED devVars

AwaitAck(n) ==
  /\ Turn(n) /\ At(n, "send") /\ PeerIsProc(n)
  /\ StillFull(TheWire(n))
  /\ Block
  /\ UNCHANGED devVars

Resume(n) ==
  /\ Turn(n) /\ At(n, "send") /\ PeerIsProc(n)
  /\ ResetWire(TheWire(n))
  /\ Advance(n, Byte)
  /\ UNCHANGED devVars

(* OP_RECV from another processor: recv_proc(), then push() if it was true *)

Take(n) ==
  /\ Turn(n) /\ At(n, "recv") /\ PeerIsProc(n)
  /\ ConsumeWire(TheWire(n), wires[TheWire(n)].buf)
  /\ PushReceived(n, wires[TheWire(n)].buf)
  /\ UNCHANGED devVars

AwaitMessage(n) ==
  /\ Turn(n) /\ At(n, "recv") /\ PeerIsProc(n)
  /\ NothingToRead(TheWire(n))
  /\ Block
  /\ UNCHANGED devVars

(* OP_SEND and OP_RECV with a device at the other end.                     *)

Write(n) ==
  /\ Turn(n) /\ At(n, "send") /\ PeerIsDevice(n)
  /\ \/ SendDevice(Peer(n), PeerPort(n), top[n]) /\ Advance(n, Byte)
     \/ SendDeviceFails(Peer(n), PeerPort(n)) /\ Fail /\ UNCHANGED devVars
  /\ UNCHANGED wires

Read(n) ==
  /\ Turn(n) /\ At(n, "recv") /\ PeerIsDevice(n)
  /\ \/ \E dat \in Byte :
          RecvDevice(Peer(n), PeerPort(n), dat) /\ PushReceived(n, dat)
     \/ RecvDeviceFails(Peer(n), PeerPort(n)) /\ Fail /\ UNCHANGED devVars
  /\ UNCHANGED wires

AwaitDevice(n) ==
  /\ Turn(n) /\ At(n, "recv") /\ PeerIsDevice(n)
  /\ RecvDeviceBlocks(Peer(n), PeerPort(n))
  /\ Block
  /\ UNCHANGED <<wires, devVars>>

tick(n) ==
  \/ Compute(n) \/ HaltHere(n) \/ Crash(n)
  \/ Offer(n) \/ AwaitAck(n) \/ Resume(n)
  \/ Take(n) \/ AwaitMessage(n)
  \/ Write(n) \/ Read(n) \/ AwaitDevice(n)

-----------------------------------------------------------------------------
(* The interpreter, and the program at the other end of stdin.             *)

run ==
  /\ SkipNode \/ NextRound \/ Return
  /\ UNCHANGED <<procVars, wires, devVars>>

Interpreter == run \/ \E n \in Proc : tick(n)

Console ==
  /\ exit = "running"
  /\ WriteStdin \/ CloseStdin
  /\ UNCHANGED <<procVars, wires, schedVars>>

(* The process is gone.                                                    *)
Exited == exit # "running" /\ UNCHANGED vars

Next == Interpreter \/ Console \/ Exited

Spec == Init /\ [][Next]_vars

(* One thread executes the interpreter and the system keeps running it;    *)
(* nothing is assumed of the console.                                      *)
FairSpec == Spec /\ WF_vars(Interpreter)

-----------------------------------------------------------------------------
(* The state of every part is well formed.                                 *)
ProcType ==
  /\ instr \in [Proc -> Instr]
  /\ \A n \in Proc : instr[n] \in Program[n] \union {Fault}
  /\ top \in [Proc -> Byte]

TypeOK == ProcType /\ WiresType /\ DevicesType /\ SchedulerType

(* A wire that some processor reads carries the messages of one processor: *)
(* so it is when a port is only read from or only written to, and joined   *)
(* to one wire, as SPEC.md demands.  Neither the compiler nor the loader   *)
(* checks it.                                                              *)
MayUse(n, w, c) ==
  c.port \in DOMAIN Port[n] /\ c \in Program[n]
    /\ PeerType(n, c.port) = "PROC_NODE" /\ WireOf(n, c.port) = w

MaySendOn(n, w) == \E p \in PortIdx : MayUse(n, w, Send(p))
MayRecvOn(n, w) == \E p \in PortIdx : MayUse(n, w, Recv(p))

OneWay ==
  \A w \in Wire : (\E r \in Proc : MayRecvOn(r, w)) =>
    \A m, n \in Proc : MaySendOn(m, w) /\ MaySendOn(n, w) => m = n

(* Processor n cannot take a step until another one does.                  *)
Stuck(n) ==
  \/ At(n, "halt")
  \/ At(n, "send") /\ PeerIsProc(n) /\ Status(TheWire(n)) = "FULL"
  \/ At(n, "recv") /\ PeerIsProc(n) /\ Status(TheWire(n)) # "FULL"
  \/ At(n, "recv") /\ PeerIsDevice(n) /\ RecvDeviceBlocks(Peer(n), PeerPort(n))

AllStuck == \A n \in Proc : Stuck(n)

(* run() returns only when no processor could ever take another step: the  *)
(* do-while loop of vm.c:535-541 stops on a round without progress, and    *)
(* such a round may well contain calls that changed a wire.                *)
QuiescentExit == exit = "done" => AllStuck

(* A message on a wire is the one its sender is still holding: the byte    *)
(* that send_proc() copied is the top of the stack of the one processor    *)
(* that waits at a SEND on that wire, until it sees the acknowledgement.   *)
MessageHasItsSender ==
  \A w \in Wire : Status(w) # "EMPTY" =>
    \E n \in Proc : SendsOn(n, w) /\ top[n] = wires[w].buf

(* Only a processor that receives acknowledges.                            *)
AckHasItsReader ==
  \A w \in Wire : Status(w) = "CONSUMED" => \E r \in Proc : MayRecvOn(r, w)

(* A sender whose wire is empty is in the middle of its turn: no turn ever *)
(* begins with the call of send_proc() that fills the wire, so that call   *)
(* may return false without run() missing the progress it made.            *)
OffersEndATurn ==
  \A n \in Proc : \A w \in Wire :
    SendsOn(n, w) /\ Status(w) = "EMPTY" => i = n /\ ticked

(* While no turn of the round has progressed, the processors that had      *)
(* theirs are stuck.                                                       *)
IdleSoFar ==
  ~progressed /\ ~ticked => \A n \in Proc : n < i => Stuck(n)

TurnIsOpen == ticked => i \in Proc

IInv ==
  /\ TypeOK
  /\ MessageHasItsSender
  /\ AckHasItsReader
  /\ OffersEndATurn
  /\ exit # "error" => IdleSoFar
  /\ TurnIsOpen
  /\ QuiescentExit

(* A processor leaves a SEND to another processor only when the message it *)
(* holds has been received: the wire is CONSUMED and its byte is the one   *)
(* the SEND offered ("Execution blocks until the send is processed").      *)
SendWaitsForItsReader ==
  \A n \in Proc :
    At(n, "send") /\ PeerIsProc(n) /\ <<instr'[n], top'[n]>> # <<instr[n], top[n]>>
      => /\ Status(TheWire(n)) = "CONSUMED"
         /\ wires[TheWire(n)].buf = top[n]

SendBlocksUntilRead == [][SendWaitsForItsReader]_vars

-----------------------------------------------------------------------------
(* Liveness.                                                               *)

(* When no processor can take another step, run() notices and returns.     *)
Ends == AllStuck ~> exit # "running"

(* It takes two rounds at most: processors that are stuck stay stuck,      *)
(* whatever is typed, and every step of the interpreter is one of those    *)
(* that are left of this round and, if a turn of it has progressed, of     *)
(* another one.                                                            *)
StepsLeft == 1 + (NNodes - i) + (IF progressed \/ ticked THEN NNodes + 1 ELSE 0)

WindsDown ==
  AllStuck /\ exit = "running" =>
    /\ AllStuck'
    /\ \/ UNCHANGED <<procVars, wires, schedVars>>
       \/ exit' = "running" /\ StepsLeft' = StepsLeft - 1
       \/ exit' = "done" /\ StepsLeft = 1

StuckMachinesWindDown == [][WindsDown]_vars

(* Every round ends: no processor keeps its turn for ever, and none waits  *)
(* for ever in getchar().  Programs decide that, not the interpreter.      *)
RoundsGoOn == []<>(i = NNodes \/ exit # "running")

(* Then a message with a receiver waiting for it is received, and a sender *)
(* whose message was received leaves its SEND: run() starves neither.      *)
Delivery ==
  \A n \in Proc : \A w \in Wire :
    /\ RecvsOn(n, w) /\ Status(w) = "FULL" ~> Status(w) # "FULL" \/ exit # "running"
    /\ SendsOn(n, w) /\ Status(w) = "CONSUMED" ~> Status(w) # "CONSUMED" \/ exit # "running"

MessagesArrive == RoundsGoOn => Delivery

(* It does so because run() leaves out no processor on its way to the end  *)
(* of a round, and because one that a wire no longer keeps from going on   *)
(* neither loses that chance to anything but the wire's next state, nor    *)
(* ends its turn without taking it.                                        *)
CanGoOn(n, w) ==
  \/ RecvsOn(n, w) /\ Status(w) = "FULL"
  \/ SendsOn(n, w) /\ Status(w) = "CONSUMED"

KeepsTurns ==
  /\ i' \in {i, i + 1} \/ (i = NNodes /\ i' = 0)
  /\ \A n \in Proc : \A w \in Wire :
       CanGoOn(n, w) /\ exit' = "running" =>
         \/ CanGoOn(n, w)' /\ (i = n => i' = n)
         \/ Status(w)' # Status(w)

NoTurnIsMissed == [][KeepsTurns]_vars

(* A turn has no limit, and while it lasts no other processor moves.  One  *)
(* that lasts for ever never again touches a wire to another processor:    *)
(* every such wire stops it after one message.                             *)
TurnLastsForEver(n) == <>[](exit = "running" /\ i = n)

EndlessTurnsAreAlone ==
  \A n \in Proc : TurnLastsForEver(n) =>
    <>[]~(instr[n].op \in {"send", "recv"} /\ PeerIsProc(n))

(* For it uses up what the wires held when it began: while a turn goes on, *)
(* no wire comes nearer to being full, and a tick() at a SEND or a RECV    *)
(* takes the wire, which it can do twice at most, one step towards empty.  *)
Charge(w) ==
  CASE Status(w) = "FULL" -> 2 [] Status(w) = "CONSUMED" -> 1 [] Status(w) = "EMPTY" -> 0

DrainsWires ==
  \A n \in Proc : Turn(n) /\ Turn(n)' =>
    \A w \in Wire :
      /\ Charge(w)' <= Charge(w)
      /\ SendsOn(n, w) \/ RecvsOn(n, w) =>
           \/ UNCHANGED <<procVars, wires, schedVars>>
           \/ Charge(w)' = Charge(w) - 1

TurnsDrainWires == [][DrainsWires]_vars

-----------------------------------------------------------------------------
(* The abstract machine of module Noded: a processor whose message was     *)
(* received has left its SEND already, whether or not it knows.            *)
HasLeft(n) == At(n, "send") /\ PeerIsProc(n) /\ Status(TheWire(n)) = "CONSUMED"

instrBar == [n \in Proc |-> IF HasLeft(n) THEN [op |-> "ready", port |-> 0]
                            ELSE instr[n]]

Abstract == INSTANCE Noded WITH instr <- instrBar

(* The interpreter implements the concurrent nodes of SPEC.md.             *)
ImplementsNoded == Abstract!Spec
=============================================================================
