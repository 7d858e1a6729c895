---------------------------- MODULE InterpProofs ----------------------------
(***************************************************************************)
(* Proofs about module Interp: the virtual machine on real bytecode, for   *)
(* every bytecode that is well formed, or balanced, every topology and     *)
(* every bound.                                                            *)
(***************************************************************************)
EXTENDS Interp, MachineProofs, ProcessorProofs

(* What is assumed of the code: that it stays inside of itself, as far as  *)
(* its instructions are valid; or that it keeps its balance too, which is  *)
(* what module Blocks finds of all that compile() accepts.                 *)
CodesAreWellFormed == \A code \in Codes : \A n \in Proc : IsWellFormed(code[n])
CodesAreBalanced   == \A code \in Codes : \A n \in Proc : IsBalanced(code[n])

-----------------------------------------------------------------------------
(* The inductive invariants.                                               *)
ProcShape ==
  /\ proc = [n \in Proc |-> proc[n]]
  /\ [n \in Proc |-> proc[n].code] \in Codes

AllInside  == \A n \in Proc : \E starts : Inside(proc[n], starts)
AllReached == \A n \in Proc : Inside(proc[n], Starts(proc[n].code))
AllLevel   == \A n \in Proc : \E heights : Level(proc[n], heights)

PartsType == WiresType /\ DevicesType /\ SchedulerType

InsideInv == ProcShape /\ AllInside /\ PartsType
LevelInv  == InsideInv /\ AllLevel

LEMMA InsideInvIsType == InsideInv => TypeOK
<1> SUFFICES ASSUME InsideInv PROVE TypeOK
  OBVIOUS
<1>1. ASSUME NEW n \in Proc
      PROVE  /\ proc[n].isp \in 0 .. Len(proc[n].code)
             /\ proc[n].stack \in Seq(Byte) /\ Height(proc[n]) <= STACK_SIZE
             /\ proc[n].vars \in [VarIdx -> Byte]
  BY DEF InsideInv, AllInside, Inside, WellFormed
<1> QED
  BY <1>1 DEF TypeOK, InsideInv, ProcShape, PartsType

LEMMA LevelInvIsBalance == LevelInv => StatementsBalance
<1> SUFFICES ASSUME LevelInv, NEW n \in Proc
             PROVE  /\ proc[n].isp = 0 => proc[n].stack = << >>
                    /\ Faults(proc[n]) =>
                         Op(proc[n]) \in {OP["DIV"], OP["MOD"]} /\ Top(proc[n]) = 0
                    /\ IsRecv(proc[n]) => Height(proc[n]) < STACK_SIZE
  BY Zenon DEF StatementsBalance
<1>1. PICK heights : Level(proc[n], heights)
  BY DEF LevelInv, AllLevel
<1> QED
  BY <1>1, LevelIsSafe

LEMMA StartsAreInside == CodesAreWellFormed => CodesStayInside
<1> SUFFICES ASSUME CodesAreWellFormed, NEW code \in Codes, NEW n \in Proc
             PROVE  WellFormed(code[n], Starts(code[n]))
  BY DEF CodesStayInside
<1>1. code \in [Proc -> Seq(Byte)]
  BY InterpAssumption
<1>2. Len(code[n]) \in Nat
  BY <1>1, LenProperties
<1> QED
  BY <1>2, StartsAreWellFormed DEF CodesAreWellFormed

LEMMA BalancedIsWellFormed == CodesAreBalanced => CodesAreWellFormed
BY DEF CodesAreBalanced, CodesAreWellFormed, IsBalanced, IsWellFormed, Balanced

-----------------------------------------------------------------------------
(* At the beginning.                                                       *)
LEMMA NewIsInside ==
  ASSUME NEW code \in Seq(Byte), NEW starts, WellFormed(code, starts)
  PROVE  Inside(NewProcessor(code), starts)
<1>1. 0 \in Byte /\ << >> \in Seq(Byte) /\ Len(<< >>) <= STACK_SIZE
  BY LimitsAssumption, StackAssumption DEF Byte
<1>2. NewProcessor(code) \in
        [code : Seq(Byte), isp : Nat, stack : Seq(Byte), vars : [VarIdx -> Byte]]
  BY <1>1 DEF NewProcessor
<1> QED
  BY <1>1, <1>2 DEF Inside, NewProcessor, Height, WellFormed

LEMMA InitShape ==
  ASSUME Init
  PROVE  \E code \in Codes :
           /\ code \in [Proc -> Seq(Byte)]
           /\ proc = [n \in Proc |-> NewProcessor(code[n])]
           /\ ProcShape
<1>1. PICK code \in Codes : proc = [n \in Proc |-> NewProcessor(code[n])]
  BY DEF Init
<1>2. code \in [Proc -> Seq(Byte)]
  BY InterpAssumption
<1>3. \A n \in Proc : proc[n].code = code[n]
  BY <1>1 DEF NewProcessor
<1>4. [n \in Proc |-> proc[n].code] = code
  BY <1>2, <1>3
<1> QED
  BY <1>1, <1>2, <1>4 DEF ProcShape

LEMMA InsideInit == CodesAreWellFormed /\ Init => InsideInv
<1> SUFFICES ASSUME CodesAreWellFormed, Init PROVE InsideInv
  OBVIOUS
<1>1. PICK code \in Codes :
        /\ code \in [Proc -> Seq(Byte)]
        /\ proc = [n \in Proc |-> NewProcessor(code[n])]
        /\ ProcShape
  BY InitShape
<1>2. ASSUME NEW n \in Proc PROVE \E starts : Inside(proc[n], starts)
  <2>1. PICK starts : WellFormed(code[n], starts)
    BY DEF CodesAreWellFormed, IsWellFormed
  <2> QED
    BY <1>1, <2>1, NewIsInside
<1> QED
  BY <1>1, <1>2, PartsInit DEF Init, InsideInv, AllInside, PartsType

LEMMA LevelInit == CodesAreBalanced /\ Init => LevelInv
<1> SUFFICES ASSUME CodesAreBalanced, Init PROVE LevelInv
  OBVIOUS
<1>1. PICK code \in Codes :
        /\ code \in [Proc -> Seq(Byte)]
        /\ proc = [n \in Proc |-> NewProcessor(code[n])]
        /\ ProcShape
  BY InitShape
<1>2. ASSUME NEW n \in Proc PROVE \E heights : Level(proc[n], heights)
  <2>1. PICK heights : Balanced(code[n], heights)
    BY DEF CodesAreBalanced, IsBalanced
  <2>2. Inside(NewProcessor(code[n]), DOMAIN heights)
    BY <1>1, <2>1, NewIsInside DEF Balanced
  <2>3. Height(NewProcessor(code[n])) = 0 /\ NewProcessor(code[n]).isp = 0
        /\ NewProcessor(code[n]).code = code[n]
    BY DEF NewProcessor, Height
  <2>4. Level(NewProcessor(code[n]), heights)
    BY <2>1, <2>2, <2>3 DEF Level, Balanced
  <2> QED
    BY <1>1, <2>4
<1> QED
  BY <1>2, InsideInit, BalancedIsWellFormed DEF LevelInv, AllLevel

-----------------------------------------------------------------------------
(* What a step makes of the processors.                                    *)
LEMMA PeerFacts ==
  ASSUME NEW n \in Proc, Connected(n)
  PROVE  TheWire(n) \in Wire /\ Peer(n) \in Node /\ PeerPort(n) \in PortIdx
BY TopologyAssumption
DEF TopologyOK, Connected, Wired, TheWire, WireOf, Peer, PeerPort, PortRec

(* One of them goes on to an instruction that its code allows, or all of   *)
(* them are left alone.                                                    *)
GoesOn(n, next) ==
  /\ proc' = [proc EXCEPT ![n] = next]
  /\ \A starts : Inside(proc[n], starts) =>
       Inside(next, starts) /\ Moves(proc[n], next)

LEMMA ReceivedGoesOn ==
  ASSUME NEW n \in Proc, IsRecv(proc[n]), NEW dat \in Byte, Received(n, dat)
  PROVE  \/ UNCHANGED proc /\ Abort
         \/ TickTrue /\ \E next : GoesOn(n, next)
<1>1. CASE AfterRecv(proc[n], dat) = {} /\ Fail
  BY <1>1 DEF Fail
<1>2. ASSUME NEW next \in AfterRecv(proc[n], dat), Advance(n, next)
      PROVE  TickTrue /\ GoesOn(n, next)
  BY <1>2, RecvStep DEF Advance, GoesOn
<1> QED
  BY <1>1, <1>2 DEF Received

LEMMA TickGoesOn ==
  ASSUME PartsType, NEW n \in Proc, tick(n)
  PROVE  /\ Turn(n)
         /\ \/ UNCHANGED proc /\ (TickFalse \/ Abort)
            \/ TickTrue /\ \E next : GoesOn(n, next)
<1>1. \A w \in Wire : wires[w].buf \in Byte
  BY DEF PartsType, WiresType
<1>2. CASE Compute(n)
  <2>1. PICK next \in LocalSteps(proc[n]) : Advance(n, next)
    BY <1>2 DEF Compute
  <2>2. GoesOn(n, next)
    BY <1>2, <2>1, LocalStep DEF Compute, Advance, GoesOn
  <2> QED
    BY <1>2, <2>1, <2>2 DEF Compute, Advance
<1>3. CASE HaltHere(n) \/ Crash(n)
  BY <1>3 DEF HaltHere, Crash, Block, Fail
<1>4. ASSUME IsSend(proc[n]), Advance(n, AfterSend(proc[n]))
      PROVE  TickTrue /\ \E next : GoesOn(n, next)
  <2>1. GoesOn(n, AfterSend(proc[n]))
    BY <1>4, SendStep DEF Advance, GoesOn
  <2> QED
    BY <1>4, <2>1 DEF Advance
<1>5. CASE Send(n)
  BY <1>4, <1>5 DEF Send, Block
<1>6. CASE Write(n)
  BY <1>4, <1>6 DEF Write, Fail
<1>7. CASE Recv(n)
  <2>1. TheWire(n) \in Wire
    BY <1>7, PeerFacts DEF Recv, PeerIsProc
  <2> QED
    BY <1>1, <1>7, <2>1, ReceivedGoesOn DEF Recv, Block
<1>8. CASE Read(n)
  BY <1>8, ReceivedGoesOn DEF Read, Block, Fail
<1> QED
  BY <1>2, <1>3, <1>5, <1>6, <1>7, <1>8 DEF tick

(* And of the rest.                                                        *)
LEMMA TopIsByte ==
  ASSUME NEW p, NEW starts, Inside(p, starts), IsSend(p)
  PROVE  Top(p) \in Byte
<1>1. p.stack \in Seq(Byte) /\ Height(p) > 0
  BY DEF Inside, IsSend
<1> QED
  BY <1>1, TopFacts

LEMMA TickParts ==
  ASSUME InsideInv, NEW n \in Proc, tick(n)
  PROVE  WiresType' /\ DevicesType'
<1>0. WiresType /\ DevicesType /\ \A w \in Wire : wires[w].buf \in Byte
  BY DEF InsideInv, PartsType, WiresType
<1>1. CASE Compute(n) \/ HaltHere(n) \/ Crash(n)
  BY <1>0, <1>1, PartsUnchanged DEF Compute, HaltHere, Crash
<1>2. IsSend(proc[n]) => Top(proc[n]) \in Byte
  BY TopIsByte DEF InsideInv, AllInside
<1>3. CASE Send(n)
  <2>1. TheWire(n) \in Wire
    BY <1>3, PeerFacts DEF Send, PeerIsProc
  <2>2. \/ FillWire(TheWire(n), Top(proc[n])) \/ ResetWire(TheWire(n)) \/ UNCHANGED wires
    BY <1>3 DEF Send, StillFull
  <2>3. Top(proc[n]) \in Byte
    BY <1>2, <1>3 DEF Send
  <2>4. WiresType'
    BY <1>0, <2>1, <2>2, <2>3, WireFacts, PartsUnchanged
  <2> QED
    BY <1>0, <1>3, <2>4, PartsUnchanged DEF Send
<1>4. CASE Recv(n)
  <2>1. TheWire(n) \in Wire
    BY <1>4, PeerFacts DEF Recv, PeerIsProc
  <2>2. ConsumeWire(TheWire(n), wires[TheWire(n)].buf) \/ UNCHANGED wires
    BY <1>4 DEF Recv, NothingToRead
  <2>3. WiresType'
    BY <1>0, <2>1, <2>2, WireFacts, PartsUnchanged
  <2> QED
    BY <1>0, <1>4, <2>3, PartsUnchanged DEF Recv
<1>5. CASE Write(n)
  <2>1. Peer(n) \in Node /\ PeerPort(n) \in PortIdx
    BY <1>5, PeerFacts DEF Write, PeerIsDevice
  <2>2. DevicesType'
    BY <1>0, <1>2, <1>5, <2>1, SendDeviceType, PartsUnchanged DEF Write
  <2> QED
    BY <1>0, <1>5, <2>2, PartsUnchanged DEF Write
<1>6. CASE Read(n)
  <2>1. Peer(n) \in Node /\ PeerPort(n) \in PortIdx
    BY <1>6, PeerFacts DEF Read, PeerIsDevice
  <2>2. DevicesType'
    BY <1>0, <1>6, <2>1, RecvDeviceType, PartsUnchanged DEF Read
  <2> QED
    BY <1>0, <1>6, <2>2, PartsUnchanged DEF Read
<1> QED
  BY <1>1, <1>3, <1>4, <1>5, <1>6 DEF tick

-----------------------------------------------------------------------------
(* Every step keeps the invariants.                                        *)
LEMMA GoesOnKeeps ==
  ASSUME InsideInv, NEW n \in Proc, NEW next, GoesOn(n, next)
  PROVE  ProcShape' /\ AllInside' /\ (AllReached => AllReached') /\ (AllLevel => AllLevel')
<1>1. \A m \in Proc : proc'[m] = IF m = n THEN next ELSE proc[m]
  BY DEF InsideInv, ProcShape, GoesOn
<1>2. PICK starts : Inside(proc[n], starts)
  BY DEF InsideInv, AllInside
<1>3. Inside(next, starts) /\ Moves(proc[n], next)
  BY <1>2 DEF GoesOn
<1>4. [m \in Proc |-> proc'[m].code] = [m \in Proc |-> proc[m].code]
  BY <1>1, <1>3 DEF Moves
<1>5. ProcShape'
  BY <1>4 DEF InsideInv, ProcShape, GoesOn
<1>6. AllInside'
  BY <1>1, <1>3 DEF InsideInv, AllInside
<1>8. ASSUME AllReached PROVE AllReached'
  BY <1>1, <1>8 DEF AllReached, GoesOn, Moves
<1>7. ASSUME AllLevel, NEW m \in Proc PROVE \E heights : Level(proc'[m], heights)
  <2>1. PICK heights : Level(proc[m], heights)
    BY <1>7 DEF AllLevel
  <2>2. CASE m = n
    <3>1. Inside(next, DOMAIN heights)
      BY <2>1, <2>2 DEF Level, GoesOn
    <3>2. Level(next, heights)
      BY <1>3, <2>1, <2>2, <3>1, StaysLevel
    <3> QED
      BY <1>1, <2>2, <3>2
  <2>3. CASE m # n
    BY <1>1, <2>1, <2>3
  <2> QED
    BY <2>2, <2>3
<1> QED
  BY <1>5, <1>6, <1>7, <1>8 DEF AllLevel

LEMMA ProcUnchanged ==
  ASSUME InsideInv, UNCHANGED proc
  PROVE  ProcShape' /\ AllInside' /\ (AllReached => AllReached') /\ (AllLevel => AllLevel')
BY DEF InsideInv, ProcShape, AllInside, AllReached, AllLevel

LEMMA InsideNext == InsideInv /\ [Next]_vars => InsideInv' /\ (AllReached => AllReached') /\ (AllLevel => AllLevel')
<1> SUFFICES ASSUME InsideInv, [Next]_vars PROVE InsideInv' /\ (AllReached => AllReached') /\ (AllLevel => AllLevel')
  OBVIOUS
<1>0. PartsType /\ WiresType /\ DevicesType /\ SchedulerType
  BY DEF InsideInv, PartsType
<1>1. ASSUME NEW n \in Proc, tick(n) PROVE InsideInv' /\ (AllReached => AllReached') /\ (AllLevel => AllLevel')
  <2>1. WiresType' /\ DevicesType'
    BY <1>1, TickParts
  <2>2. SchedulerType'
    BY <1>0, <1>1, TickGoesOn, TurnType
  <2>3. ProcShape' /\ AllInside' /\ (AllReached => AllReached') /\ (AllLevel => AllLevel')
    BY <1>0, <1>1, TickGoesOn, GoesOnKeeps, ProcUnchanged
  <2> QED
    BY <2>1, <2>2, <2>3 DEF InsideInv, PartsType
<1>2. CASE run
  BY <1>0, <1>2, PartsUnchanged, RunType, ProcUnchanged DEF run, InsideInv, PartsType
<1>3. CASE Console
  BY <1>0, <1>3, PartsUnchanged, ConsoleType, ProcUnchanged
  DEF Console, InsideInv, PartsType
<1>4. CASE UNCHANGED vars
  BY <1>0, <1>4, PartsUnchanged, ProcUnchanged DEF vars, InsideInv, PartsType
<1> QED
  BY <1>1, <1>2, <1>3, <1>4 DEF Next, Interpreter, Exited

-----------------------------------------------------------------------------
(* On any bytecode that is well formed, no processor leaves its code or    *)
(* its stack, and every cell of the machine holds a byte.                  *)
THEOREM TypeCorrect ==
  ASSUME CodesAreWellFormed
  PROVE  Spec => []TypeOK
<1>1. Init => InsideInv
  BY InsideInit
<1>2. InsideInv /\ [Next]_vars => InsideInv'
  BY InsideNext
<1> QED
  BY <1>1, <1>2, InsideInvIsType, PTL DEF Spec

(* On any bytecode that keeps its balance, the stack of a processor is     *)
(* empty whenever its code starts again; nothing that it executes ends the *)
(* process but a division by zero; and it has room for what it receives.   *)
THEOREM Balance ==
  ASSUME CodesAreBalanced
  PROVE  Spec => []StatementsBalance
<1>1. Init => LevelInv
  BY LevelInit
<1>2. LevelInv /\ [Next]_vars => LevelInv'
  BY InsideNext DEF LevelInv
<1> QED
  BY <1>1, <1>2, LevelInvIsBalance, PTL DEF Spec

-----------------------------------------------------------------------------
(* The refinement: what module VM sees of a processor.                     *)
LEMMA SeenFacts ==
  ASSUME NEW p, Height(p) \in Nat
  PROVE  /\ Faults(p) => Seen(p) = Instruction("fault", 0) /\ ~IsSend(p) /\ ~IsRecv(p)
         /\ IsRecv(p) => Seen(p) = Instruction("recv", PortAt(p)) /\ ~IsSend(p)
         /\ IsSend(p) => Seen(p) = Instruction("send", PortAt(p))
         /\ IsLocal(Op(p)) /\ ~Faults(p) => Seen(p) = Instruction("local", 0)
         /\ Op(p) = OP["HALT"] => Seen(p) = Instruction("halt", 0)
         /\ \/ Faults(p) \/ IsRecv(p) \/ IsSend(p) \/ Op(p) = OP["HALT"]
            \/ IsLocal(Op(p)) /\ ~Faults(p)
<1>1. /\ IsLocal(Op(p)) <=> Op(p) \in 1 .. 32
      /\ Op(p) \in Family("SEND0") <=> Op(p) \in 33 .. 36
      /\ IsRecv(p) <=> Op(p) \in 37 .. 40
      /\ Op(p) = OP["HALT"] <=> Op(p) = 41
      /\ Op(p) \in DOMAIN Opcode <=> Op(p) \in 1 .. 41
  BY Numbers, Families DEF IsLocal, IsRecv
<1>2. Op(p) \in 37 .. 41 => ~Faults(p) /\ ~IsSend(p) /\ ~IsLocal(Op(p))
  BY <1>1 DEF Faults, IsSend
<1>3. IsSend(p) => ~Faults(p) /\ ~IsLocal(Op(p)) /\ ~IsRecv(p) /\ Op(p) # OP["HALT"]
  <2> SUFFICES ASSUME IsSend(p)
               PROVE  ~Faults(p) /\ ~IsLocal(Op(p)) /\ ~IsRecv(p) /\ Op(p) # OP["HALT"]
    OBVIOUS
  <2>1. Op(p) \in 33 .. 36 /\ Height(p) # 0
    BY <1>1 DEF IsSend
  <2> QED
    BY <1>1, <2>1 DEF Faults
<1>4. IsLocal(Op(p)) => ~IsSend(p) /\ ~IsRecv(p) /\ Op(p) # OP["HALT"]
  BY <1>1 DEF IsSend
<1>5. \/ Faults(p) \/ IsRecv(p) \/ IsSend(p) \/ Op(p) = OP["HALT"]
      \/ IsLocal(Op(p)) /\ ~Faults(p)
  <2>1. Op(p) \notin 1 .. 41 => Faults(p)
    BY <1>1, Zenon DEF Faults
  <2>2. Op(p) \in 33 .. 36 /\ Height(p) = 0 => Faults(p)
    BY <1>1, Zenon DEF Faults
  <2>3. Op(p) \in 33 .. 36 /\ Height(p) > 0 => IsSend(p)
    BY <1>1, Zenon DEF IsSend
  <2>4. Height(p) = 0 \/ Height(p) > 0
    OBVIOUS
  <2>5. \/ Op(p) \notin 1 .. 41 \/ Op(p) \in 1 .. 32 \/ Op(p) \in 33 .. 36
        \/ Op(p) \in 37 .. 40 \/ Op(p) = 41
    OBVIOUS
  <2>6. CASE Op(p) \notin 1 .. 41
    BY <2>1, <2>6
  <2>7. CASE Op(p) \in 1 .. 32
    BY <1>1, <2>7
  <2>8. CASE Op(p) \in 33 .. 36
    BY <2>2, <2>3, <2>4, <2>8
  <2>9. CASE Op(p) \in 37 .. 40
    BY <1>1, <2>9
  <2>10. CASE Op(p) = 41
    BY <1>1, <2>10
  <2> QED
    BY <2>5, <2>6, <2>7, <2>8, <2>9, <2>10
<1>6. Op(p) = OP["HALT"] => ~IsRecv(p)
  BY <1>1
<1> QED
  BY <1>1, <1>2, <1>3, <1>4, <1>5, <1>6 DEF Seen

LEMMA PortFacts ==
  ASSUME NEW p
  PROVE  /\ IsSend(p) => PortAt(p) \in PortIdx /\ Op(p) = OP["SEND0"] + PortAt(p)
         /\ ~IsSend(p) /\ IsRecv(p) =>
              PortAt(p) \in PortIdx /\ Op(p) = OP["RECV0"] + PortAt(p)
<1>1. CASE IsSend(p)
  <2>1. Op(p) \in 33 .. 36 /\ PortAt(p) = Op(p) - 33
    BY <1>1, Numbers, Families DEF IsSend, PortAt
  <2> QED
    BY <1>1, <2>1, Numbers DEF PortIdx, PORT_MAX
<1>2. CASE ~IsSend(p) /\ IsRecv(p)
  <2>1. Op(p) \in 37 .. 40 /\ PortAt(p) = Op(p) - 37
    BY <1>2, Numbers, Families DEF IsRecv, PortAt
  <2> QED
    BY <1>2, <2>1, Numbers DEF PortIdx, PORT_MAX
<1> QED
  BY <1>1, <1>2

LEMMA InsideFacts ==
  ASSUME InsideInv, NEW n \in Proc
  PROVE  \E starts : Inside(proc[n], starts) /\ Height(proc[n]) \in Nat
BY DEF InsideInv, AllInside, Inside, Height

(* Any instruction that a processor comes to is one of its program.        *)
LEMMA SeenIsProgram ==
  ASSUME NEW n \in Proc, NEW p, Inside(p, Starts(p.code)),
         NEW code \in Codes, code[n] = p.code
  PROVE  Seen(p) \in ProgramOf[n]
<1>1. Height(p) \in Nat
  BY DEF Inside, Height
<1>3. ProgramOf[n] =
        {Instruction(op, 0) : op \in {"local", "halt", "fault"}}
          \union {Instruction("send", k) : k \in UsedPorts(n, "SEND0")}
          \union {Instruction("recv", k) : k \in UsedPorts(n, "RECV0")}
  BY DEF ProgramOf
<1>4. ASSUME NEW first, PortAt(p) \in PortIdx, Op(p) = OP[first] + PortAt(p),
             Op(p) \in DOMAIN Opcode
      PROVE  PortAt(p) \in UsedPorts(n, first)
  <2>1. p.isp \in 0 .. Len(p.code) - 1 /\ p.code[p.isp + 1] = Op(p)
    BY <1>4, InstructionIsWhole
  <2>2. p.isp \in Starts(p.code) \ {Len(p.code)}
    BY <2>1 DEF Inside
  <2> QED
    BY <1>4, <2>1, <2>2 DEF UsedPorts
<1>5. CASE IsSend(p)
  <2>1. Op(p) \in DOMAIN Opcode
    BY <1>5, Numbers, Families DEF IsSend
  <2>2. Seen(p) = Instruction("send", PortAt(p)) /\ PortAt(p) \in UsedPorts(n, "SEND0")
    BY <1>1, <1>4, <1>5, <2>1, PortFacts, SeenFacts
  <2> QED
    BY <1>3, <2>2
<1>6. CASE ~IsSend(p) /\ IsRecv(p)
  <2>1. Op(p) \in DOMAIN Opcode
    BY <1>6, Numbers, Families DEF IsRecv
  <2>2. Seen(p) = Instruction("recv", PortAt(p)) /\ PortAt(p) \in UsedPorts(n, "RECV0")
    BY <1>1, <1>4, <1>6, <2>1, PortFacts, SeenFacts
  <2> QED
    BY <1>3, <2>2
<1>7. CASE ~IsSend(p) /\ ~IsRecv(p)
  <2>1. \/ Seen(p) = Instruction("fault", 0) \/ Seen(p) = Instruction("local", 0)
        \/ Seen(p) = Instruction("halt", 0)
    BY <1>1, <1>7, SeenFacts
  <2>2. \A op \in {"local", "halt", "fault"} : Instruction(op, 0) \in ProgramOf[n]
    BY <1>3
  <2> QED
    BY <2>1, <2>2
<1> QED
  BY <1>5, <1>6, <1>7

LEMMA ProgramIsMachines == Machine!ProgramAssumption
<1>1. ASSUME NEW n \in Proc, NEW first PROVE UsedPorts(n, first) \subseteq PortIdx
  BY DEF UsedPorts
<1>2. ASSUME NEW n \in Proc, NEW c \in ProgramOf[n] PROVE c \in Machine!Instr
  <2>1. \/ \E op \in {"local", "halt", "fault"} : c = Instruction(op, 0)
        \/ \E k \in PortIdx : c = Instruction("send", k) \/ c = Instruction("recv", k)
    BY <1>1 DEF ProgramOf
  <2> QED
    BY <2>1 DEF Instruction, Machine!Instr, Machine!Local, Machine!Halt, Machine!Fault,
                Machine!Send, Machine!Recv, Machine!PortIdx, Machine!PORT_MAX,
                PortIdx, PORT_MAX
<1> QED
  BY <1>2 DEF Machine!ProgramAssumption, Machine!Proc, Machine!Node, Proc, Node

-----------------------------------------------------------------------------
(* The two modules mean the same by the parts that processors share.       *)
LEMMA SameSets ==
  /\ Machine!Proc = Proc /\ Machine!Byte = Byte
  /\ Machine!devVars = devVars /\ Machine!schedVars = schedVars
  /\ Machine!devVars' = devVars' /\ Machine!schedVars' = schedVars'
BY DEF Machine!Proc, Machine!Node, Proc, Node, Machine!Byte, Byte, Machine!devVars, devVars,
       Machine!schedVars, schedVars

LEMMA SameTurns ==
  /\ \A n : Turn(n) => Machine!Turn(n)
  /\ TickTrue => Machine!TickTrue
  /\ TickFalse => Machine!TickFalse
  /\ Abort => Machine!Abort
  /\ SkipNode => Machine!SkipNode
  /\ NextRound => Machine!NextRound
  /\ Return => Machine!Return
BY Zenon DEF Turn, Machine!Turn, TickTrue, Machine!TickTrue, TickFalse, Machine!TickFalse,
       Abort, Machine!Abort, SkipNode, Machine!SkipNode, NextRound,
       Machine!NextRound, Return, Machine!Return, Node, Proc, Machine!Node, Machine!Proc

LEMMA SameWires ==
  ASSUME NEW w, NEW dat
  PROVE  /\ FillWire(w, dat) => Machine!FillWire(w, dat)
         /\ StillFull(w) => Machine!StillFull(w)
         /\ ResetWire(w) => Machine!ResetWire(w)
         /\ ConsumeWire(w, dat) => Machine!ConsumeWire(w, dat)
         /\ NothingToRead(w) => Machine!NothingToRead(w)
BY Zenon DEF FillWire, StillFull, ResetWire, ConsumeWire, NothingToRead, Status,
       Machine!FillWire, Machine!StillFull, Machine!ResetWire,
       Machine!ConsumeWire, Machine!NothingToRead, Machine!Status

LEMMA SameDevices ==
  ASSUME NEW d, NEW k, NEW dat
  PROVE  /\ SendDevice(d, k, dat) => Machine!SendDevice(d, k, dat)
         /\ SendDeviceFails(d, k) => Machine!SendDeviceFails(d, k)
         /\ RecvDevice(d, k, dat) => Machine!RecvDevice(d, k, dat)
         /\ RecvDeviceFails(d, k) => Machine!RecvDeviceFails(d, k)
         /\ RecvDeviceBlocks(d, k) => Machine!RecvDeviceBlocks(d, k)
<1>1. SendDevice(d, k, dat) => Machine!SendDevice(d, k, dat)
  BY DEF SendDevice, send_io, send_buf, send_stack, IO_OUT, IO_ERR, BUFFER_ELM,
         BUFFER_IDX, Machine!SendDevice, Machine!send_io, Machine!send_buf,
         Machine!send_stack, Machine!IO_OUT, Machine!IO_ERR, Machine!BUFFER_ELM,
         Machine!BUFFER_IDX
<1>2. SendDeviceFails(d, k) => Machine!SendDeviceFails(d, k)
  BY DEF SendDeviceFails, send_ioFails, bufFails, send_stackFails, IO_OUT, IO_ERR,
         BUFFER_ELM, BUFFER_IDX, Machine!SendDeviceFails, Machine!send_ioFails,
         Machine!bufFails, Machine!send_stackFails, Machine!IO_OUT,
         Machine!IO_ERR, Machine!BUFFER_ELM, Machine!BUFFER_IDX
<1>3. RecvDevice(d, k, dat) => Machine!RecvDevice(d, k, dat)
  BY DEF RecvDevice, recv_io, recv_buf, recv_stack, Unread, IO_IN, BUFFER_ELM,
         BUFFER_IDX, devVars, Machine!RecvDevice, Machine!recv_io, Machine!recv_buf,
         Machine!recv_stack, Machine!Unread, Machine!IO_IN, Machine!BUFFER_ELM,
         Machine!BUFFER_IDX, Machine!devVars
<1>4. RecvDeviceFails(d, k) => Machine!RecvDeviceFails(d, k)
  BY DEF RecvDeviceFails, recv_ioFails, bufFails, IO_IN, BUFFER_ELM, BUFFER_IDX,
         Machine!RecvDeviceFails, Machine!recv_ioFails, Machine!bufFails,
         Machine!IO_IN, Machine!BUFFER_ELM, Machine!BUFFER_IDX
<1>5. RecvDeviceBlocks(d, k) => Machine!RecvDeviceBlocks(d, k)
  BY DEF RecvDeviceBlocks, recv_ioBlocks, recv_stackBlocks, Unread, IO_IN,
         Machine!RecvDeviceBlocks, Machine!recv_ioBlocks,
         Machine!recv_stackBlocks, Machine!Unread, Machine!IO_IN
<1> QED
  BY <1>1, <1>2, <1>3, <1>4, <1>5

(* And by the place of a processor that sends or receives.                 *)
LEMMA SamePlace ==
  ASSUME NEW n \in Proc, Height(proc[n]) \in Nat, IsSend(proc[n]) \/ IsRecv(proc[n])
  PROVE  /\ Machine!At(n, "send") <=> IsSend(proc[n])
         /\ Machine!At(n, "recv") <=> IsRecv(proc[n])
         /\ instrBar[n].op \in {"send", "recv"}
         /\ Machine!Connected(n) <=> Connected(n)
         /\ Machine!PeerIsProc(n) <=> PeerIsProc(n)
         /\ Machine!PeerIsDevice(n) <=> PeerIsDevice(n)
         /\ Machine!TheWire(n) = TheWire(n)
         /\ Machine!Peer(n) = Peer(n) /\ Machine!PeerPort(n) = PeerPort(n)
<1>1. instrBar[n].port = PortAt(proc[n])
  BY SeenFacts DEF instrBar, Instruction
<1>2. /\ IsSend(proc[n]) => instrBar[n].op = "send"
      /\ IsRecv(proc[n]) => instrBar[n].op = "recv" /\ ~IsSend(proc[n])
  BY SeenFacts DEF instrBar, Instruction
<1>3. /\ Machine!At(n, "send") <=> IsSend(proc[n])
      /\ Machine!At(n, "recv") <=> IsRecv(proc[n])
      /\ instrBar[n].op \in {"send", "recv"}
  BY <1>2 DEF Machine!At
<1>4. /\ Machine!Connected(n) <=> Connected(n)
      /\ Machine!PeerIsProc(n) <=> PeerIsProc(n)
      /\ Machine!PeerIsDevice(n) <=> PeerIsDevice(n)
      /\ Machine!TheWire(n) = TheWire(n)
      /\ Machine!Peer(n) = Peer(n) /\ Machine!PeerPort(n) = PeerPort(n)
  BY <1>1
  DEF Machine!Connected, Machine!Wired, Machine!PeerIsProc, Machine!PeerIsDevice,
      Machine!PeerType, Machine!TheWire, Machine!WireOf, Machine!Peer,
      Machine!PeerPort, Connected, Wired, PeerIsProc, PeerIsDevice, PeerType,
      TheWire, WireOf, Peer, PeerPort
<1> QED
  BY <1>3, <1>4

-----------------------------------------------------------------------------
(* A step of a processor is one of the machine's.                          *)
LEMMA AdvanceMaps ==
  ASSUME InsideInv, AllReached, NEW n \in Proc, NEW next, GoesOn(n, next), TickTrue, NEW V,
         Height(next) = 0 => 0 \in V, Height(next) > 0 => Top(next) \in V
  PROVE  Machine!Advance(n, V)
<1> DEFINE TopOf(p) == IF Height(p) = 0 THEN 0 ELSE Top(p)
<1>1. Inside(next, Starts(next.code)) /\ next.code = proc[n].code
  BY DEF AllReached, GoesOn, Moves
<1>2. PICK code \in Codes : code[n] = proc[n].code
  BY DEF InsideInv, ProcShape
<1>3. Seen(next) \in ProgramOf[n]
  BY <1>1, <1>2, SeenIsProgram
<1>4. TopOf(next) \in V
  BY <1>1 DEF Inside, Height
<1>5. \A m \in Proc : proc'[m] = IF m = n THEN next ELSE proc[m]
  BY DEF InsideInv, ProcShape, GoesOn
<1> HIDE DEF TopOf
<1>6. instrBar' = [instrBar EXCEPT ![n] = Seen(next)]
  BY <1>5 DEF instrBar
<1>7. topBar = [m \in Proc |-> TopOf(proc[m])] /\ topBar' = [m \in Proc |-> TopOf(proc'[m])]
  BY DEF topBar, TopOf
<1>8. topBar' = [topBar EXCEPT ![n] = TopOf(next)]
  BY <1>5, <1>7
<1>9. Machine!TickTrue
  BY SameTurns
<1> QED
  BY <1>3, <1>4, <1>6, <1>8, <1>9 DEF Machine!Advance

(* What a processor goes on to leaves a byte on top, if anything.          *)
LEMMA GoesOnToBytes ==
  ASSUME InsideInv, NEW n \in Proc, NEW next, GoesOn(n, next)
  PROVE  (Height(next) = 0 => 0 \in Byte) /\ (Height(next) > 0 => Top(next) \in Byte)
<1>1. PICK starts : Inside(next, starts)
  BY DEF InsideInv, AllInside, GoesOn
<1>2. next.stack \in Seq(Byte) /\ 0 \in Byte
  BY <1>1, LimitsAssumption DEF Inside, Byte
<1> QED
  BY <1>2, TopFacts

LEMMA LocalRuns ==
  ASSUME NEW p, IsLocal(Op(p)), LocalSteps(p) # {}
  PROVE  ~Faults(p)
<1>1. StacksAfter(p, Op(p)) # {}
  BY DEF LocalSteps
<1>2. Op(p) \in 1 .. 32
  BY Numbers DEF IsLocal
<1>3. Op(p) \in DOMAIN Opcode /\ Op(p) \notin Family("SEND0")
  BY <1>2, Numbers, Families
<1> QED
  BY <1>1, <1>3 DEF Faults

LEMMA NothingMoves ==
  ASSUME UNCHANGED proc
  PROVE  /\ instrBar' = instrBar /\ topBar' = topBar
         /\ Machine!procVars' = Machine!procVars
BY DEF instrBar, topBar, Machine!procVars

LEMMA BlockMaps == Block => Machine!Block
BY NothingMoves, SameTurns DEF Block, Machine!Block, Machine!procVars

LEMMA FailMaps == Fail => Machine!Fail
BY NothingMoves, SameTurns DEF Fail, Machine!Fail, Machine!procVars

LEMMA ReceivedMaps ==
  ASSUME InsideInv, AllReached, NEW n \in Proc, IsRecv(proc[n]), NEW dat \in Byte, Received(n, dat)
  PROVE  Machine!PushReceived(n, dat)
<1>1. CASE AfterRecv(proc[n], dat) = {} /\ Fail
  <2>1. Machine!Fault \in ProgramOf[n]
    BY DEF ProgramOf, Instruction, Machine!Fault
  <2> QED
    BY <1>1, <2>1, FailMaps DEF Machine!PushReceived
<1>2. ASSUME NEW next \in AfterRecv(proc[n], dat), Advance(n, next)
      PROVE  Machine!Advance(n, {dat})
  <2>1. GoesOn(n, next) /\ TickTrue
    BY <1>2, RecvStep DEF Advance, GoesOn
  <2>2. Height(next) > 0 /\ Top(next) = dat
    <3>1. PICK starts : Inside(proc[n], starts)
      BY InsideFacts
    <3>2. next.stack = Append(proc[n].stack, dat)
      BY <1>2, <3>1 DEF AfterRecv, Pushed, Inside
    <3>3. proc[n].stack \in Seq(Byte)
      BY <3>1 DEF Inside
    <3> QED
      BY <3>2, <3>3 DEF Height, Top
  <2> QED
    BY <2>1, <2>2, AdvanceMaps
<1> QED
  BY <1>1, <1>2 DEF Received, Machine!PushReceived

LEMMA ComputeMaps ==
  ASSUME InsideInv, AllReached, NEW n \in Proc, Compute(n)
  PROVE  Machine!Compute(n)
<1>1. PICK next \in LocalSteps(proc[n]) : Advance(n, next)
  BY DEF Compute
<1>2. GoesOn(n, next) /\ TickTrue
  BY <1>1, LocalStep DEF Compute, Advance, GoesOn
<1>3. Machine!At(n, "local")
  <2>1. Height(proc[n]) \in Nat /\ IsLocal(Op(proc[n]))
    BY InsideFacts DEF Compute
  <2>2. LocalSteps(proc[n]) # {}
    BY <1>1
  <2>3. ~Faults(proc[n])
    BY <2>1, <2>2, LocalRuns
  <2> QED
    BY <2>1, <2>3, SeenFacts DEF Machine!At, instrBar, Instruction
<1>4. (Height(next) = 0 => 0 \in Byte) /\ (Height(next) > 0 => Top(next) \in Byte)
  BY <1>2, GoesOnToBytes
<1>5. Machine!Advance(n, Byte)
  BY <1>2, <1>4, AdvanceMaps
<1> QED
  BY <1>3, <1>5, SameSets, SameTurns DEF Compute, Machine!Compute

LEMMA EndsMap ==
  ASSUME InsideInv, NEW n \in Proc, HaltHere(n) \/ Crash(n)
  PROVE  Machine!HaltHere(n) \/ Machine!Crash(n)
<1>0. Height(proc[n]) \in Nat
  BY InsideFacts
<1>1. CASE HaltHere(n)
  <2>1. Machine!At(n, "halt")
    BY <1>0, <1>1, SeenFacts DEF HaltHere, Machine!At, instrBar, Instruction
  <2> QED
    BY <1>1, <2>1, BlockMaps, SameSets, SameTurns DEF HaltHere, Machine!HaltHere
<1>2. CASE Crash(n) /\ Faults(proc[n])
  <2>1. Machine!At(n, "fault")
    BY <1>0, <1>2, SeenFacts DEF Machine!At, instrBar, Instruction
  <2> QED
    BY <1>2, <2>1, FailMaps, SameSets, SameTurns DEF Crash, Machine!Crash
<1>3. CASE Crash(n) /\ (IsSend(proc[n]) \/ IsRecv(proc[n])) /\ ~Connected(n)
  <2>1. instrBar[n].op \in {"send", "recv"} /\ ~Machine!Connected(n)
    BY <1>0, <1>3, SamePlace
  <2> QED
    BY <1>3, <2>1, FailMaps, SameSets, SameTurns DEF Crash, Machine!Crash
<1> QED
  BY <1>1, <1>2, <1>3 DEF Crash

LEMMA SentMaps ==
  ASSUME InsideInv, AllReached, NEW n \in Proc, IsSend(proc[n]), Advance(n, AfterSend(proc[n]))
  PROVE  Machine!Advance(n, Byte)
<1> DEFINE next == AfterSend(proc[n])
<1>1. GoesOn(n, next) /\ TickTrue
  BY SendStep DEF Advance, GoesOn
<1> HIDE DEF next
<1>2. (Height(next) = 0 => 0 \in Byte) /\ (Height(next) > 0 => Top(next) \in Byte)
  BY <1>1, GoesOnToBytes
<1> QED
  BY <1>1, <1>2, AdvanceMaps

LEMMA SendMaps ==
  ASSUME InsideInv, AllReached, NEW n \in Proc, Send(n)
  PROVE  Machine!Offer(n) \/ Machine!AwaitAck(n) \/ Machine!Resume(n)
<1>0. Height(proc[n]) \in Nat /\ Turn(n) /\ IsSend(proc[n]) /\ PeerIsProc(n)
      /\ UNCHANGED devVars
  BY InsideFacts DEF Send
<1>1. /\ Machine!Turn(n) /\ Machine!At(n, "send") /\ Machine!PeerIsProc(n)
      /\ UNCHANGED Machine!devVars /\ Machine!TheWire(n) = TheWire(n)
  BY <1>0, SamePlace, SameTurns, SameSets
<1>2. topBar[n] = Top(proc[n])
  BY <1>0 DEF topBar, IsSend
<1>3. CASE FillWire(TheWire(n), Top(proc[n])) /\ Block
  BY <1>1, <1>2, <1>3, BlockMaps, SameWires DEF Machine!Offer
<1>4. CASE StillFull(TheWire(n)) /\ Block
  BY <1>1, <1>4, BlockMaps, SameWires DEF Machine!AwaitAck
<1>5. CASE ResetWire(TheWire(n)) /\ Advance(n, AfterSend(proc[n]))
  BY <1>0, <1>1, <1>5, SentMaps, SameWires, SameSets DEF Machine!Resume
<1> QED
  BY <1>3, <1>4, <1>5 DEF Send

LEMMA RecvMaps ==
  ASSUME InsideInv, AllReached, NEW n \in Proc, Recv(n)
  PROVE  Machine!Take(n) \/ Machine!AwaitMessage(n)
<1>0. Height(proc[n]) \in Nat /\ Turn(n) /\ IsRecv(proc[n]) /\ PeerIsProc(n)
      /\ UNCHANGED devVars
  BY InsideFacts DEF Recv
<1>1. /\ Machine!Turn(n) /\ Machine!At(n, "recv") /\ Machine!PeerIsProc(n)
      /\ UNCHANGED Machine!devVars /\ Machine!TheWire(n) = TheWire(n)
  BY <1>0, SamePlace, SameTurns, SameSets
<1>2. wires[TheWire(n)].buf \in Byte
  <2>1. TheWire(n) \in Wire
    BY <1>0, PeerFacts DEF PeerIsProc
  <2> QED
    BY <2>1 DEF InsideInv, PartsType, WiresType
<1>3. CASE /\ ConsumeWire(TheWire(n), wires[TheWire(n)].buf)
           /\ Received(n, wires[TheWire(n)].buf)
  BY <1>0, <1>1, <1>2, <1>3, ReceivedMaps, SameWires DEF Machine!Take
<1>4. CASE NothingToRead(TheWire(n)) /\ Block
  BY <1>1, <1>4, BlockMaps, SameWires DEF Machine!AwaitMessage
<1> QED
  BY <1>3, <1>4 DEF Recv

LEMMA WriteMaps ==
  ASSUME InsideInv, AllReached, NEW n \in Proc, Write(n)
  PROVE  Machine!Write(n)
<1>0. Height(proc[n]) \in Nat /\ Turn(n) /\ IsSend(proc[n]) /\ PeerIsDevice(n)
      /\ UNCHANGED wires
  BY InsideFacts DEF Write
<1>1. /\ Machine!Turn(n) /\ Machine!At(n, "send") /\ Machine!PeerIsDevice(n)
      /\ Machine!Peer(n) = Peer(n) /\ Machine!PeerPort(n) = PeerPort(n)
  BY <1>0, SamePlace, SameTurns
<1>2. topBar[n] = Top(proc[n])
  BY <1>0 DEF topBar, IsSend
<1>3. CASE /\ SendDevice(Peer(n), PeerPort(n), Top(proc[n]))
           /\ Advance(n, AfterSend(proc[n]))
  BY <1>0, <1>1, <1>2, <1>3, SentMaps, SameDevices, SameSets DEF Machine!Write
<1>4. CASE SendDeviceFails(Peer(n), PeerPort(n)) /\ Fail /\ UNCHANGED devVars
  BY <1>0, <1>1, <1>4, FailMaps, SameDevices, SameSets DEF Machine!Write
<1> QED
  BY <1>3, <1>4 DEF Write

LEMMA ReadMaps ==
  ASSUME InsideInv, AllReached, NEW n \in Proc, Read(n)
  PROVE  Machine!Read(n) \/ Machine!AwaitDevice(n)
<1>0. Height(proc[n]) \in Nat /\ Turn(n) /\ IsRecv(proc[n]) /\ PeerIsDevice(n)
      /\ UNCHANGED wires
  BY InsideFacts DEF Read
<1>1. /\ Machine!Turn(n) /\ Machine!At(n, "recv") /\ Machine!PeerIsDevice(n)
      /\ Machine!Peer(n) = Peer(n) /\ Machine!PeerPort(n) = PeerPort(n)
  BY <1>0, SamePlace, SameTurns
<1>2. ASSUME NEW dat \in Byte, RecvDevice(Peer(n), PeerPort(n), dat), Received(n, dat)
      PROVE  Machine!Read(n)
  BY <1>0, <1>1, <1>2, ReceivedMaps, SameDevices, SameSets DEF Machine!Read
<1>3. CASE RecvDeviceBlocks(Peer(n), PeerPort(n)) /\ Block /\ UNCHANGED devVars
  BY <1>0, <1>1, <1>3, BlockMaps, SameDevices, SameSets DEF Machine!AwaitDevice
<1>4. CASE RecvDeviceFails(Peer(n), PeerPort(n)) /\ Fail /\ UNCHANGED devVars
  BY <1>0, <1>1, <1>4, FailMaps, SameDevices, SameSets DEF Machine!Read
<1> QED
  BY <1>2, <1>3, <1>4 DEF Read

LEMMA TickMaps ==
  ASSUME InsideInv, AllReached, NEW n \in Proc, tick(n)
  PROVE  Machine!tick(n)
<1>1. CASE Compute(n)
  BY <1>1, ComputeMaps DEF Machine!tick
<1>2. CASE HaltHere(n) \/ Crash(n)
  BY <1>2, EndsMap DEF Machine!tick
<1>3. CASE Send(n)
  BY <1>3, SendMaps DEF Machine!tick
<1>4. CASE Recv(n)
  BY <1>4, RecvMaps DEF Machine!tick
<1>5. CASE Write(n)
  BY <1>5, WriteMaps DEF Machine!tick
<1>6. CASE Read(n)
  BY <1>6, ReadMaps DEF Machine!tick
<1> QED
  BY <1>1, <1>2, <1>3, <1>4, <1>5, <1>6 DEF tick

LEMMA ConsoleMaps == Console => Machine!Console
BY NothingMoves, SameSets
DEF Console, WriteStdin, CloseStdin, Machine!Console, Machine!WriteStdin,
    Machine!CloseStdin

LEMMA NextMaps ==
  ASSUME InsideInv, AllReached, [Next]_vars
  PROVE  [Machine!Next]_(Machine!vars)
<1>1. ASSUME NEW n \in Proc, tick(n) PROVE Machine!Next
  BY <1>1, TickMaps, SameSets DEF Machine!Next, Machine!Interpreter
<1>2. CASE run
  <2>1. Machine!run
    BY <1>2, NothingMoves, SameTurns, SameSets DEF run, Machine!run
  <2> QED
    BY <2>1 DEF Machine!Next, Machine!Interpreter
<1>3. CASE Console
  BY <1>3, ConsoleMaps DEF Machine!Next
<1>4. CASE UNCHANGED vars
  <2>1. UNCHANGED <<proc, wires, devVars, schedVars>>
    BY <1>4 DEF vars
  <2> QED
    BY <2>1, NothingMoves, SameSets DEF Machine!vars
<1> QED
  BY <1>1, <1>2, <1>3, <1>4 DEF Next, Interpreter, Exited

LEMMA InitMaps == CodesStayInside /\ Init => AllReached /\ Machine!Init
<1> SUFFICES ASSUME CodesStayInside, Init PROVE AllReached /\ Machine!Init
  OBVIOUS
<1>0. PICK code \in Codes :
        /\ code \in [Proc -> Seq(Byte)]
        /\ proc = [n \in Proc |-> NewProcessor(code[n])]
  BY InitShape
<1>1. ASSUME NEW n \in Proc
      PROVE  /\ Inside(proc[n], Starts(proc[n].code)) /\ proc[n].code = code[n]
             /\ Height(proc[n]) = 0
  BY <1>0, NewIsInside DEF CodesStayInside, NewProcessor, Height
<1>2. ASSUME NEW n \in Proc
      PROVE  instrBar[n] \in {c \in ProgramOf[n] : c.op # "send"}
  <2>1. Seen(proc[n]) \in ProgramOf[n]
    BY <1>1, SeenIsProgram
  <2>2. ~IsSend(proc[n])
    BY <1>1 DEF IsSend
  <2>3. Seen(proc[n]).op # "send"
    BY <1>1, <2>2, SeenFacts DEF Instruction
  <2> QED
    BY <2>1, <2>3 DEF instrBar
<1>3. instrBar \in [Proc -> Machine!Instr]
  BY <1>2, ProgramIsMachines, SameSets DEF Machine!ProgramAssumption, instrBar
<1>4. topBar = [n \in Proc |-> 0]
  BY <1>1 DEF topBar
<1>5. Machine!WiresInit /\ Machine!DevicesInit /\ Machine!SchedulerInit
  BY DEF Init, WiresInit, DevicesInit, SchedulerInit, Machine!WiresInit,
         Machine!DevicesInit, Machine!SchedulerInit, IO_OUT, IO_ERR, Machine!IO_OUT,
         Machine!IO_ERR, BufNode, StackNode, Node, Machine!BufNode,
         Machine!StackNode, Machine!Node
<1> QED
  BY <1>1, <1>2, <1>3, <1>4, <1>5, SameSets DEF Machine!Init, AllReached

(* Every execution of the virtual machine on bytecode that is well formed  *)
(* is, as far as wires, devices and the scheduler can tell, one of module  *)
(* VM: whatever is proved there of any program holds of this bytecode.     *)
THEOREM Refinement ==
  ASSUME CodesAreWellFormed
  PROVE  Spec => ImplementsVM
<1>1. Init => InsideInv /\ AllReached /\ Machine!Init
  BY StartsAreInside, InsideInit, InitMaps
<1>2. InsideInv /\ AllReached /\ [Next]_vars =>
        InsideInv' /\ AllReached' /\ [Machine!Next]_(Machine!vars)
  BY InsideNext, NextMaps
<1> QED
  BY <1>1, <1>2, PTL DEF Spec, ImplementsVM, Machine!Spec

-----------------------------------------------------------------------------
(* What is proved of the machine in modules VMProofs and VMRefinement, of  *)
(* the machine of this bytecode: the two instances of module VM are one.   *)
M == INSTANCE VMRefinement WITH instr <- instrBar, top <- topBar, Program <- ProgramOf

LEMMA MachineAssumptions ==
  /\ M!LimitsAssumption /\ M!TopologyAssumption /\ M!DevicesAssumption
  /\ M!ProgramAssumption
<1>1. M!LimitsAssumption
  BY LimitsAssumption DEF M!LimitsAssumption
<1>2. M!TopologyAssumption
  BY TopologyAssumption, Zenon
  DEF M!TopologyAssumption, M!TopologyOK, TopologyOK, M!Node, Node, M!NodeType,
      NodeType, M!Proc, Proc, M!PortIdx, PortIdx, M!PORT_MAX, PORT_MAX,
      M!PortRec, PortRec
<1>3. M!DevicesAssumption
  BY DevicesAssumption, Zenon
  DEF M!DevicesAssumption, M!BufNode, BufNode, M!Node, Node, M!Byte, Byte
<1>4. M!ProgramAssumption
  BY ProgramIsMachines, Zenon
  DEF M!ProgramAssumption, Machine!ProgramAssumption, M!Proc, Machine!Proc, M!Node,
      Machine!Node, M!Instr, Machine!Instr, M!Local, Machine!Local, M!Halt,
      Machine!Halt, M!Fault, Machine!Fault, M!Send, Machine!Send, M!Recv,
      Machine!Recv, M!PortIdx, Machine!PortIdx, M!PORT_MAX, Machine!PORT_MAX
<1> QED
  BY <1>1, <1>2, <1>3, <1>4

(* Both sides of the following lemmas, expanded in full, are the same.     *)
LEMMA SameInit == M!Init <=> Machine!Init
BY Zenon
DEF
    M!Init, M!Proc, M!Instr, M!Fault, M!WiresInit, M!DevicesInit, M!SchedulerInit,
    M!Node, M!Local, M!Halt, M!Send, M!PortIdx, M!Recv, M!BufNode, M!StackNode,
    M!IO_OUT, M!IO_ERR, M!PORT_MAX,
    Machine!Init, Machine!Proc, Machine!Instr, Machine!Fault, Machine!WiresInit,
    Machine!DevicesInit, Machine!SchedulerInit, Machine!Node, Machine!Local,
    Machine!Halt, Machine!Send, Machine!PortIdx, Machine!Recv, Machine!BufNode,
    Machine!StackNode, Machine!IO_OUT, Machine!IO_ERR, Machine!PORT_MAX

LEMMA SameNext == M!Next <=> Machine!Next
BY Zenon
DEF
    M!Next, M!Interpreter, M!Console, M!Exited, M!run, M!Proc, M!tick, M!WriteStdin,
    M!CloseStdin, M!procVars, M!schedVars, M!vars, M!SkipNode, M!NextRound, M!Return,
    M!devVars, M!Node, M!Compute, M!HaltHere, M!Crash, M!Offer, M!AwaitAck, M!Resume,
    M!Take, M!AwaitMessage, M!Write, M!Read, M!AwaitDevice, M!Turn, M!At, M!Advance,
    M!Byte, M!Block, M!Connected, M!Fail, M!PeerIsProc, M!FillWire, M!TheWire,
    M!StillFull, M!ResetWire, M!ConsumeWire, M!PushReceived, M!NothingToRead,
    M!PeerIsDevice, M!SendDevice, M!Peer, M!PeerPort, M!SendDeviceFails, M!RecvDevice,
    M!RecvDeviceFails, M!RecvDeviceBlocks, M!TickTrue, M!TickFalse, M!Wired, M!Abort,
    M!PeerType, M!Status, M!WireOf, M!Fault, M!send_io, M!send_buf, M!send_stack,
    M!send_ioFails, M!bufFails, M!send_stackFails, M!recv_io, M!recv_buf, M!recv_stack,
    M!recv_ioFails, M!recv_ioBlocks, M!recv_stackBlocks, M!IO_OUT, M!IO_ERR,
    M!BUFFER_IDX, M!BUFFER_ELM, M!IO_IN, M!Unread,
    Machine!Next, Machine!Interpreter, Machine!Console, Machine!Exited, Machine!run,
    Machine!Proc, Machine!tick, Machine!WriteStdin, Machine!CloseStdin,
    Machine!procVars, Machine!schedVars, Machine!vars, Machine!SkipNode,
    Machine!NextRound, Machine!Return, Machine!devVars, Machine!Node, Machine!Compute,
    Machine!HaltHere, Machine!Crash, Machine!Offer, Machine!AwaitAck, Machine!Resume,
    Machine!Take, Machine!AwaitMessage, Machine!Write, Machine!Read,
    Machine!AwaitDevice, Machine!Turn, Machine!At, Machine!Advance, Machine!Byte,
    Machine!Block, Machine!Connected, Machine!Fail, Machine!PeerIsProc,
    Machine!FillWire, Machine!TheWire, Machine!StillFull, Machine!ResetWire,
    Machine!ConsumeWire, Machine!PushReceived, Machine!NothingToRead,
    Machine!PeerIsDevice, Machine!SendDevice, Machine!Peer, Machine!PeerPort,
    Machine!SendDeviceFails, Machine!RecvDevice, Machine!RecvDeviceFails,
    Machine!RecvDeviceBlocks, Machine!TickTrue, Machine!TickFalse, Machine!Wired,
    Machine!Abort, Machine!PeerType, Machine!Status, Machine!WireOf, Machine!Fault,
    Machine!send_io, Machine!send_buf, Machine!send_stack, Machine!send_ioFails,
    Machine!bufFails, Machine!send_stackFails, Machine!recv_io, Machine!recv_buf,
    Machine!recv_stack, Machine!recv_ioFails, Machine!recv_ioBlocks,
    Machine!recv_stackBlocks, Machine!IO_OUT, Machine!IO_ERR, Machine!BUFFER_IDX,
    Machine!BUFFER_ELM, Machine!IO_IN, Machine!Unread

LEMMA SameSpec == M!Spec <=> Machine!Spec
<1>1. M!vars = Machine!vars
  BY Zenon DEF M!vars, Machine!vars, M!devVars, Machine!devVars, M!schedVars,
    Machine!schedVars
<1>2. [M!Next]_(M!vars) <=> [Machine!Next]_(Machine!vars)
  BY <1>1, SameNext, SMT
  DEF M!vars, Machine!vars, M!devVars, Machine!devVars, M!schedVars, Machine!schedVars
<1> QED
  BY <1>2, SameInit, PTL DEF M!Spec, Machine!Spec

LEMMA SameOneWay == M!OneWay <=> Machine!OneWay
BY Zenon
DEF
    M!OneWay, M!Proc, M!MayRecvOn, M!MaySendOn, M!Node, M!PortIdx, M!MayUse, M!Recv,
    M!Send, M!PORT_MAX, M!PeerType, M!WireOf,
    Machine!OneWay, Machine!Proc, Machine!MayRecvOn, Machine!MaySendOn, Machine!Node,
    Machine!PortIdx, Machine!MayUse, Machine!Recv, Machine!Send, Machine!PORT_MAX,
    Machine!PeerType, Machine!WireOf

LEMMA SameExit == M!QuiescentExit <=> Machine!QuiescentExit
BY Zenon
DEF
    M!QuiescentExit, M!AllStuck, M!Proc, M!Stuck, M!Node, M!At, M!PeerIsProc, M!Status,
    M!TheWire, M!PeerIsDevice, M!RecvDeviceBlocks, M!Peer, M!PeerPort, M!Connected,
    M!PeerType, M!WireOf, M!recv_ioBlocks, M!recv_stackBlocks, M!Wired, M!IO_IN,
    M!Unread,
    Machine!QuiescentExit, Machine!AllStuck, Machine!Proc, Machine!Stuck, Machine!Node,
    Machine!At, Machine!PeerIsProc, Machine!Status, Machine!TheWire,
    Machine!PeerIsDevice, Machine!RecvDeviceBlocks, Machine!Peer, Machine!PeerPort,
    Machine!Connected, Machine!PeerType, Machine!WireOf, Machine!recv_ioBlocks,
    Machine!recv_stackBlocks, Machine!Wired, Machine!IO_IN, Machine!Unread

(* What a step of the scheduler and of a turn is, for either.              *)
LEMMA SameWinding == M!StuckMachinesWindDown <=> Machine!StuckMachinesWindDown
<1>1. M!WindsDown <=> Machine!WindsDown
  BY Zenon
  DEF M!Proc, M!Node, M!At, M!PeerIsProc, M!Connected, M!PeerType, M!WireOf,
      M!Wired, M!Status, M!TheWire, M!WindsDown, M!AllStuck, M!Stuck,
      M!PeerIsDevice, M!RecvDeviceBlocks, M!Peer, M!PeerPort, M!recv_ioBlocks,
      M!recv_stackBlocks, M!IO_IN, M!Unread, M!StepsLeft, M!procVars,
      M!schedVars, Machine!Proc, Machine!Node, Machine!At, Machine!PeerIsProc,
      Machine!Connected, Machine!PeerType, Machine!WireOf, Machine!Wired,
      Machine!Status, Machine!TheWire, Machine!WindsDown, Machine!AllStuck,
      Machine!Stuck, Machine!PeerIsDevice, Machine!RecvDeviceBlocks,
      Machine!Peer, Machine!PeerPort, Machine!recv_ioBlocks,
      Machine!recv_stackBlocks, Machine!IO_IN, Machine!Unread,
      Machine!StepsLeft, Machine!procVars, Machine!schedVars
<1>2. [M!WindsDown]_(M!vars) <=> [Machine!WindsDown]_(Machine!vars)
  BY <1>1, SMT
  DEF M!vars, Machine!vars, M!devVars, Machine!devVars, M!schedVars, Machine!schedVars
<1> QED
  BY <1>2, PTL DEF M!StuckMachinesWindDown, Machine!StuckMachinesWindDown

LEMMA SameKeeping == M!NoTurnIsMissed <=> Machine!NoTurnIsMissed
<1>1. M!KeepsTurns <=> Machine!KeepsTurns
  BY Zenon
  DEF M!Proc, M!Node, M!At, M!PeerIsProc, M!Connected, M!PeerType, M!WireOf,
      M!Wired, M!Status, M!TheWire, M!KeepsTurns, M!CanGoOn, M!RecvsOn,
      M!SendsOn, Machine!Proc, Machine!Node, Machine!At, Machine!PeerIsProc,
      Machine!Connected, Machine!PeerType, Machine!WireOf, Machine!Wired,
      Machine!Status, Machine!TheWire, Machine!KeepsTurns, Machine!CanGoOn,
      Machine!RecvsOn, Machine!SendsOn
<1>2. [M!KeepsTurns]_(M!vars) <=> [Machine!KeepsTurns]_(Machine!vars)
  BY <1>1, SMT
  DEF M!vars, Machine!vars, M!devVars, Machine!devVars, M!schedVars, Machine!schedVars
<1> QED
  BY <1>2, PTL DEF M!NoTurnIsMissed, Machine!NoTurnIsMissed

LEMMA SameDraining == M!TurnsDrainWires <=> Machine!TurnsDrainWires
<1>1. M!DrainsWires <=> Machine!DrainsWires
  BY Zenon
  DEF M!Proc, M!Node, M!At, M!PeerIsProc, M!Connected, M!PeerType, M!WireOf,
      M!Wired, M!Status, M!TheWire, M!DrainsWires, M!Charge, M!Turn,
      M!RecvsOn, M!SendsOn, M!procVars, M!schedVars, Machine!Proc,
      Machine!Node, Machine!At, Machine!PeerIsProc, Machine!Connected,
      Machine!PeerType, Machine!WireOf, Machine!Wired, Machine!Status,
      Machine!TheWire, Machine!DrainsWires, Machine!Charge, Machine!Turn,
      Machine!RecvsOn, Machine!SendsOn, Machine!procVars, Machine!schedVars
<1>2. [M!DrainsWires]_(M!vars) <=> [Machine!DrainsWires]_(Machine!vars)
  BY <1>1, SMT
  DEF M!vars, Machine!vars, M!devVars, Machine!devVars, M!schedVars, Machine!schedVars
<1> QED
  BY <1>2, PTL DEF M!TurnsDrainWires, Machine!TurnsDrainWires

LEMMA SameNodedInit == M!Abstract!Init <=> Machine!Abstract!Init
BY Zenon
DEF
    M!Abstract!Init, M!Abstract!Proc, M!Abstract!Instr, M!Abstract!Fault,
    M!Abstract!DevicesInit, M!Abstract!Node, M!Abstract!PortIdx, M!Abstract!BufNode,
    M!Abstract!StackNode, M!Abstract!IO_OUT, M!Abstract!IO_ERR, M!Abstract!PORT_MAX,
    M!instrBar, M!Proc, M!HasLeft, M!Node, M!At, M!PeerIsProc, M!Status, M!TheWire,
    M!Connected, M!PeerType, M!WireOf, M!Wired,
    Machine!Abstract!Init, Machine!Abstract!Proc, Machine!Abstract!Instr,
    Machine!Abstract!Fault, Machine!Abstract!DevicesInit, Machine!Abstract!Node,
    Machine!Abstract!PortIdx, Machine!Abstract!BufNode, Machine!Abstract!StackNode,
    Machine!Abstract!IO_OUT, Machine!Abstract!IO_ERR, Machine!Abstract!PORT_MAX,
    Machine!instrBar, Machine!Proc, Machine!HasLeft, Machine!Node, Machine!At,
    Machine!PeerIsProc, Machine!Status, Machine!TheWire, Machine!Connected,
    Machine!PeerType, Machine!WireOf, Machine!Wired

LEMMA SameNodedNext == M!Abstract!Next <=> Machine!Abstract!Next
BY Zenon
DEF
    M!Abstract!Next, M!Abstract!Proc, M!Abstract!Step, M!Abstract!Breaks,
    M!Abstract!Write, M!Abstract!Read, M!Abstract!Rendezvous, M!Abstract!Overflow,
    M!Abstract!Finish, M!Abstract!Console, M!Abstract!Node, M!Abstract!At,
    M!Abstract!Goes, M!Abstract!Byte, M!Abstract!devVars, M!Abstract!Connected,
    M!Abstract!PeerIsDevice, M!Abstract!SendDeviceFails, M!Abstract!Peer,
    M!Abstract!PeerPort, M!Abstract!RecvDeviceFails, M!Abstract!Dies,
    M!Abstract!SendDevice, M!Abstract!RecvDevice, M!Abstract!Fault, M!Abstract!Meet,
    M!Abstract!Ready, M!Abstract!Waits, M!Abstract!WriteStdin, M!Abstract!CloseStdin,
    M!Abstract!Wired, M!Abstract!PeerType, M!Abstract!send_ioFails, M!Abstract!bufFails,
    M!Abstract!send_stackFails, M!Abstract!recv_ioFails, M!Abstract!send_io,
    M!Abstract!send_buf, M!Abstract!send_stack, M!Abstract!recv_io, M!Abstract!recv_buf,
    M!Abstract!recv_stack, M!Abstract!PeerIsProc, M!Abstract!TheWire,
    M!Abstract!RecvDeviceBlocks, M!Abstract!IO_OUT, M!Abstract!IO_ERR,
    M!Abstract!BUFFER_ELM, M!Abstract!BUFFER_IDX, M!Abstract!IO_IN, M!Abstract!Unread,
    M!Abstract!WireOf, M!Abstract!recv_ioBlocks, M!Abstract!recv_stackBlocks,
    M!instrBar, M!Proc, M!HasLeft, M!Node, M!At, M!PeerIsProc, M!Status, M!TheWire,
    M!Connected, M!PeerType, M!WireOf, M!Wired,
    Machine!Abstract!Next, Machine!Abstract!Proc, Machine!Abstract!Step,
    Machine!Abstract!Breaks, Machine!Abstract!Write, Machine!Abstract!Read,
    Machine!Abstract!Rendezvous, Machine!Abstract!Overflow, Machine!Abstract!Finish,
    Machine!Abstract!Console, Machine!Abstract!Node, Machine!Abstract!At,
    Machine!Abstract!Goes, Machine!Abstract!Byte, Machine!Abstract!devVars,
    Machine!Abstract!Connected, Machine!Abstract!PeerIsDevice,
    Machine!Abstract!SendDeviceFails, Machine!Abstract!Peer, Machine!Abstract!PeerPort,
    Machine!Abstract!RecvDeviceFails, Machine!Abstract!Dies,
    Machine!Abstract!SendDevice, Machine!Abstract!RecvDevice, Machine!Abstract!Fault,
    Machine!Abstract!Meet, Machine!Abstract!Ready, Machine!Abstract!Waits,
    Machine!Abstract!WriteStdin, Machine!Abstract!CloseStdin, Machine!Abstract!Wired,
    Machine!Abstract!PeerType, Machine!Abstract!send_ioFails, Machine!Abstract!bufFails,
    Machine!Abstract!send_stackFails, Machine!Abstract!recv_ioFails,
    Machine!Abstract!send_io, Machine!Abstract!send_buf, Machine!Abstract!send_stack,
    Machine!Abstract!recv_io, Machine!Abstract!recv_buf, Machine!Abstract!recv_stack,
    Machine!Abstract!PeerIsProc, Machine!Abstract!TheWire,
    Machine!Abstract!RecvDeviceBlocks, Machine!Abstract!IO_OUT, Machine!Abstract!IO_ERR,
    Machine!Abstract!BUFFER_ELM, Machine!Abstract!BUFFER_IDX, Machine!Abstract!IO_IN,
    Machine!Abstract!Unread, Machine!Abstract!WireOf, Machine!Abstract!recv_ioBlocks,
    Machine!Abstract!recv_stackBlocks, Machine!instrBar, Machine!Proc, Machine!HasLeft,
    Machine!Node, Machine!At, Machine!PeerIsProc, Machine!Status, Machine!TheWire,
    Machine!Connected, Machine!PeerType, Machine!WireOf, Machine!Wired

LEMMA SameNoded == M!ImplementsNoded <=> Machine!ImplementsNoded
<1>1. [M!Abstract!Next]_(M!Abstract!vars)
        <=> [Machine!Abstract!Next]_(Machine!Abstract!vars)
  BY SameNodedNext, SMTT(30) DEF M!Abstract!vars, Machine!Abstract!vars,
    M!Abstract!devVars, Machine!Abstract!devVars, M!instrBar,
    Machine!instrBar, M!Proc, Machine!Proc, M!HasLeft, Machine!HasLeft,
    M!Node, Machine!Node, M!At, Machine!At, M!PeerIsProc, Machine!PeerIsProc,
    M!Status, Machine!Status, M!TheWire, Machine!TheWire, M!Connected,
    Machine!Connected, M!PeerType, Machine!PeerType, M!WireOf, Machine!WireOf,
    M!Wired, Machine!Wired
<1> QED
  BY <1>1, SameNodedInit, PTL
  DEF M!ImplementsNoded, Machine!ImplementsNoded, M!Abstract!Spec, Machine!Abstract!Spec

(* The virtual machine returns from run() only when none of the processors *)
(* could ever go on, whatever bytecode they execute, if its ports are      *)
(* one-way.                                                                *)
THEOREM CodeExitsQuiescent ==
  ASSUME CodesAreWellFormed, Machine!OneWay
  PROVE  Spec => []Machine!QuiescentExit
<1>1. M!Spec => []M!QuiescentExit
  BY M!ExitIsQuiescent, MachineAssumptions, SameOneWay
<1>2. M!QuiescentExit => Machine!QuiescentExit
  BY SameExit
<1> QED
  BY <1>1, <1>2, Refinement, SameSpec, PTL DEF ImplementsVM

(* And it is the concurrent nodes of SPEC.md that it executes: whatever    *)
(* the bytecode of the processors is, the turns of run() and the handshake *)
(* on the wires cannot be told from nodes that run side by side and pass   *)
(* each message in a rendezvous.                                           *)
THEOREM CodeRefinesNoded ==
  ASSUME CodesAreWellFormed, Machine!OneWay
  PROVE  Spec => CodeImplementsNoded
<1>1. M!Spec => M!ImplementsNoded
  BY M!Refinement, MachineAssumptions, SameOneWay
<1> QED
  BY <1>1, Refinement, SameSpec, SameNoded, PTL DEF ImplementsVM, CodeImplementsNoded

(* Whatever the bytecode, with one-way ports or without, run() returns     *)
(* within two rounds once all processors are stuck; no processor that a    *)
(* wire lets go on is left out or ends its turn where it is; and no turn   *)
(* takes more than two steps on each wire.                                 *)
THEOREM CodeTurns ==
  ASSUME CodesAreWellFormed
  PROVE  Spec => /\ Machine!StuckMachinesWindDown
                 /\ Machine!NoTurnIsMissed
                 /\ Machine!TurnsDrainWires
<1>1. M!Spec => M!StuckMachinesWindDown /\ M!NoTurnIsMissed /\ M!TurnsDrainWires
  BY M!WindingDown, M!TurnsAreKept, M!TurnsDrain, MachineAssumptions
<1> QED
  BY <1>1, Refinement, SameSpec, SameWinding, SameKeeping, SameDraining, PTL
  DEF ImplementsVM
=============================================================================
