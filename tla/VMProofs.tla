------------------------------ MODULE VMProofs ------------------------------
(***************************************************************************)
(* Proofs about module VM, for every program, every topology and every     *)
(* bound.                                                                  *)
(***************************************************************************)
EXTENDS VM, MachineProofs

(* What the port table says of the peer of a processor.                    *)
LEMMA PeerFacts ==
  ASSUME NEW n \in Proc, Connected(n)
  PROVE  TheWire(n) \in Wire /\ Peer(n) \in Node /\ PeerPort(n) \in PortIdx
BY TopologyAssumption DEF TopologyOK, Connected, Wired, TheWire, WireOf, Peer, PeerPort, PortRec

(* The instruction at isp is one of the program, unless it is a fault.     *)
LEMMA InstrFacts ==
  ASSUME TypeOK, NEW n \in Proc
  PROVE  /\ instr[n] \in Instr
         /\ At(n, "send") => /\ instr[n].port \in PortIdx
                             /\ instr[n] = Send(instr[n].port)
                             /\ instr[n] \in Program[n]
         /\ At(n, "recv") => /\ instr[n].port \in PortIdx
                             /\ instr[n] = Recv(instr[n].port)
                             /\ instr[n] \in Program[n]
BY DEF TypeOK, ProcType, Instr, Local, Halt, Fault, Send, Recv, At

-----------------------------------------------------------------------------
(* Type correctness.                                                       *)

LEMMA TypeInit == Init => TypeOK
<1> SUFFICES ASSUME Init PROVE TypeOK
  OBVIOUS
<1>1. ProcType
  BY LimitsAssumption DEF Init, ProcType, Byte
<1> QED
  BY <1>1, PartsInit DEF Init, TypeOK

LEMMA AdvanceType ==
  ASSUME ProcType, NEW n \in Proc, NEW V, V \subseteq Byte, Advance(n, V)
  PROVE  ProcType'
<1>1. PICK c \in Program[n] : instr' = [instr EXCEPT ![n] = c]
  BY DEF Advance
<1>2. PICK v \in V : top' = [top EXCEPT ![n] = v]
  BY DEF Advance
<1>3. c \in Instr
  BY ProgramAssumption
<1> QED
  BY <1>1, <1>2, <1>3 DEF ProcType

(* The parts that an action leaves alone stay as they are.                 *)
LEMMA Unchanged ==
  ASSUME TypeOK
  PROVE  /\ UNCHANGED procVars => ProcType'
         /\ UNCHANGED wires => WiresType'
         /\ UNCHANGED devVars => DevicesType'
         /\ UNCHANGED schedVars => SchedulerType'
<1>1. UNCHANGED procVars => ProcType'
  BY DEF TypeOK, ProcType, procVars
<1> QED
  BY <1>1, PartsUnchanged DEF TypeOK

LEMMA TickType ==
  ASSUME TypeOK, NEW n \in Proc, tick(n)
  PROVE  TypeOK'
<1> USE DEF TypeOK
<1>1. ProcType /\ WiresType /\ DevicesType /\ SchedulerType
  OBVIOUS
<1>2. top[n] \in Byte /\ \A w \in Wire : wires[w].buf \in Byte
  BY DEF ProcType, WiresType
<1>3. Turn(n)
  BY DEF tick, Compute, HaltHere, Crash, Offer, AwaitAck, Resume, Take,
         AwaitMessage, Write, Read, AwaitDevice
<1>a. ASSUME NEW V, V \subseteq Byte, Advance(n, V)
      PROVE  ProcType' /\ SchedulerType'
  <2>1. TickTrue
    BY <1>a DEF Advance
  <2> QED
    BY <1>a, <1>1, <1>3, <2>1, AdvanceType, TurnType
<1>b. Block \/ Fail => ProcType' /\ SchedulerType'
  BY <1>1, <1>3, TurnType, Unchanged DEF Block, Fail
<1>c. ASSUME NEW dat \in Byte, PushReceived(n, dat)
      PROVE  ProcType' /\ SchedulerType'
  BY <1>a, <1>b, <1>c DEF PushReceived
<1>4. CASE Compute(n)
  BY <1>4, <1>a, Unchanged DEF Compute
<1>5. CASE HaltHere(n)
  BY <1>5, <1>b, Unchanged DEF HaltHere
<1>6. CASE Crash(n)
  BY <1>6, <1>b, Unchanged DEF Crash
<1>7. CASE Offer(n)
  BY <1>7, <1>1, <1>2, <1>b, Unchanged, PeerFacts, WireFacts DEF Offer, PeerIsProc
<1>8. CASE AwaitAck(n)
  BY <1>8, <1>b, Unchanged DEF AwaitAck, StillFull
<1>9. CASE Resume(n)
  <2>1. TheWire(n) \in Wire
    BY <1>9, PeerFacts DEF Resume, PeerIsProc
  <2>2. WiresType'
    BY <1>9, <1>1, <1>2, <2>1, WireFacts DEF Resume
  <2> QED
    BY <1>9, <1>a, <2>2, Unchanged DEF Resume
<1>10. CASE Take(n)
  <2>1. TheWire(n) \in Wire
    BY <1>10, PeerFacts DEF Take, PeerIsProc
  <2>2. WiresType'
    BY <1>10, <1>1, <1>2, <2>1, WireFacts DEF Take
  <2> QED
    BY <1>10, <1>2, <1>c, <2>1, <2>2, Unchanged DEF Take
<1>11. CASE AwaitMessage(n)
  BY <1>11, <1>b, Unchanged DEF AwaitMessage, NothingToRead
<1>12. CASE Write(n)
  <2>1. Peer(n) \in Node /\ PeerPort(n) \in PortIdx
    BY <1>12, PeerFacts DEF Write, PeerIsDevice
  <2>2. DevicesType'
    BY <1>12, <1>1, <1>2, <2>1, SendDeviceType, Unchanged DEF Write
  <2>3. WiresType'
    BY <1>12, Unchanged DEF Write
  <2> QED
    BY <1>12, <1>a, <1>b, <2>2, <2>3 DEF Write
<1>13. CASE Read(n)
  <2>1. Peer(n) \in Node /\ PeerPort(n) \in PortIdx
    BY <1>13, PeerFacts DEF Read, PeerIsDevice
  <2>2. DevicesType'
    BY <1>13, <1>1, <2>1, RecvDeviceType, Unchanged DEF Read
  <2>3. WiresType'
    BY <1>13, Unchanged DEF Read
  <2> QED
    BY <1>13, <1>b, <1>c, <2>2, <2>3 DEF Read
<1>14. CASE AwaitDevice(n)
  BY <1>14, <1>b, Unchanged DEF AwaitDevice
<1> QED
  BY <1>4, <1>5, <1>6, <1>7, <1>8, <1>9, <1>10, <1>11, <1>12, <1>13, <1>14
  DEF tick

LEMMA TypeNext == TypeOK /\ [Next]_vars => TypeOK'
<1> SUFFICES ASSUME TypeOK, [Next]_vars PROVE TypeOK'
  OBVIOUS
<1>1. CASE run
  <2>1. ProcType' /\ WiresType' /\ DevicesType'
    BY <1>1, Unchanged DEF run
  <2>2. SchedulerType'
    BY <1>1, RunType DEF run, TypeOK
  <2> QED
    BY <2>1, <2>2 DEF TypeOK
<1>2. CASE Console
  BY <1>2, Unchanged, ConsoleType DEF Console, TypeOK
<1>3. CASE UNCHANGED vars
  BY <1>3, Unchanged DEF vars, procVars, devVars, schedVars, TypeOK
<1>4. CASE \E n \in Proc : tick(n)
  BY <1>4, TickType
<1> QED
  BY <1>1, <1>2, <1>3, <1>4 DEF Next, Interpreter, Exited

(* Every part of the machine is well formed at every step.                 *)
THEOREM TypeCorrect == Spec => []TypeOK
BY TypeInit, TypeNext, PTL DEF Spec

-----------------------------------------------------------------------------
(* The inductive invariant.                                                *)

(* A turn leaves the other processors alone.                               *)
LEMMA OthersRest ==
  ASSUME TypeOK, NEW n \in Proc, tick(n), NEW m \in Proc, m # n
  PROVE  instr'[m] = instr[m] /\ top'[m] = top[m]
<1>1. ASSUME NEW V, Advance(n, V) PROVE instr'[m] = instr[m] /\ top'[m] = top[m]
  BY <1>1 DEF Advance, TypeOK, ProcType
<1>2. Block \/ Fail => instr'[m] = instr[m] /\ top'[m] = top[m]
  BY DEF Block, Fail, procVars
<1>3. (\E V : Advance(n, V)) \/ Block \/ Fail
  BY DEF tick, Compute, HaltHere, Crash, Offer, AwaitAck, Resume, Take,
         AwaitMessage, Write, Read, AwaitDevice, PushReceived
<1> QED
  BY <1>1, <1>2, <1>3

(* How a tick() that was called for processor n ended.                     *)
LEMMA TickEnds ==
  ASSUME NEW n \in Proc, tick(n)
  PROVE  /\ Turn(n)
         /\ \/ TickTrue
            \/ Block
            \/ Fail
BY DEF tick, Compute, HaltHere, Crash, Offer, AwaitAck, Resume, Take,
       AwaitMessage, Write, Read, AwaitDevice, PushReceived, Advance

(* A processor that sends on a wire is at no other instruction.            *)
LEMMA OnlyOne ==
  ASSUME NEW n \in Proc, NEW w, SendsOn(n, w)
  PROVE  /\ TheWire(n) = w /\ PeerIsProc(n) /\ ~PeerIsDevice(n) /\ Connected(n)
         /\ At(n, "send") /\ ~At(n, "recv") /\ ~At(n, "local")
         /\ ~At(n, "halt") /\ ~At(n, "fault")
BY DEF SendsOn, At, PeerIsProc, PeerIsDevice

LEMMA Sender ==
  ASSUME TypeOK, NEW n \in Proc, NEW w, SendsOn(n, w)
  PROVE  MaySendOn(n, w)
BY InstrFacts DEF SendsOn, MaySendOn, MayUse, PeerIsProc, Connected, Wired,
                  TheWire, Send

LEMMA Receiver ==
  ASSUME TypeOK, NEW n \in Proc, NEW w, RecvsOn(n, w)
  PROVE  MayRecvOn(n, w)
BY InstrFacts DEF RecvsOn, MayRecvOn, MayUse, PeerIsProc, Connected, Wired,
                  TheWire, Recv

LEMMA MessageNext ==
  ASSUME TypeOK, MessageHasItsSender, NEW n \in Proc, tick(n)
  PROVE  MessageHasItsSender'
<1> SUFFICES ASSUME NEW w \in Wire, Status(w)' # "EMPTY"
             PROVE  \E m \in Proc : SendsOn(m, w)' /\ top'[m] = wires'[w].buf
  BY DEF MessageHasItsSender
<1>1. ASSUME Status(w) # "EMPTY", wires'[w].buf = wires[w].buf,
             SendsOn(n, w) => UNCHANGED procVars
      PROVE  \E m \in Proc : SendsOn(m, w)' /\ top'[m] = wires'[w].buf
  <2>1. PICK m \in Proc : SendsOn(m, w) /\ top[m] = wires[w].buf
    BY <1>1 DEF MessageHasItsSender
  <2>2. instr'[m] = instr[m] /\ top'[m] = top[m]
    BY <1>1, <2>1, OthersRest DEF procVars
  <2> QED
    BY <1>1, <2>1, <2>2 DEF SendsOn, At, PeerIsProc, Connected, TheWire
<1>2. CASE HaltHere(n) \/ Crash(n) \/ AwaitAck(n) \/ AwaitMessage(n) \/ AwaitDevice(n)
  BY <1>1, <1>2 DEF HaltHere, Crash, AwaitAck, AwaitMessage, AwaitDevice,
                    StillFull, NothingToRead, Block, Fail, Status
<1>3. CASE Compute(n) \/ Write(n) \/ Read(n)
  <2>1. UNCHANGED wires
    BY <1>3 DEF Compute, Write, Read
  <2>2. ~SendsOn(n, w)
    BY <1>3, OnlyOne DEF Compute, Write, Read
  <2> QED
    BY <1>1, <2>1, <2>2 DEF Status
<1>4. CASE Offer(n)
  <2>1. TheWire(n) \in Wire
    BY <1>4, PeerFacts DEF Offer, PeerIsProc
  <2>2. CASE w = TheWire(n)
    <3>1. SendsOn(n, w)' /\ top'[n] = wires'[w].buf
      BY <1>4, <2>1, <2>2
      DEF Offer, Block, procVars, FillWire, SendsOn, At, PeerIsProc, Connected,
          TheWire, TypeOK, WiresType
    <3> QED
      BY <3>1
  <2>3. CASE w # TheWire(n)
    BY <1>1, <1>4, <2>1, <2>3
    DEF Offer, Block, FillWire, Status, TypeOK, WiresType
  <2> QED
    BY <2>2, <2>3
<1>5. CASE Resume(n)
  <2>1. TheWire(n) \in Wire
    BY <1>5, PeerFacts DEF Resume, PeerIsProc
  <2>2. w # TheWire(n)
    BY <1>5, <2>1 DEF Resume, ResetWire, Status, TypeOK, WiresType
  <2> QED
    BY <1>1, <1>5, <2>1, <2>2, OnlyOne
    DEF Resume, ResetWire, Status, TypeOK, WiresType
<1>6. CASE Take(n)
  <2>1. TheWire(n) \in Wire /\ ~SendsOn(n, w)
    BY <1>6, PeerFacts, OnlyOne DEF Take, PeerIsProc
  <2>2. Status(w) # "EMPTY" /\ wires'[w].buf = wires[w].buf
    BY <1>6, <2>1 DEF Take, ConsumeWire, Status, TypeOK, WiresType
  <2> QED
    BY <1>1, <2>1, <2>2
<1> QED
  BY <1>2, <1>3, <1>4, <1>5, <1>6 DEF tick

LEMMA AckNext ==
  ASSUME TypeOK, AckHasItsReader, NEW n \in Proc, tick(n)
  PROVE  AckHasItsReader'
<1> SUFFICES ASSUME NEW w \in Wire, Status(w)' = "CONSUMED"
             PROVE  \E r \in Proc : MayRecvOn(r, w)
  BY DEF AckHasItsReader, MayRecvOn, MayUse
<1>1. CASE Status(w) = "CONSUMED"
  BY <1>1 DEF AckHasItsReader
<1>2. CASE Status(w) # "CONSUMED"
  <2>1. Take(n)
    <3>1. CASE Offer(n)
      <4>1. TheWire(n) \in Wire
        BY <3>1, PeerFacts DEF Offer, PeerIsProc
      <4> QED
        BY <1>2, <3>1, <4>1 DEF Offer, FillWire, Status, TypeOK, WiresType
    <3>2. CASE Resume(n)
      <4>1. TheWire(n) \in Wire
        BY <3>2, PeerFacts DEF Resume, PeerIsProc
      <4> QED
        BY <1>2, <3>2, <4>1 DEF Resume, ResetWire, Status, TypeOK, WiresType
    <3>3. CASE UNCHANGED wires
      BY <1>2, <3>3 DEF Status
    <3> QED
      BY <3>1, <3>2, <3>3
      DEF tick, Compute, HaltHere, Crash, AwaitAck, AwaitMessage, Write, Read,
          AwaitDevice, StillFull, NothingToRead
  <2>2. TheWire(n) \in Wire
    BY <2>1, PeerFacts DEF Take, PeerIsProc
  <2>3. w = TheWire(n)
    BY <1>2, <2>1, <2>2 DEF Take, ConsumeWire, Status, TypeOK, WiresType
  <2>4. RecvsOn(n, w)
    BY <2>1, <2>3 DEF Take, RecvsOn
  <2> QED
    BY <2>4, Receiver
<1> QED
  BY <1>1, <1>2

(* This is where a wire with two senders would break the machine.          *)
LEMMA OffersNext ==
  ASSUME OneWay, TypeOK, AckHasItsReader, OffersEndATurn, NEW n \in Proc, tick(n)
  PROVE  OffersEndATurn'
<1> SUFFICES ASSUME NEW m \in Proc, NEW w \in Wire,
                    SendsOn(m, w)', Status(w)' = "EMPTY"
             PROVE  i' = m /\ ticked'
  BY DEF OffersEndATurn
<1>1. Turn(n) /\ i = n
  BY TickEnds DEF Turn
<1>2. ASSUME SendsOn(m, w), Status(w) = "EMPTY"
      PROVE  m = n /\ ticked
  BY <1>1, <1>2 DEF OffersEndATurn
<1>3. m # n => SendsOn(m, w)
  BY OthersRest DEF SendsOn, At, PeerIsProc, Connected, TheWire
<1>4. CASE UNCHANGED wires /\ Block
  <2>1. SendsOn(n, w) /\ Status(w) = "EMPTY"
    BY <1>2, <1>3, <1>4
    DEF Block, procVars, Status, SendsOn, At, PeerIsProc, Connected, TheWire
  <2>2. At(n, "send") /\ PeerIsProc(n) /\ TheWire(n) = w
    BY <2>1, OnlyOne
  <2>3. Offer(n)
    BY <1>4, <2>1, <2>2, OnlyOne
    DEF tick, Compute, HaltHere, Crash, AwaitAck, AwaitMessage, AwaitDevice,
        Write, Read, Resume, Take, StillFull, Status, ResetWire
  <2>4. w \in Wire /\ wires' = wires
    BY <1>4
  <2> QED
    BY <2>1, <2>2, <2>3, <2>4 DEF Offer, FillWire, Status, TypeOK, WiresType
<1>5. CASE UNCHANGED wires /\ Fail
  <2>1. SendsOn(m, w) /\ Status(w) = "EMPTY"
    BY <1>5
    DEF Fail, procVars, Status, SendsOn, At, PeerIsProc, Connected, TheWire
  <2> QED
    BY <1>1, <1>2, <1>5, <2>1, Zenon DEF Fail, Abort
<1>6. CASE UNCHANGED wires /\ TickTrue
  <2>1. m = n
    BY <1>2, <1>3, <1>6 DEF Status
  <2> QED
    BY <1>1, <1>6, <2>1, Zenon DEF TickTrue
<1>7. CASE Offer(n)
  <2>1. TheWire(n) \in Wire /\ SendsOn(n, TheWire(n))
    BY <1>7, PeerFacts DEF Offer, PeerIsProc, SendsOn
  <2>2. w # TheWire(n) /\ Status(w) = "EMPTY"
    BY <1>7, <2>1 DEF Offer, FillWire, Status, TypeOK, WiresType
  <2>3. SendsOn(m, w)
    BY <1>7
    DEF Offer, Block, procVars, SendsOn, At, PeerIsProc, Connected, TheWire
  <2> QED
    BY <1>2, <2>2, <2>3 DEF SendsOn
<1>8. CASE Resume(n)
  <2>1. TheWire(n) \in Wire /\ SendsOn(n, TheWire(n))
    BY <1>8, PeerFacts DEF Resume, PeerIsProc, SendsOn
  <2>2. m = n
    <3>1. CASE w = TheWire(n)
      <4>1. \E r \in Proc : MayRecvOn(r, w)
        BY <1>8, <3>1 DEF Resume, ResetWire, AckHasItsReader
      <4> QED
        BY <1>3, <2>1, <3>1, <4>1, Sender DEF OneWay
    <3>2. CASE w # TheWire(n)
      <4>1. Status(w) = "EMPTY"
        BY <1>8, <2>1, <3>2 DEF Resume, ResetWire, Status, TypeOK, WiresType
      <4> QED
        BY <1>2, <1>3, <4>1
    <3> QED
      BY <3>1, <3>2
  <2>3. TickTrue
    BY <1>8 DEF Resume, Advance
  <2> QED
    BY <1>1, <2>2, <2>3, Zenon DEF TickTrue
<1>9. CASE Take(n)
  <2>1. TheWire(n) \in Wire
    BY <1>9, PeerFacts DEF Take, PeerIsProc
  <2>2. Status(w) = "EMPTY"
    BY <1>9, <2>1 DEF Take, ConsumeWire, Status, TypeOK, WiresType
  <2>3. CASE TickTrue
    <3>1. m = n
      BY <1>2, <1>3, <2>2
    <3> QED
      BY <1>1, <2>3, <3>1, Zenon DEF TickTrue
  <2>4. CASE Fail
    <3>1. SendsOn(m, w)
      BY <2>4 DEF Fail, procVars, SendsOn, At, PeerIsProc, Connected, TheWire
    <3> QED
      BY <1>1, <1>2, <2>2, <2>4, <3>1, Zenon DEF Fail, Abort
  <2> QED
    BY <1>9, <2>3, <2>4 DEF Take, PushReceived, Advance
<1>10. UNCHANGED wires \/ Offer(n) \/ Resume(n) \/ Take(n)
  BY DEF tick, Compute, HaltHere, Crash, AwaitAck, AwaitMessage, Write, Read,
         AwaitDevice, StillFull, NothingToRead
<1> QED
  BY <1>4, <1>5, <1>6, <1>7, <1>8, <1>9, <1>10, TickEnds

(* Being stuck depends on nothing but a processor's own instruction, the   *)
(* wires and the devices.                                                  *)
LEMMA StuckStays ==
  ASSUME NEW m \in Proc, Stuck(m), instr'[m] = instr[m], UNCHANGED <<wires, devVars>>
  PROVE  Stuck(m)'
BY DEF Stuck, At, PeerIsProc, PeerIsDevice, Connected, TheWire, Peer, PeerPort,
       Status, RecvDeviceBlocks, recv_ioBlocks, recv_stackBlocks, Unread, devVars

(* A tick() that returned false left its processor stuck, unless it was    *)
(* the one that filled a wire.                                             *)
LEMMA BlockedIsStuck ==
  ASSUME TypeOK, NEW n \in Proc, tick(n), Block, ~Offer(n)
  PROVE  Stuck(n) /\ UNCHANGED <<wires, devVars>>
<1>1. ~TickTrue /\ ~Abort
  BY TopologyAssumption DEF TopologyOK, Block, TickFalse, TickTrue, Abort, TypeOK, SchedulerType, Node
<1>2. HaltHere(n) \/ AwaitAck(n) \/ AwaitMessage(n) \/ AwaitDevice(n)
  BY <1>1 DEF tick, Compute, Crash, Resume, Take, Write, Read, PushReceived,
              Advance, Fail
<1> QED
  BY <1>2 DEF HaltHere, AwaitAck, AwaitMessage, AwaitDevice, StillFull,
              NothingToRead, Stuck, Status

LEMMA IdleNext ==
  ASSUME TypeOK, OffersEndATurn, IdleSoFar, NEW n \in Proc, tick(n),
         exit' # "error"
  PROVE  IdleSoFar'
<1> SUFFICES ASSUME ~progressed', ~ticked', NEW m \in Proc, m < i'
             PROVE  Stuck(m)'
  BY DEF IdleSoFar
<1>1. Turn(n) /\ Block
  BY TickEnds, Zenon DEF TickTrue, Fail, Abort
<1>2. ~progressed /\ ~ticked
  BY <1>1, Zenon DEF Block, TickFalse
<1>3. i = n /\ i' = i + 1 /\ n \in Nat /\ m \in Nat
  BY <1>1 DEF Turn, Block, TickFalse, Proc, Node
<1>4. ~Offer(n)
  <2>1. SUFFICES ASSUME Offer(n) PROVE FALSE
    OBVIOUS
  <2>2. TheWire(n) \in Wire /\ SendsOn(n, TheWire(n)) /\ Status(TheWire(n)) = "EMPTY"
    BY <2>1, PeerFacts DEF Offer, PeerIsProc, SendsOn, FillWire
  <2> QED
    BY <1>2, <2>2 DEF OffersEndATurn
<1>5. Stuck(n) /\ UNCHANGED <<wires, devVars>>
  BY <1>1, <1>4, BlockedIsStuck
<1>6. Stuck(m)
  <2>1. m < i \/ m = n
    BY <1>3
  <2> QED
    BY <1>2, <1>5, <2>1 DEF IdleSoFar
<1>7. instr'[m] = instr[m]
  BY <1>1 DEF Block, procVars
<1> QED
  BY <1>5, <1>6, <1>7, StuckStays

-----------------------------------------------------------------------------
LEMMA InvInit == Init => IInv
<1> SUFFICES ASSUME Init PROVE IInv
  OBVIOUS
<1>1. TypeOK
  BY TypeInit
<1>2. \A w \in Wire : Status(w) = "EMPTY"
  BY DEF Init, WiresInit, Status
<1>3. \A n \in Proc : ~At(n, "send")
  BY DEF Init, At, Fault
<1>4. i = 0 /\ ~ticked /\ exit = "running"
  BY DEF Init, SchedulerInit
<1>5. MessageHasItsSender /\ AckHasItsReader
  BY <1>2 DEF MessageHasItsSender, AckHasItsReader
<1>6. OffersEndATurn
  BY <1>3 DEF OffersEndATurn, SendsOn
<1>7. IdleSoFar
  BY <1>4 DEF IdleSoFar, Proc, Node
<1> QED
  BY <1>1, <1>4, <1>5, <1>6, <1>7 DEF IInv, TurnIsOpen, QuiescentExit

LEMMA TickInv ==
  ASSUME OneWay, IInv, NEW n \in Proc, tick(n)
  PROVE  IInv'
<1>1. TypeOK /\ MessageHasItsSender /\ AckHasItsReader /\ OffersEndATurn
  BY DEF IInv
<1>2. exit = "running" /\ i = n
  BY TickEnds DEF Turn
<1>3. TypeOK'
  BY <1>1, TickType
<1>4. MessageHasItsSender' /\ AckHasItsReader' /\ OffersEndATurn'
  BY <1>1, MessageNext, AckNext, OffersNext
<1>5. exit' # "error" => IdleSoFar'
  BY <1>1, <1>2, IdleNext DEF IInv
<1>6. TurnIsOpen'
  <2>1. CASE TickTrue \/ Fail
    BY <1>2, <2>1 DEF TickTrue, Fail, Abort, TurnIsOpen
  <2>2. CASE Block
    BY <2>2 DEF Block, TickFalse, TurnIsOpen
  <2> QED
    BY <2>1, <2>2, TickEnds
<1>7. exit' # "done"
  BY <1>2, TickEnds DEF TickTrue, Block, TickFalse, Fail, Abort
<1> QED
  BY <1>3, <1>4, <1>5, <1>6, <1>7 DEF IInv, QuiescentExit

(* Nothing that the scheduler or the console does disturbs the handshakes. *)
LEMMA QuietStep ==
  ASSUME UNCHANGED <<procVars, wires>>
  PROVE  /\ MessageHasItsSender => MessageHasItsSender'
         /\ AckHasItsReader => AckHasItsReader'
         /\ \A n \in Proc : \A w \in Wire :
              (SendsOn(n, w)' <=> SendsOn(n, w)) /\ (Status(w)' = Status(w))
BY DEF procVars, MessageHasItsSender, AckHasItsReader, MayRecvOn, MayUse, SendsOn, At,
       PeerIsProc, Connected, TheWire, Status

LEMMA RunInv ==
  ASSUME IInv, run
  PROVE  IInv'
<1>1. TypeOK'
  BY TypeNext DEF IInv, Next, Interpreter
<1>2. MessageHasItsSender' /\ AckHasItsReader'
  BY QuietStep DEF IInv, run
<1>3. i \notin Proc /\ i \in 0 .. NNodes /\ NNodes \in Nat /\ exit = "running"
  BY TopologyAssumption
  DEF TopologyOK, run, SkipNode, NextRound, Return, Proc, Node, IInv, TypeOK, SchedulerType
<1>4. ~ticked
  BY <1>3 DEF IInv, TurnIsOpen
<1>5. OffersEndATurn'
  BY <1>3, QuietStep DEF IInv, run, OffersEndATurn
<1>6. TurnIsOpen'
  BY <1>4, Zenon DEF run, SkipNode, NextRound, Return, TurnIsOpen
<1>7. \A m \in Proc : Stuck(m) => Stuck(m)'
  BY StuckStays DEF run, procVars
<1>8. IdleSoFar'
  <2>1. CASE SkipNode
    <3>1. ~progressed' => ~progressed
      BY <2>1, Zenon DEF SkipNode
    <3>2. \A m \in Proc : m < i' => m < i
      BY <1>3, <2>1 DEF SkipNode, Proc, Node
    <3> QED
      BY <1>3, <1>4, <1>7, <3>1, <3>2 DEF IInv, IdleSoFar
  <2>2. CASE NextRound
    BY <2>2 DEF NextRound, IdleSoFar, Proc, Node
  <2>3. CASE Return
    BY <1>3, <1>4, <1>7, <2>3 DEF Return, IInv, IdleSoFar
  <2> QED
    BY <2>1, <2>2, <2>3 DEF run
<1>9. QuiescentExit'
  <2>1. CASE Return
    <3>1. \A m \in Proc : m < i
      BY <1>3, <2>1 DEF Return, Proc, Node
    <3>2. AllStuck
      BY <1>3, <1>4, <2>1, <3>1 DEF Return, IInv, IdleSoFar, AllStuck
    <3> QED
      BY <1>7, <3>2 DEF QuiescentExit, AllStuck
  <2>2. CASE SkipNode \/ NextRound
    BY <1>3, <2>2 DEF SkipNode, NextRound, QuiescentExit
  <2> QED
    BY <2>1, <2>2 DEF run
<1> QED
  BY <1>1, <1>2, <1>5, <1>6, <1>8, <1>9 DEF IInv

LEMMA ConsoleInv ==
  ASSUME IInv, Console
  PROVE  IInv'
<1>1. TypeOK'
  BY TypeNext DEF IInv, Next
<1>2. MessageHasItsSender' /\ AckHasItsReader'
  BY QuietStep DEF IInv, Console
<1>3. OffersEndATurn' /\ TurnIsOpen'
  BY QuietStep DEF IInv, Console, schedVars, OffersEndATurn, TurnIsOpen
<1>4. exit = "running" /\ exit' = exit /\ i' = i
      /\ progressed' = progressed /\ ticked' = ticked
  BY DEF Console, schedVars
<1>5. \A m \in Proc : Stuck(m) => Stuck(m)'
  BY DEF Console, WriteStdin, CloseStdin, procVars, Stuck, At, PeerIsProc,
         PeerIsDevice, Connected, TheWire, Peer, PeerPort, Status,
         RecvDeviceBlocks, recv_ioBlocks, recv_stackBlocks
<1>6. IdleSoFar'
  BY <1>4, <1>5 DEF IInv, IdleSoFar
<1> QED
  BY <1>1, <1>2, <1>3, <1>4, <1>6 DEF IInv, QuiescentExit

LEMMA InvNext ==
  ASSUME OneWay, IInv, [Next]_vars
  PROVE  IInv'
<1>1. CASE \E n \in Proc : tick(n)
  BY <1>1, TickInv
<1>2. CASE run
  BY <1>2, RunInv
<1>3. CASE Console
  BY <1>3, ConsoleInv
<1>4. CASE UNCHANGED vars
  <2>1. TypeOK'
    BY <1>4, TypeNext DEF IInv
  <2>2. UNCHANGED <<procVars, wires, devVars, schedVars>>
    BY <1>4 DEF vars, procVars
  <2>3. \A m \in Proc : Stuck(m) <=> Stuck(m)'
    BY <2>2
    DEF procVars, Stuck, At, PeerIsProc, PeerIsDevice, Connected, TheWire, Peer,
        PeerPort, Status, RecvDeviceBlocks, recv_ioBlocks, recv_stackBlocks,
        Unread, devVars
  <2> QED
    BY <2>1, <2>2, <2>3, QuietStep
    DEF IInv, schedVars, OffersEndATurn, IdleSoFar, TurnIsOpen, QuiescentExit,
        AllStuck
<1> QED
  BY <1>1, <1>2, <1>3, <1>4 DEF Next, Interpreter, Exited

(* In a program whose ports are one-way, every message on a wire has the   *)
(* sender that still holds it, no turn begins with an offer, and run()     *)
(* counts as idle only processors that are stuck.                          *)
THEOREM Invariant == ASSUME OneWay PROVE Spec => []IInv
BY InvInit, InvNext, PTL DEF Spec

(* run() returns only when no processor can ever take another step.        *)
THEOREM ExitIsQuiescent == ASSUME OneWay PROVE Spec => []QuiescentExit
<1>1. IInv => QuiescentExit
  BY DEF IInv
<1> QED
  BY <1>1, Invariant, PTL

(* A processor leaves a SEND to a processor only with an acknowledgement   *)
(* for the very message it holds.                                          *)
LEMMA ResumeIsAcknowledged ==
  ASSUME OneWay, IInv, NEW n \in Proc, Resume(n)
  PROVE  /\ Status(TheWire(n)) = "CONSUMED"
         /\ wires[TheWire(n)].buf = top[n]
<1>1. TheWire(n) \in Wire /\ Status(TheWire(n)) = "CONSUMED" /\ SendsOn(n, TheWire(n))
  BY PeerFacts DEF Resume, PeerIsProc, ResetWire, SendsOn
<1>2. PICK m \in Proc : SendsOn(m, TheWire(n)) /\ top[m] = wires[TheWire(n)].buf
  BY <1>1 DEF IInv, MessageHasItsSender
<1>3. m = n
  BY <1>1, <1>2, Sender DEF IInv, AckHasItsReader, OneWay
<1> QED
  BY <1>1, <1>2, <1>3

THEOREM SendsAreAcknowledged == ASSUME OneWay PROVE Spec => SendBlocksUntilRead
<1>1. IInv /\ [Next]_vars => [SendWaitsForItsReader]_vars
  <2> SUFFICES ASSUME IInv, Next, NEW n \in Proc, At(n, "send"), PeerIsProc(n),
                      <<instr'[n], top'[n]>> # <<instr[n], top[n]>>
               PROVE  /\ Status(TheWire(n)) = "CONSUMED"
                      /\ wires[TheWire(n)].buf = top[n]
    BY DEF SendWaitsForItsReader
  <2>1. PICK m \in Proc : tick(m)
    BY DEF Next, Interpreter, run, Console, Exited, vars, procVars
  <2>2. m = n
    BY <2>1, OthersRest DEF IInv
  <2>3. Resume(n)
    BY <2>1, <2>2
    DEF tick, Compute, HaltHere, Crash, Offer, AwaitAck, Take, AwaitMessage,
        Write, Read, AwaitDevice, Block, Fail, procVars, At, PeerIsProc,
        PeerIsDevice
  <2> QED
    BY <2>3, ResumeIsAcknowledged
<1> QED
  BY <1>1, Invariant, PTL DEF Spec, SendBlocksUntilRead

-----------------------------------------------------------------------------
(* What liveness rests on.  None of it needs one-way ports.                *)

LEMMA OpenNext == TypeOK /\ TurnIsOpen /\ [Next]_vars => TurnIsOpen'
<1> SUFFICES ASSUME TypeOK, TurnIsOpen, [Next]_vars PROVE TurnIsOpen'
  OBVIOUS
<1>1. ASSUME NEW n \in Proc, tick(n) PROVE TurnIsOpen'
  <2>1. i \in Proc
    BY <1>1, TickEnds DEF Turn
  <2>2. CASE TickTrue \/ Fail
    BY <2>1, <2>2 DEF TickTrue, Fail, Abort, TurnIsOpen
  <2>3. CASE Block
    BY <2>3 DEF Block, TickFalse, TurnIsOpen
  <2> QED
    BY <1>1, <2>2, <2>3, TickEnds
<1>2. CASE run
  <2>1. i \notin Proc
    BY <1>2, TopologyAssumption
    DEF TopologyOK, run, SkipNode, NextRound, Return, Proc, Node
  <2>2. ticked' = ticked
    BY <1>2 DEF run, SkipNode, NextRound, Return
  <2> QED
    BY <2>1, <2>2, Zenon DEF TurnIsOpen
<1>3. CASE UNCHANGED schedVars
  BY <1>3, Zenon DEF TurnIsOpen, schedVars
<1> QED
  BY <1>1, <1>2, <1>3 DEF Next, Interpreter, Console, Exited, vars

LEMMA TurnsAreOpen == Spec => [](TypeOK /\ TurnIsOpen)
<1>1. Init => TypeOK /\ TurnIsOpen
  BY TypeInit DEF Init, SchedulerInit, TurnIsOpen
<1>2. TypeOK /\ TurnIsOpen /\ [Next]_vars => (TypeOK /\ TurnIsOpen)'
  BY TypeNext, OpenNext
<1> QED
  BY <1>1, <1>2, PTL DEF Spec

(* A processor that is stuck can only be made to wait.                     *)
LEMMA StuckBlocks ==
  ASSUME NEW n \in Proc, tick(n), Stuck(n)
  PROVE  Block /\ UNCHANGED <<wires, devVars>>
<1>1. CASE At(n, "halt")
  BY <1>1
  DEF tick, Compute, HaltHere, Crash, Offer, AwaitAck, Resume, Take, AwaitMessage,
      Write, Read, AwaitDevice, At
<1>2. CASE At(n, "send") /\ PeerIsProc(n) /\ Status(TheWire(n)) = "FULL"
  BY <1>2
  DEF tick, Compute, HaltHere, Crash, Offer, AwaitAck, Resume, Take, AwaitMessage,
      Write, Read, AwaitDevice, At, PeerIsProc, PeerIsDevice, FillWire, ResetWire, StillFull
<1>3. CASE At(n, "recv") /\ PeerIsProc(n) /\ Status(TheWire(n)) # "FULL"
  BY <1>3
  DEF tick, Compute, HaltHere, Crash, Offer, AwaitAck, Resume, Take, AwaitMessage,
      Write, Read, AwaitDevice, At, PeerIsProc, PeerIsDevice, ConsumeWire, NothingToRead
<1>4. CASE At(n, "recv") /\ PeerIsDevice(n) /\ RecvDeviceBlocks(Peer(n), PeerPort(n))
  <2>1. ~RecvDeviceFails(Peer(n), PeerPort(n))
    BY <1>4
    DEF RecvDeviceBlocks, recv_ioBlocks, recv_stackBlocks, RecvDeviceFails, recv_ioFails,
        bufFails
  <2>2. ASSUME NEW dat PROVE ~RecvDevice(Peer(n), PeerPort(n), dat)
    BY <1>4
    DEF RecvDeviceBlocks, recv_ioBlocks, recv_stackBlocks, RecvDevice, recv_io, recv_buf,
        recv_stack
  <2> QED
    BY <1>4, <2>1, <2>2
    DEF tick, Compute, HaltHere, Crash, Offer, AwaitAck, Resume, Take, AwaitMessage,
        Write, Read, AwaitDevice, At, PeerIsProc, PeerIsDevice
<1> QED
  BY <1>1, <1>2, <1>3, <1>4 DEF Stuck

LEMMA ConsoleUnsticksNobody ==
  ASSUME Console, NEW n \in Proc, Stuck(n)
  PROVE  Stuck(n)'
BY DEF Console, WriteStdin, CloseStdin, procVars, Stuck, At, PeerIsProc, PeerIsDevice,
       Connected, TheWire, Peer, PeerPort, Status, RecvDeviceBlocks, recv_ioBlocks,
       recv_stackBlocks

LEMMA WindsDownNext ==
  ASSUME TypeOK, TurnIsOpen, Next, AllStuck, exit = "running"
  PROVE  /\ AllStuck'
         /\ \/ UNCHANGED <<procVars, wires, schedVars>>
            \/ exit' = "running" /\ StepsLeft' = StepsLeft - 1
            \/ exit' = "done" /\ StepsLeft = 1
<1>1. /\ i \in 0 .. NNodes /\ NNodes \in Nat /\ progressed \in BOOLEAN
      /\ ticked \in BOOLEAN
  BY TopologyAssumption DEF TopologyOK, TypeOK, SchedulerType
<1>2. CASE \E n \in Proc : tick(n)
  <2>1. PICK n \in Proc : tick(n)
    BY <1>2
  <2>2. Block /\ UNCHANGED <<wires, devVars>>
    BY <2>1, StuckBlocks DEF AllStuck
  <2>3. AllStuck'
    BY <2>2, StuckStays DEF AllStuck, Block, procVars
  <2>4. i = n /\ n < NNodes
    BY <2>1, TickEnds, <1>1 DEF Turn, Proc, Node
  <2>5. /\ i' = i + 1 /\ exit' = exit /\ ticked' = FALSE
        /\ progressed' <=> progressed \/ ticked
    BY <2>2 DEF Block, TickFalse
  <2>6. (progressed \/ ticked)' <=> progressed \/ ticked
    BY <2>5, Zenon
  <2>7. StepsLeft' = StepsLeft - 1
    BY <1>1, <2>4, <2>5, <2>6 DEF StepsLeft
  <2> QED
    BY <2>3, <2>5, <2>7
<1>3. CASE run
  <2>1. AllStuck'
    BY <1>3, StuckStays DEF AllStuck, run, procVars
  <2>2. ~ticked /\ i \notin Proc
    BY <1>1, <1>3 DEF TurnIsOpen, run, SkipNode, NextRound, Return, Proc, Node
  <2>3. CASE SkipNode
    <3>1. i < NNodes
      BY <1>1, <2>3 DEF SkipNode, Node
    <3> QED
      BY <1>1, <2>1, <2>3, <3>1 DEF SkipNode, StepsLeft
  <2>4. CASE NextRound
    <3>1. StepsLeft = NNodes + 2 /\ StepsLeft' = NNodes + 1
      BY <1>1, <2>2, <2>4 DEF NextRound, StepsLeft
    <3> QED
      BY <1>1, <2>1, <2>4, <3>1 DEF NextRound
  <2>5. CASE Return
    BY <1>1, <2>1, <2>2, <2>5 DEF Return, StepsLeft
  <2> QED
    BY <1>3, <2>3, <2>4, <2>5 DEF run
<1>4. CASE Console
  BY <1>4, ConsoleUnsticksNobody DEF AllStuck, Console
<1> QED
  BY <1>2, <1>3, <1>4 DEF Next, Interpreter, Exited

(* Once no processor can take another step, run() returns within two       *)
(* rounds: each step of the interpreter is one of those that are left, and *)
(* nothing that is typed adds to them.                                     *)
THEOREM WindingDown == Spec => StuckMachinesWindDown
<1>1. TypeOK /\ TurnIsOpen /\ [Next]_vars => [WindsDown]_vars
  BY WindsDownNext DEF WindsDown
<1> QED
  BY <1>1, TurnsAreOpen, PTL DEF StuckMachinesWindDown, Spec

-----------------------------------------------------------------------------
(* What a tick() does to the wires: nothing, or the next step on the one   *)
(* that its processor is at.                                               *)
LEMMA TickWires ==
  ASSUME TypeOK, NEW n \in Proc, tick(n)
  PROVE  \/ /\ UNCHANGED wires
            /\ \A w \in Wire : ~ CanGoOn(n, w)
            /\ \A w \in Wire : SendsOn(n, w) \/ RecvsOn(n, w) => Block
         \/ Offer(n) /\ \A w \in Wire : ~ CanGoOn(n, w)
         \/ Resume(n)
         \/ Take(n)
BY DEF tick, Compute, HaltHere, Crash, Offer, AwaitAck, AwaitMessage, Write, Read,
       AwaitDevice, StillFull, NothingToRead, FillWire, CanGoOn, SendsOn, RecvsOn, At,
       PeerIsProc, PeerIsDevice, Connected

(* The step that each of them takes.                                       *)
LEMMA WireSteps ==
  ASSUME TypeOK, NEW n \in Proc, NEW w \in Wire
  PROVE  /\ Offer(n) => IF w = TheWire(n) THEN Status(w) = "EMPTY" /\ Status(w)' = "FULL"
                                          ELSE wires'[w] = wires[w]
         /\ Resume(n) => IF w = TheWire(n) THEN Status(w) = "CONSUMED" /\ Status(w)' = "EMPTY"
                                           ELSE wires'[w] = wires[w]
         /\ Take(n) => IF w = TheWire(n) THEN Status(w) = "FULL" /\ Status(w)' = "CONSUMED"
                                         ELSE wires'[w] = wires[w]
BY DEF TypeOK, WiresType, Offer, Resume, Take, FillWire, ResetWire, ConsumeWire, Status

LEMMA ChanceStays ==
  ASSUME NEW n \in Proc, NEW w \in Wire, CanGoOn(n, w), instr'[n] = instr[n],
         Status(w)' = Status(w)
  PROVE  CanGoOn(n, w)'
BY DEF CanGoOn, SendsOn, RecvsOn, At, PeerIsProc, Connected, TheWire

LEMMA KeepsTurnsNext ==
  ASSUME TypeOK, Next
  PROVE  KeepsTurns
<1> USE DEF KeepsTurns
<1>1. CASE \E n \in Proc : tick(n)
  <2>1. PICK m \in Proc : tick(m)
    BY <1>1
  <2>2. i = m /\ i' \in {i, i + 1}
    BY <2>1, TickEnds DEF Turn, TickTrue, Block, TickFalse, Fail, Abort
  <2>3. ASSUME NEW n \in Proc, NEW w \in Wire, CanGoOn(n, w), Status(w)' = Status(w)
        PROVE  n # m
    <3>1. CASE n = m
      <4>1. Resume(m) \/ Take(m)
        BY <2>1, <2>3, <3>1, TickWires
      <4>2. w = TheWire(m)
        BY <2>3, <3>1 DEF CanGoOn, SendsOn, RecvsOn
      <4> QED
        BY <2>3, <4>1, <4>2, WireSteps
    <3> QED
      BY <3>1
  <2>4. ASSUME NEW n \in Proc, NEW w \in Wire, CanGoOn(n, w), Status(w)' = Status(w)
        PROVE  CanGoOn(n, w)'
    BY <2>1, <2>3, <2>4, OthersRest, ChanceStays
  <2> QED
    BY <2>2, <2>3, <2>4
<1>2. CASE run
  <2>1. i \notin Proc
    BY <1>2, TopologyAssumption
    DEF TopologyOK, run, SkipNode, NextRound, Return, Proc, Node
  <2>2. \A w \in Wire : Status(w)' = Status(w)
    BY <1>2 DEF run, Status
  <2>3. \A n \in Proc : \A w \in Wire : CanGoOn(n, w) => CanGoOn(n, w)'
    BY <1>2, <2>2, ChanceStays DEF run, procVars
  <2>4. i' \in {i, i + 1} \/ (i = NNodes /\ i' = 0)
    BY <1>2 DEF run, SkipNode, NextRound, Return
  <2> QED
    BY <2>1, <2>3, <2>4
<1>3. CASE UNCHANGED <<procVars, wires, schedVars>>
  <2>1. i' = i
    BY <1>3 DEF schedVars
  <2>2. \A n \in Proc : \A w \in Wire : CanGoOn(n, w) => CanGoOn(n, w)'
    BY <1>3, ChanceStays DEF procVars, Status
  <2> QED
    BY <2>1, <2>2
<1> QED
  BY <1>1, <1>2, <1>3 DEF Next, Interpreter, Console, Exited, vars, procVars

(* A round leaves out no processor, and none that could go on loses the    *)
(* chance, but to a step of its wire, or ends its turn without taking it.  *)
THEOREM TurnsAreKept == Spec => NoTurnIsMissed
<1>1. TypeOK /\ [Next]_vars => [KeepsTurns]_vars
  BY KeepsTurnsNext
<1> QED
  BY <1>1, TypeCorrect, PTL DEF NoTurnIsMissed, Spec

LEMMA DrainsNext ==
  ASSUME TypeOK, Next
  PROVE  DrainsWires
<1> SUFFICES ASSUME NEW n \in Proc, Turn(n), Turn(n)', NEW w \in Wire
             PROVE  /\ Charge(w)' <= Charge(w)
                    /\ SendsOn(n, w) \/ RecvsOn(n, w) =>
                         \/ UNCHANGED <<procVars, wires, schedVars>>
                         \/ Charge(w)' = Charge(w) - 1
  BY DEF DrainsWires
<1>1. /\ Status(w) \in WireStatus
      /\ n \in Nat
  BY DEF TypeOK, WiresType, Status, Proc, Node
<1>2. UNCHANGED wires => Charge(w)' = Charge(w)
  BY DEF Charge, Status
<1>3. Charge(w) \in Nat
  BY <1>1 DEF Charge, WireStatus
<1>4. CASE UNCHANGED <<procVars, wires, schedVars>>
  BY <1>2, <1>3, <1>4
<1>5. CASE tick(n)
  <2>1. ~Block
    BY <1>1 DEF Turn, Block, TickFalse
  <2>2. ~Offer(n)
    BY <2>1 DEF Offer
  <2>3. CASE UNCHANGED wires /\ \A v \in Wire : SendsOn(n, v) \/ RecvsOn(n, v) => Block
    BY <1>2, <1>3, <2>1, <2>3
  <2>4. CASE Resume(n) \/ Take(n)
    <3>1. CASE w = TheWire(n)
      BY <2>4, <3>1, WireSteps DEF Charge
    <3>2. CASE w # TheWire(n)
      <4>1. Charge(w)' = Charge(w)
        BY <2>4, <3>2, WireSteps DEF Charge, Status
      <4> QED
        BY <1>3, <3>2, <4>1 DEF SendsOn, RecvsOn
    <3> QED
      BY <3>1, <3>2
  <2> QED
    BY <1>5, <2>2, <2>3, <2>4, TickWires
<1>6. ASSUME NEW m \in Proc, tick(m) PROVE m = n
  BY <1>6, TickEnds DEF Turn
<1>7. ~run
  BY TopologyAssumption
  DEF TopologyOK, Turn, run, SkipNode, NextRound, Return, Proc, Node
<1> QED
  BY <1>4, <1>5, <1>6, <1>7 DEF Next, Interpreter, Console, Exited, vars, procVars

(* While a turn goes on, every SEND and every RECV on a wire takes it one  *)
(* step towards empty, and nothing else moves a wire: a turn makes at most *)
(* two such steps for each wire, however long it lasts.                    *)
THEOREM TurnsDrain == Spec => TurnsDrainWires
<1>1. TypeOK /\ [Next]_vars => [DrainsWires]_vars
  BY DrainsNext
<1> QED
  BY <1>1, TypeCorrect, PTL DEF TurnsDrainWires, Spec
=============================================================================
