---------------------------- MODULE VMRefinement ----------------------------
(***************************************************************************)
(* The machine of module VM implements the concurrent nodes of module      *)
(* Noded, for every program whose ports are one-way.                       *)
(***************************************************************************)
EXTENDS VMProofs

(* The two modules mean the same by a device and by a peer.                *)
LEMMA SameDevices ==
  ASSUME NEW d, NEW p, NEW x
  PROVE  /\ SendDevice(d, p, x) => Abstract!SendDevice(d, p, x)
         /\ SendDeviceFails(d, p) => Abstract!SendDeviceFails(d, p)
         /\ RecvDevice(d, p, x) => Abstract!RecvDevice(d, p, x)
         /\ RecvDeviceFails(d, p) => Abstract!RecvDeviceFails(d, p)
         /\ RecvDeviceBlocks(d, p) => Abstract!RecvDeviceBlocks(d, p)
<1>1. SendDevice(d, p, x) => Abstract!SendDevice(d, p, x)
  BY DEF SendDevice, send_io, send_buf, send_stack, IO_OUT, IO_ERR, BUFFER_ELM,
         BUFFER_IDX, Abstract!SendDevice, Abstract!send_io, Abstract!send_buf,
         Abstract!send_stack, Abstract!IO_OUT, Abstract!IO_ERR,
         Abstract!BUFFER_ELM, Abstract!BUFFER_IDX
<1>2. SendDeviceFails(d, p) => Abstract!SendDeviceFails(d, p)
  BY DEF SendDeviceFails, send_ioFails, bufFails, send_stackFails, IO_OUT, IO_ERR,
         BUFFER_ELM, BUFFER_IDX, Abstract!SendDeviceFails,
         Abstract!send_ioFails, Abstract!bufFails, Abstract!send_stackFails,
         Abstract!IO_OUT, Abstract!IO_ERR, Abstract!BUFFER_ELM,
         Abstract!BUFFER_IDX
<1>3. RecvDevice(d, p, x) => Abstract!RecvDevice(d, p, x)
  BY DEF RecvDevice, recv_io, recv_buf, recv_stack, Unread, IO_IN, BUFFER_ELM,
         BUFFER_IDX, devVars, Abstract!RecvDevice, Abstract!recv_io,
         Abstract!recv_buf, Abstract!recv_stack, Abstract!Unread,
         Abstract!IO_IN, Abstract!BUFFER_ELM, Abstract!BUFFER_IDX,
         Abstract!devVars
<1>4. RecvDeviceFails(d, p) => Abstract!RecvDeviceFails(d, p)
  BY DEF RecvDeviceFails, recv_ioFails, bufFails, IO_IN, BUFFER_ELM, BUFFER_IDX,
         Abstract!RecvDeviceFails, Abstract!recv_ioFails, Abstract!bufFails,
         Abstract!IO_IN, Abstract!BUFFER_ELM, Abstract!BUFFER_IDX
<1>5. RecvDeviceBlocks(d, p) => Abstract!RecvDeviceBlocks(d, p)
  BY DEF RecvDeviceBlocks, recv_ioBlocks, recv_stackBlocks, Unread, IO_IN,
         Abstract!RecvDeviceBlocks, Abstract!recv_ioBlocks,
         Abstract!recv_stackBlocks, Abstract!Unread, Abstract!IO_IN
<1> QED
  BY <1>1, <1>2, <1>3, <1>4, <1>5

(* What the mapping shows of a processor.                                  *)
LEMMA BarFacts ==
  ASSUME NEW n \in Proc
  PROVE  /\ HasLeft(n) => instrBar[n] = Abstract!Ready
         /\ ~HasLeft(n) => instrBar[n] = instr[n]
BY DEF instrBar, Abstract!Ready

LEMMA SamePlace ==
  ASSUME NEW n \in Proc, ~HasLeft(n)
  PROVE  /\ \A op : Abstract!At(n, op) <=> At(n, op)
         /\ Abstract!Connected(n) <=> Connected(n)
         /\ Abstract!PeerIsProc(n) <=> PeerIsProc(n)
         /\ Abstract!PeerIsDevice(n) <=> PeerIsDevice(n)
         /\ Abstract!TheWire(n) = TheWire(n)
         /\ Abstract!Peer(n) = Peer(n)
         /\ Abstract!PeerPort(n) = PeerPort(n)
BY BarFacts
DEF Abstract!At, At, Abstract!Connected, Connected, Abstract!Wired, Wired,
    Abstract!PeerIsProc, PeerIsProc, Abstract!PeerIsDevice, PeerIsDevice,
    Abstract!PeerType, PeerType, Abstract!TheWire, TheWire, Abstract!WireOf,
    WireOf, Abstract!Peer, Peer, Abstract!PeerPort, PeerPort

LEMMA ReadyPlace ==
  ASSUME NEW n \in Proc, HasLeft(n)
  PROVE  /\ Abstract!At(n, "ready")
         /\ ~Abstract!At(n, "send") /\ ~Abstract!At(n, "recv")
BY BarFacts DEF Abstract!At, Abstract!Ready

(* A processor that goes on to a SEND never finds its wire CONSUMED.       *)
LEMMA NotLeft ==
  ASSUME OneWay, IInv, IInv', NEW n \in Proc, NEW c \in Program[n], instr'[n] = c,
         \A w \in Wire : Status(w)' = "CONSUMED" =>
                           Status(w) # "EMPTY" /\ ~SendsOn(n, w)
  PROVE  ~HasLeft(n)'
<1> SUFFICES ASSUME HasLeft(n)' PROVE FALSE
  OBVIOUS
<1> DEFINE w == WireOf(n, c.port)
<1>1. c.op = "send" /\ Wired(n, c.port) /\ PeerType(n, c.port) = "PROC_NODE"
      /\ Status(w)' = "CONSUMED"
  BY DEF HasLeft, At, PeerIsProc, Connected, TheWire
<1>2. w \in Wire /\ c.port \in PortIdx
  BY <1>1, TopologyAssumption DEF TopologyOK, Wired, WireOf, PortRec
<1>3. c = Send(c.port)
  BY <1>1, ProgramAssumption DEF Instr, Local, Halt, Fault, Send, Recv
<1>4. MaySendOn(n, w)
  BY <1>1, <1>2, <1>3 DEF MaySendOn, MayUse, Wired, Send
<1>5. PICK m \in Proc : SendsOn(m, w)
  BY <1>1, <1>2 DEF IInv, MessageHasItsSender
<1>6. MaySendOn(m, w)
  BY <1>5, Sender DEF IInv
<1>7. \E r \in Proc : MayRecvOn(r, w)
  BY <1>1, <1>2 DEF IInv, AckHasItsReader, MayRecvOn, MayUse
<1>8. m = n
  BY <1>2, <1>4, <1>6, <1>7 DEF OneWay
<1> QED
  BY <1>1, <1>2, <1>5, <1>8

(* A processor that does not move is where it was, when its wire is as     *)
(* much CONSUMED as it was.                                                *)
LEMMA StillThere ==
  ASSUME NEW m \in Proc, instr'[m] = instr[m],
         \A w \in Wire : SendsOn(m, w) =>
           (Status(w)' = "CONSUMED" <=> Status(w) = "CONSUMED")
  PROVE  instrBar'[m] = instrBar[m]
<1>1. At(m, "send") /\ PeerIsProc(m) => TheWire(m) \in Wire
  BY PeerFacts DEF PeerIsProc
<1>2. HasLeft(m)' <=> HasLeft(m)
  BY <1>1 DEF HasLeft, SendsOn, At, PeerIsProc, Connected, TheWire, Status
<1> QED
  BY <1>2 DEF instrBar

LEMMA NoMove ==
  ASSUME UNCHANGED procVars,
         \A w \in Wire : Status(w)' = "CONSUMED" <=> Status(w) = "CONSUMED"
  PROVE  instrBar' = instrBar
<1>1. ASSUME NEW m \in Proc PROVE instrBar'[m] = instrBar[m]
  BY StillThere DEF procVars
<1> QED
  BY <1>1 DEF instrBar

(* One processor moves on and no other one notices.                        *)
LEMMA OneMove ==
  ASSUME OneWay, IInv, IInv', NEW n \in Proc, tick(n), NEW V, Advance(n, V),
         \A w \in Wire : Status(w)' = "CONSUMED" =>
                           Status(w) = "CONSUMED" /\ ~SendsOn(n, w),
         \A w \in Wire : Status(w) = "CONSUMED" =>
                           Status(w)' = "CONSUMED" \/ SendsOn(n, w)
  PROVE  \E c \in Program[n] : instrBar' = [instrBar EXCEPT ![n] = c]
<1>1. PICK c \in Program[n] : instr' = [instr EXCEPT ![n] = c]
  BY DEF Advance
<1>2. instr'[n] = c
  BY <1>1 DEF IInv, TypeOK, ProcType
<1>3. instrBar'[n] = c
  <2>1. ~HasLeft(n)'
    BY <1>2, NotLeft
  <2> QED
    BY <1>2, <2>1 DEF instrBar
<1>4. ASSUME NEW m \in Proc, m # n PROVE instrBar'[m] = instrBar[m]
  <2>1. instr'[m] = instr[m]
    BY <1>4, OthersRest DEF IInv
  <2>2. ASSUME NEW w \in Wire, SendsOn(m, w), Status(w) = "CONSUMED"
        PROVE  ~SendsOn(n, w)
    <3>1. \E r \in Proc : MayRecvOn(r, w)
      BY <2>2 DEF IInv, AckHasItsReader
    <3> QED
      BY <1>4, <2>2, <3>1, Sender DEF IInv, OneWay
  <2> QED
    BY <2>1, <2>2, StillThere
<1> QED
  BY <1>3, <1>4 DEF instrBar

-----------------------------------------------------------------------------
(* The instructions, one lemma each.                                       *)

LEMMA StepMap ==
  ASSUME OneWay, IInv, IInv', NEW n \in Proc, tick(n), Compute(n) \/ Resume(n)
  PROVE  Abstract!Step(n)
<1>1. Advance(n, Byte) /\ UNCHANGED devVars
  BY DEF Compute, Resume
<1>2. /\ \A w \in Wire : Status(w)' = "CONSUMED" =>
                           Status(w) = "CONSUMED" /\ ~SendsOn(n, w)
      /\ \A w \in Wire : Status(w) = "CONSUMED" =>
                           Status(w)' = "CONSUMED" \/ SendsOn(n, w)
  <2>1. CASE Compute(n)
    BY <2>1 DEF Compute, Status, SendsOn, At
  <2>2. CASE Resume(n)
    <3>1. TheWire(n) \in Wire
      BY <2>2, PeerFacts DEF Resume, PeerIsProc
    <3> QED
      BY <2>2, <3>1
      DEF Resume, ResetWire, Status, SendsOn, IInv, TypeOK, WiresType
  <2> QED
    BY <2>1, <2>2
<1>3. \E c \in Program[n] : instrBar' = [instrBar EXCEPT ![n] = c]
  BY <1>1, <1>2, OneMove
<1>4. Abstract!At(n, "ready") \/ Abstract!At(n, "local")
  <2>1. CASE Compute(n)
    BY <2>1, SamePlace DEF Compute, HasLeft, At
  <2>2. CASE Resume(n)
    BY <2>2, ReadyPlace DEF Resume, HasLeft, ResetWire
  <2> QED
    BY <2>1, <2>2
<1> QED
  BY <1>1, <1>3, <1>4 DEF Abstract!Step, Abstract!Goes, Advance, TickTrue, Abstract!devVars, devVars, Abstract!Byte, Byte

LEMMA CrashMap ==
  ASSUME NEW n \in Proc, Crash(n)
  PROVE  Abstract!Breaks(n)
<1>1. ~HasLeft(n)
  BY DEF Crash, HasLeft, At, PeerIsProc
<1>2. instrBar' = instrBar
  BY NoMove DEF Crash, Fail, procVars, Status
<1>3. \/ Abstract!At(n, "fault")
      \/ instrBar[n].op \in {"send", "recv"} /\ ~Abstract!Connected(n)
  BY <1>1, SamePlace, BarFacts DEF Crash
<1> QED
  BY <1>2, <1>3
  DEF Crash, Fail, Abort, procVars, Abstract!Breaks, Abstract!Dies, Abstract!At,
      devVars, Abstract!devVars

LEMMA WriteMap ==
  ASSUME OneWay, IInv, IInv', NEW n \in Proc, tick(n), Write(n)
  PROVE  Abstract!Write(n) \/ Abstract!Breaks(n)
<1>1. ~HasLeft(n)
  BY DEF Write, HasLeft, PeerIsProc, PeerIsDevice
<1>2. Abstract!At(n, "send") /\ Abstract!PeerIsDevice(n)
      /\ Abstract!Peer(n) = Peer(n) /\ Abstract!PeerPort(n) = PeerPort(n)
  BY <1>1, SamePlace DEF Write
<1>3. CASE SendDevice(Peer(n), PeerPort(n), top[n]) /\ Advance(n, Byte)
  <2>1. \E c \in Program[n] : instrBar' = [instrBar EXCEPT ![n] = c]
    BY <1>3, OneMove DEF Write, Status, SendsOn, PeerIsProc, PeerIsDevice
  <2> QED
    BY <1>2, <1>3, <2>1, SameDevices
    DEF Advance, TickTrue, Abstract!Write, Abstract!Goes, Abstract!Byte, Byte
<1>4. CASE SendDeviceFails(Peer(n), PeerPort(n)) /\ Fail /\ UNCHANGED devVars
  <2>1. instrBar' = instrBar
    BY <1>4, NoMove DEF Write, Fail, Status
  <2> QED
    BY <1>2, <1>4, <2>1, SameDevices
    DEF Fail, Abort, procVars, devVars, Abstract!Breaks, Abstract!Dies,
        Abstract!devVars
<1> QED
  BY <1>3, <1>4 DEF Write

LEMMA ReadMap ==
  ASSUME OneWay, IInv, IInv', NEW n \in Proc, tick(n), Read(n)
  PROVE  Abstract!Read(n) \/ Abstract!Breaks(n)
<1>1. ~HasLeft(n)
  BY DEF Read, HasLeft, At
<1>2. Abstract!At(n, "recv") /\ Abstract!PeerIsDevice(n)
      /\ Abstract!Peer(n) = Peer(n) /\ Abstract!PeerPort(n) = PeerPort(n)
  BY <1>1, SamePlace DEF Read
<1>3. ASSUME NEW dat \in Byte,
             RecvDevice(Peer(n), PeerPort(n), dat), PushReceived(n, dat)
      PROVE  Abstract!Read(n)
  <2>1. Abstract!RecvDevice(Peer(n), PeerPort(n), dat)
    BY <1>3, SameDevices
  <2>2. CASE Advance(n, {dat})
    <3>1. \E c \in Program[n] : instrBar' = [instrBar EXCEPT ![n] = c]
      BY <2>2, OneMove DEF Read, Status, SendsOn, At
    <3>2. Abstract!Goes(n, {dat})
      BY <2>2, <3>1 DEF Advance, TickTrue, Abstract!Goes
    <3> QED
      BY <1>2, <2>1, <3>2 DEF Abstract!Read, Abstract!Byte, Byte
  <2>3. CASE Fault \in Program[n] /\ Fail
    <3>1. instrBar' = instrBar
      BY <2>3, NoMove DEF Read, Fail, Status
    <3>2. Abstract!Fault \in Program[n] /\ Abstract!Dies
      BY <2>3, <3>1 DEF Fail, Abort, procVars, Abstract!Dies, Abstract!Fault, Fault
    <3> QED
      BY <1>2, <2>1, <3>2 DEF Abstract!Read, Abstract!Byte, Byte
  <2> QED
    BY <1>3, <2>2, <2>3 DEF PushReceived
<1>4. CASE RecvDeviceFails(Peer(n), PeerPort(n)) /\ Fail /\ UNCHANGED devVars
  <2>1. instrBar' = instrBar
    BY <1>4, NoMove DEF Read, Fail, Status
  <2> QED
    BY <1>2, <1>4, <2>1, SameDevices
    DEF Fail, Abort, procVars, devVars, Abstract!Breaks, Abstract!Dies,
        Abstract!devVars
<1> QED
  BY <1>3, <1>4 DEF Read

(* The message passes when the reader takes it.                            *)
LEMMA TakeMap ==
  ASSUME OneWay, IInv, IInv', NEW n \in Proc, tick(n), Take(n)
  PROVE  \E s \in Proc : Abstract!Rendezvous(s, n) \/ Abstract!Overflow(s, n)
<1>0. PICK w \in Wire : w = TheWire(n)
  BY PeerFacts DEF Take, PeerIsProc
<1>1. RecvsOn(n, w) /\ Status(w) = "FULL" /\ At(n, "recv") /\ PeerIsProc(n)
  BY <1>0 DEF Take, RecvsOn, ConsumeWire
<1>2. /\ Status(w)' = "CONSUMED"
      /\ \A v \in Wire : v # w => Status(v)' = Status(v)
  BY <1>0 DEF Take, ConsumeWire, Status, IInv, TypeOK, WiresType
<1>3. PICK s \in Proc : SendsOn(s, w) /\ top[s] = wires[w].buf
  BY <1>1 DEF IInv, MessageHasItsSender
<1>4. s # n
  BY <1>1, <1>3 DEF SendsOn, At
<1>5. ~HasLeft(s) /\ ~HasLeft(n)
  BY <1>1, <1>3 DEF HasLeft, SendsOn, At
<1>6. Abstract!Meet(s, n)
  <2>1. Abstract!At(s, "send") /\ Abstract!PeerIsProc(s) /\ Abstract!TheWire(s) = w
    BY <1>3, <1>5, SamePlace DEF SendsOn
  <2>2. Abstract!At(n, "recv") /\ Abstract!PeerIsProc(n) /\ Abstract!TheWire(n) = w
    BY <1>0, <1>1, <1>5, SamePlace
  <2> QED
    BY <2>1, <2>2 DEF Abstract!Meet
<1>7. instr'[s] = instr[s]
  BY <1>4, OthersRest DEF IInv
<1>8. HasLeft(s)'
  BY <1>2, <1>3, <1>7
  DEF SendsOn, HasLeft, At, PeerIsProc, Connected, TheWire, Status
<1>9. instrBar'[s] = Abstract!Ready
  BY <1>8 DEF instrBar, Abstract!Ready
<1>10. ASSUME NEW m \in Proc, m # n, m # s PROVE instrBar'[m] = instrBar[m]
  <2>1. instr'[m] = instr[m]
    BY <1>10, OthersRest DEF IInv
  <2>2. ~SendsOn(m, w)
    BY <1>1, <1>3, <1>10, Sender, Receiver DEF IInv, OneWay
  <2> QED
    BY <1>2, <2>1, <2>2, StillThere
<1>11. UNCHANGED devVars
  BY DEF Take
<1>12. CASE Advance(n, {wires[w].buf})
  <2>1. PICK c \in Program[n] : instr' = [instr EXCEPT ![n] = c]
    BY <1>12 DEF Advance
  <2>2. instr'[n] = c
    BY <2>1 DEF IInv, TypeOK, ProcType
  <2>3. \A v \in Wire : Status(v)' = "CONSUMED" =>
                          Status(v) # "EMPTY" /\ ~SendsOn(n, v)
    BY <1>1, <1>2 DEF SendsOn, At
  <2>4. ~HasLeft(n)'
    BY <2>2, <2>3, NotLeft
  <2>5. instrBar'[n] = c
    BY <2>2, <2>4 DEF instrBar
  <2>6. instrBar' = [instrBar EXCEPT ![s] = Abstract!Ready, ![n] = c]
    BY <1>4, <1>9, <1>10, <2>5 DEF instrBar
  <2>7. top' = [top EXCEPT ![n] = top[s]] /\ UNCHANGED exit
    BY <1>3, <1>12 DEF Advance, TickTrue
  <2>8. Abstract!Rendezvous(s, n)
    BY <1>6, <1>11, <2>6, <2>7 DEF Abstract!Rendezvous, Abstract!devVars, devVars
  <2> QED
    BY <2>8
<1>13. CASE Fault \in Program[n] /\ Fail
  <2>1. instr'[n] = instr[n] /\ UNCHANGED top /\ exit' = "error"
    BY <1>13 DEF Fail, procVars, Abort
  <2>2. instrBar'[n] = instrBar[n]
    BY <1>1, <2>1 DEF instrBar, HasLeft, At
  <2>3. instrBar' = [instrBar EXCEPT ![s] = Abstract!Ready]
    BY <1>9, <1>10, <2>2 DEF instrBar
  <2>4. Abstract!Overflow(s, n)
    BY <1>6, <1>11, <1>13, <2>1, <2>3
    DEF Abstract!Overflow, Abstract!devVars, devVars, Abstract!Fault, Fault
  <2> QED
    BY <2>4
<1> QED
  BY <1>0, <1>12, <1>13 DEF Take, PushReceived

-----------------------------------------------------------------------------
(* A processor that waits in the concurrent program, when all are stuck.   *)
LEMMA StuckWaits ==
  ASSUME AllStuck, NEW n \in Proc
  PROVE  Abstract!Waits(n)
<1>1. ASSUME NEW m \in Proc PROVE Stuck(m) /\ ~HasLeft(m)
  BY <1>1 DEF AllStuck, Stuck, HasLeft, At, Status
<1>2. ASSUME NEW s \in Proc, NEW r \in Proc, Abstract!Meet(s, r) PROVE FALSE
  <2>1. At(s, "send") /\ PeerIsProc(s) /\ At(r, "recv") /\ PeerIsProc(r)
        /\ TheWire(s) = TheWire(r)
    BY <1>1, <1>2, SamePlace DEF Abstract!Meet
  <2>2. Status(TheWire(s)) = "FULL"
    BY <1>1, <2>1 DEF Stuck, At
  <2>3. Status(TheWire(r)) # "FULL"
    BY <1>1, <2>1 DEF Stuck, At, PeerIsDevice, PeerIsProc
  <2> QED
    BY <2>1, <2>2, <2>3
<1>3. CASE At(n, "halt")
  BY <1>1, <1>3, SamePlace DEF Abstract!Waits
<1>4. CASE At(n, "send") /\ PeerIsProc(n)
  BY <1>1, <1>2, <1>4, SamePlace
  DEF Abstract!Waits, Abstract!Proc, Proc, Abstract!Node, Node
<1>5. CASE At(n, "recv") /\ PeerIsProc(n)
  BY <1>1, <1>2, <1>5, SamePlace
  DEF Abstract!Waits, Abstract!Proc, Proc, Abstract!Node, Node
<1>6. CASE At(n, "recv") /\ PeerIsDevice(n) /\ RecvDeviceBlocks(Peer(n), PeerPort(n))
  BY <1>1, <1>6, SamePlace, SameDevices DEF Abstract!Waits
<1> QED
  BY <1>1, <1>3, <1>4, <1>5, <1>6 DEF Stuck

(* The steps that the concurrent program does not see.                     *)
LEMMA StutterMap ==
  ASSUME IInv, NEW n \in Proc,
         \/ HaltHere(n) \/ Offer(n) \/ AwaitAck(n)
         \/ AwaitMessage(n) \/ AwaitDevice(n)
  PROVE  UNCHANGED Abstract!vars
<1>1. UNCHANGED <<procVars, devVars, exit>>
  BY DEF HaltHere, Offer, AwaitAck, AwaitMessage, AwaitDevice, Block, TickFalse
<1>2. \A w \in Wire : Status(w)' = "CONSUMED" <=> Status(w) = "CONSUMED"
  <2>1. CASE Offer(n)
    <3>1. TheWire(n) \in Wire
      BY <2>1, PeerFacts DEF Offer, PeerIsProc
    <3> QED
      BY <2>1, <3>1 DEF Offer, FillWire, Status, IInv, TypeOK, WiresType
  <2>2. CASE UNCHANGED wires
    BY <2>2 DEF Status
  <2> QED
    BY <2>1, <2>2
    DEF HaltHere, AwaitAck, AwaitMessage, AwaitDevice, StillFull, NothingToRead
<1>3. instrBar' = instrBar
  BY <1>1, <1>2, NoMove
<1> QED
  BY <1>1, <1>3 DEF Abstract!vars, procVars, devVars, Abstract!devVars

LEMMA RunMap ==
  ASSUME IInv, IInv', run
  PROVE  Abstract!Finish \/ UNCHANGED Abstract!vars
<1>1. instrBar' = instrBar /\ UNCHANGED <<procVars, devVars>>
  BY NoMove DEF run, Status
<1>2. CASE SkipNode \/ NextRound
  BY <1>1, <1>2
  DEF SkipNode, NextRound, Abstract!vars, procVars, devVars, Abstract!devVars
<1>3. CASE Return
  <2>1. AllStuck'
    BY <1>3 DEF Return, IInv, QuiescentExit
  <2>2. AllStuck
    BY <2>1
    DEF run, procVars, devVars, AllStuck, Stuck, At, PeerIsProc, PeerIsDevice,
        Connected, TheWire, Peer, PeerPort, Status, RecvDeviceBlocks,
        recv_ioBlocks, recv_stackBlocks, Unread
  <2>3. \A n \in Proc : Abstract!Waits(n)
    BY <2>2, StuckWaits
  <2> QED
    BY <1>1, <1>3, <2>3
    DEF Return, Abstract!Finish, procVars, devVars, Abstract!devVars,
        Abstract!Proc, Proc, Abstract!Node, Node
<1> QED
  BY <1>2, <1>3 DEF run

LEMMA ConsoleMap ==
  ASSUME Console
  PROVE  Abstract!Console
<1>1. instrBar' = instrBar
  BY NoMove DEF Console, Status
<1> QED
  BY <1>1
  DEF Console, WriteStdin, CloseStdin, procVars, schedVars, Abstract!Console,
      Abstract!WriteStdin, Abstract!CloseStdin

-----------------------------------------------------------------------------
LEMMA InitMap == Init => Abstract!Init
<1> SUFFICES ASSUME Init PROVE Abstract!Init
  OBVIOUS
<1>1. \A n \in Proc : ~HasLeft(n)
  BY DEF Init, HasLeft, At, Fault
<1>2. instrBar = instr
  BY <1>1 DEF instrBar, Init
<1>3. \A n \in Proc :
        instrBar[n] \in {c \in Program[n] : c.op # "send"} \union {Abstract!Fault}
  BY <1>2 DEF Init, Fault, Abstract!Fault
<1>4. instrBar \in [Proc -> Abstract!Instr]
  <2>1. Instr \subseteq Abstract!Instr
    BY TopologyAssumption
    DEF TopologyOK, Instr, Local, Halt, Fault, Send, Recv, Abstract!Instr, PortIdx,
        Abstract!PortIdx, PORT_MAX, Abstract!PORT_MAX
  <2>2. instr \in [Proc -> Abstract!Instr]
    BY <2>1 DEF Init
  <2> QED
    BY <1>2, <2>2
<1>5. Abstract!DevicesInit /\ exit = "running"
  BY DEF Init, SchedulerInit, DevicesInit, Abstract!DevicesInit, IO_OUT, IO_ERR,
         Abstract!IO_OUT, Abstract!IO_ERR, BufNode, Abstract!BufNode, StackNode,
         Abstract!StackNode, Node, Abstract!Node
<1> QED
  BY <1>3, <1>4, <1>5
  DEF Init, Abstract!Init, Proc, Abstract!Proc, Node, Abstract!Node

LEMMA NextMap ==
  ASSUME OneWay, IInv, IInv', [Next]_vars
  PROVE  [Abstract!Next]_(Abstract!vars)
<1>0. Abstract!Proc = Proc
  BY DEF Abstract!Proc, Proc, Abstract!Node, Node
<1>1. ASSUME NEW n \in Proc, tick(n)
      PROVE  Abstract!Next \/ UNCHANGED Abstract!vars
  <2>1. exit = "running"
    BY <1>1, TickEnds DEF Turn
  <2>2. CASE Compute(n) \/ Resume(n)
    BY <1>0, <1>1, <2>1, <2>2, StepMap DEF Abstract!Next
  <2>3. CASE Crash(n)
    BY <1>0, <2>1, <2>3, CrashMap DEF Abstract!Next
  <2>4. CASE Write(n)
    BY <1>0, <1>1, <2>1, <2>4, WriteMap DEF Abstract!Next
  <2>5. CASE Read(n)
    BY <1>0, <1>1, <2>1, <2>5, ReadMap DEF Abstract!Next
  <2>6. CASE Take(n)
    BY <1>0, <1>1, <2>1, <2>6, TakeMap DEF Abstract!Next
  <2>7. CASE \/ HaltHere(n) \/ Offer(n) \/ AwaitAck(n)
             \/ AwaitMessage(n) \/ AwaitDevice(n)
    BY <2>7, StutterMap
  <2> QED
    BY <1>1, <2>2, <2>3, <2>4, <2>5, <2>6, <2>7 DEF tick
<1>2. CASE run
  <2>1. exit = "running"
    BY <1>2 DEF run, SkipNode, NextRound, Return
  <2> QED
    BY <1>2, <2>1, RunMap DEF Abstract!Next
<1>3. CASE Console
  BY <1>3, ConsoleMap DEF Console, Abstract!Next
<1>4. CASE UNCHANGED vars
  <2>1. instrBar' = instrBar
    BY <1>4, NoMove DEF vars, procVars, Status
  <2> QED
    BY <1>4, <2>1 DEF vars, devVars, schedVars, Abstract!vars, Abstract!devVars
<1> QED
  BY <1>1, <1>2, <1>3, <1>4 DEF Next, Interpreter, Exited

(* The interpreter implements the concurrent nodes that SPEC.md describes: *)
(* every execution of run() on a program with one-way ports is, under the  *)
(* mapping instrBar, one in which nodes run side by side, messages pass by *)
(* rendezvous, and the program ends only when every node waits.            *)
THEOREM Refinement == ASSUME OneWay PROVE Spec => ImplementsNoded
<1>1. Init => Abstract!Init
  BY InitMap
<1>2. IInv /\ IInv' /\ [Next]_vars => [Abstract!Next]_(Abstract!vars)
  BY NextMap
<1> QED
  BY <1>1, <1>2, Invariant, PTL DEF Spec, ImplementsNoded, Abstract!Spec
=============================================================================
