--------------------------- MODULE MachineProofs ----------------------------
(***************************************************************************)
(* Proofs about the parts that processors share, whatever they execute:    *)
(* the wires, the devices and the scheduler keep their types.              *)
(***************************************************************************)
EXTENDS Wires, Devices, Scheduler, TLAPS

LEMMA PartsInit ==
  ASSUME WiresInit, DevicesInit, SchedulerInit
  PROVE  WiresType /\ DevicesType /\ SchedulerType
<1>1. 0 \in Byte
  BY LimitsAssumption DEF Byte
<1>2. WiresType
  BY <1>1 DEF WiresInit, WiresType, WireStatus
<1>3. DevicesType
  BY <1>1, DevicesAssumption DEF DevicesInit, DevicesType, IO_OUT, IO_ERR
<1>4. SchedulerType
  <2>1. i \in 0 .. NNodes
    BY TopologyAssumption DEF TopologyOK, SchedulerInit
  <2> QED
    BY <2>1, Zenon DEF SchedulerInit, SchedulerType
<1> QED
  BY <1>2, <1>3, <1>4

(* The parts that an action leaves alone stay as they are.                 *)
LEMMA PartsUnchanged ==
  /\ WiresType /\ UNCHANGED wires => WiresType'
  /\ DevicesType /\ UNCHANGED devVars => DevicesType'
  /\ SchedulerType /\ UNCHANGED schedVars => SchedulerType'
<1>1. WiresType /\ UNCHANGED wires => WiresType'
  BY DEF WiresType
<1>2. DevicesType /\ UNCHANGED devVars => DevicesType'
  BY DEF DevicesType, devVars
<1>3. SchedulerType /\ UNCHANGED schedVars => SchedulerType'
  BY Zenon DEF SchedulerType, schedVars
<1> QED
  BY <1>1, <1>2, <1>3

(* The handshakes keep the wires well formed and touch one wire only.      *)
LEMMA WireFacts ==
  ASSUME WiresType, NEW w \in Wire, NEW dat \in Byte,
         FillWire(w, dat) \/ ResetWire(w) \/ ConsumeWire(w, dat)
  PROVE  /\ WiresType'
         /\ \A v \in Wire : v # w => wires'[v] = wires[v]
BY DEF WiresType, WireStatus, FillWire, ResetWire, ConsumeWire, Status

LEMMA SendDeviceType ==
  ASSUME DevicesType, NEW d \in Node, NEW port \in PortIdx, NEW dat \in Byte,
         SendDevice(d, port, dat)
  PROVE  DevicesType'
<1>1. CASE send_io(d, port, dat)
  BY <1>1 DEF send_io, DevicesType
<1>2. CASE send_buf(d, port, dat)
  <2>1. d \in BufNode
    BY <1>2 DEF send_buf, BufNode
  <2>2. bufs[d].idx \in Byte /\ bufs[d].data \in [Byte -> Byte]
    BY <2>1 DEF DevicesType
  <2>3. \E b \in [idx : Byte, data : [Byte -> Byte]] :
          bufs' = [bufs EXCEPT ![d] = b]
    <3>1. CASE bufs' = [bufs EXCEPT ![d].idx = dat]
      <4>1. [bufs[d] EXCEPT !.idx = dat] \in [idx : Byte, data : [Byte -> Byte]]
        BY <2>1 DEF DevicesType
      <4> QED
        BY <3>1, <4>1
    <3>2. CASE bufs' = [bufs EXCEPT ![d].data[bufs[d].idx] = dat]
      <4>1. [bufs[d] EXCEPT !.data[bufs[d].idx] = dat]
              \in [idx : Byte, data : [Byte -> Byte]]
        BY <2>1, <2>2 DEF DevicesType
      <4> QED
        BY <3>2, <4>1
    <3> QED
      BY <1>2, <3>1, <3>2 DEF send_buf
  <2> QED
    BY <1>2, <2>1, <2>3 DEF send_buf, DevicesType
<1>3. CASE send_stack(d, dat)
  <2>1. d \in StackNode
    BY <1>3 DEF send_stack, StackNode
  <2> QED
    BY <1>3, <2>1 DEF send_stack, DevicesType
<1> QED
  BY <1>1, <1>2, <1>3 DEF SendDevice

LEMMA RecvDeviceType ==
  ASSUME DevicesType, NEW d \in Node, NEW port \in PortIdx, NEW dat \in Byte,
         RecvDevice(d, port, dat)
  PROVE  DevicesType'
<1>1. CASE recv_io(d, port, dat)
  BY <1>1, SMTT(30) DEF recv_io, Unread, DevicesType
<1>2. CASE recv_buf(d, port, dat)
  BY <1>2 DEF recv_buf, devVars, DevicesType
<1>3. CASE recv_stack(d, dat)
  <2>1. d \in StackNode
    BY <1>3 DEF recv_stack, StackNode
  <2>2. SubSeq(stacks[d], 1, Len(stacks[d]) - 1) \in Seq(Byte)
    BY <2>1 DEF DevicesType
  <2> QED
    BY <1>3, <2>1, <2>2 DEF recv_stack, DevicesType
<1> QED
  BY <1>1, <1>2, <1>3 DEF RecvDevice

LEMMA ConsoleType ==
  ASSUME DevicesType, WriteStdin \/ CloseStdin
  PROVE  DevicesType'
<1>1. CASE WriteStdin
  <2>1. PICK b \in Input : stdin' = [stdin EXCEPT !.written = Append(@, b)]
    BY <1>1 DEF WriteStdin
  <2>2. Append(stdin.written, b) \in Seq(Byte)
    BY <2>1, DevicesAssumption DEF DevicesType
  <2> QED
    BY <1>1, <2>1, <2>2 DEF WriteStdin, DevicesType
<1>2. CASE CloseStdin
  BY <1>2 DEF CloseStdin, DevicesType
<1> QED
  BY <1>1, <1>2

LEMMA TurnType ==
  ASSUME SchedulerType, NEW n \in Proc, Turn(n), TickTrue \/ TickFalse \/ Abort
  PROVE  SchedulerType'
<1>1. CASE TickTrue
  BY <1>1, Zenon DEF TickTrue, SchedulerType
<1>2. CASE TickFalse
  <2>1. i' \in 0 .. NNodes
    BY <1>2, TopologyAssumption DEF TopologyOK, TickFalse, Turn, Proc, Node, SchedulerType
  <2> QED
    BY <1>2, <2>1, Zenon DEF TickFalse, SchedulerType
<1>3. CASE Abort
  BY <1>3, Zenon DEF Abort, SchedulerType
<1> QED
  BY <1>1, <1>2, <1>3

LEMMA RunType ==
  ASSUME SchedulerType, SkipNode \/ NextRound \/ Return
  PROVE  SchedulerType'
<1>1. i' \in 0 .. NNodes
  BY TopologyAssumption
  DEF TopologyOK, SkipNode, NextRound, Return, Node, SchedulerType
<1> QED
  BY <1>1, Zenon DEF SkipNode, NextRound, Return, SchedulerType
=============================================================================
