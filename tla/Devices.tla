------------------------------ MODULE Devices -------------------------------
(***************************************************************************)
(* The nodes that run no code: the IO node, buffer nodes and stack nodes,  *)
(* with the sendlets and recvlets that a processor's SEND and RECV call.   *)
(*                                                                         *)
(* Every handler is split by its outcome: X(...) is the call that returns  *)
(* true, XBlocks the one that returns false and changes nothing, XFails    *)
(* the one that ends the process through errx() or err().                  *)
(***************************************************************************)
EXTENDS Topology, Sequences

CONSTANTS
  BufData,      \* BufData[n]: the 256 bytes add_buf_node() copies into n
  MaxStack,     \* bound: the append to a stack of this length runs out of memory
  Input,        \* bytes that the environment may write to stdin
  MaxStdin,     \* bound: how many of them it ever writes
  MaxOut        \* bound: bytes recorded of each output stream

VARIABLES
  bufs,         \* struct BufNode of every buffer node
  stacks,       \* the ByteVec of every stack node
  stdin,        \* console input: what was written, how much is read, its end
  out           \* what putc() wrote to stdout and stderr

devVars == <<bufs, stacks, stdin, out>>

IO_IN  == 0
IO_OUT == 1
IO_ERR == 2
BUFFER_ELM == 0
BUFFER_IDX == 1

ASSUME DevicesAssumption ==
  /\ BufData \in [BufNode -> [Byte -> Byte]]
  /\ Input \subseteq Byte
  /\ MaxStack \in Nat /\ MaxStdin \in Nat /\ MaxOut \in Nat

DevicesType ==
  /\ bufs \in [BufNode -> [idx : Byte, data : [Byte -> Byte]]]
  /\ stacks \in [StackNode -> Seq(Byte)]
  /\ stdin \in [written : Seq(Byte), nread : Nat, state : {"open", "eof"}]
  /\ out \in [{IO_OUT, IO_ERR} -> Seq(Byte)]

(* add_buf_node(), add_stack_node(): ecalloc() makes idx 0 and vec empty.  *)
DevicesInit ==
  /\ bufs = [n \in BufNode |-> [idx |-> 0, data |-> BufData[n]]]
  /\ stacks = [n \in StackNode |-> <<>>]
  /\ stdin = [written |-> <<>>, nread |-> 0, state |-> "open"]
  /\ out = [s \in {IO_OUT, IO_ERR} |-> <<>>]

-----------------------------------------------------------------------------
(* The IO node.  A getchar() with no input and no end of file does neither *)
(* of the two: it keeps the whole interpreter waiting.                     *)

Unread == Len(stdin.written) - stdin.nread

send_io(d, port, dat) ==
  /\ Type[d] = "IO_NODE" /\ port \in {IO_OUT, IO_ERR}
  /\ out' = IF Len(out[port]) < MaxOut
              THEN [out EXCEPT ![port] = Append(@, dat)] ELSE out
  /\ UNCHANGED <<bufs, stacks, stdin>>

send_ioFails(d, port) == Type[d] = "IO_NODE" /\ port \notin {IO_OUT, IO_ERR}

recv_io(d, port, dat) ==
  /\ Type[d] = "IO_NODE" /\ port = IO_IN
  /\ Unread > 0
  /\ dat = stdin.written[stdin.nread + 1]
  /\ stdin' = [stdin EXCEPT !.nread = @ + 1]
  /\ UNCHANGED <<bufs, stacks, out>>

recv_ioBlocks(d, port) ==
  /\ Type[d] = "IO_NODE" /\ port = IO_IN
  /\ Unread = 0 /\ stdin.state = "eof"

recv_ioFails(d, port) == Type[d] = "IO_NODE" /\ port # IO_IN

(* The program at the other end of stdin: it writes a byte or closes it.   *)
WriteStdin ==
  /\ stdin.state = "open" /\ Len(stdin.written) < MaxStdin
  /\ \E b \in Input : stdin' = [stdin EXCEPT !.written = Append(@, b)]
  /\ UNCHANGED <<bufs, stacks, out>>

CloseStdin ==
  /\ stdin.state = "open"
  /\ stdin' = [stdin EXCEPT !.state = "eof"]
  /\ UNCHANGED <<bufs, stacks, out>>

-----------------------------------------------------------------------------
(* Buffer nodes: never block.                                              *)

send_buf(d, port, dat) ==
  /\ Type[d] = "BUFFER_NODE"
  /\ \/ port = BUFFER_IDX /\ bufs' = [bufs EXCEPT ![d].idx = dat]
     \/ port = BUFFER_ELM /\ bufs' = [bufs EXCEPT ![d].data[bufs[d].idx] = dat]
  /\ UNCHANGED <<stacks, stdin, out>>

recv_buf(d, port, dat) ==
  /\ Type[d] = "BUFFER_NODE"
  /\ \/ port = BUFFER_IDX /\ dat = bufs[d].idx
     \/ port = BUFFER_ELM /\ dat = bufs[d].data[bufs[d].idx]
  /\ UNCHANGED devVars

bufFails(d, port) ==
  Type[d] = "BUFFER_NODE" /\ port \notin {BUFFER_ELM, BUFFER_IDX}

-----------------------------------------------------------------------------
(* Stack nodes: a push always returns true, unless erealloc() finds no     *)
(* memory; a pop of an empty stack blocks.  The port is not looked at.     *)

send_stack(d, dat) ==
  /\ Type[d] = "STACK_NODE" /\ Len(stacks[d]) < MaxStack
  /\ stacks' = [stacks EXCEPT ![d] = Append(@, dat)]
  /\ UNCHANGED <<bufs, stdin, out>>

send_stackFails(d) == Type[d] = "STACK_NODE" /\ Len(stacks[d]) >= MaxStack

recv_stack(d, dat) ==
  /\ Type[d] = "STACK_NODE" /\ stacks[d] # <<>>
  /\ dat = stacks[d][Len(stacks[d])]
  /\ stacks' = [stacks EXCEPT ![d] = SubSeq(@, 1, Len(@) - 1)]
  /\ UNCHANGED <<bufs, stdin, out>>

recv_stackBlocks(d) == Type[d] = "STACK_NODE" /\ stacks[d] = <<>>

-----------------------------------------------------------------------------
(* port_table: the row of the peer's type.                                 *)

SendDevice(d, port, dat) ==
  send_io(d, port, dat) \/ send_buf(d, port, dat) \/ send_stack(d, dat)

SendDeviceFails(d, port) ==
  send_ioFails(d, port) \/ bufFails(d, port) \/ send_stackFails(d)

RecvDevice(d, port, dat) ==
  recv_io(d, port, dat) \/ recv_buf(d, port, dat) \/ recv_stack(d, dat)

RecvDeviceBlocks(d, port) == recv_ioBlocks(d, port) \/ recv_stackBlocks(d)

RecvDeviceFails(d, port) == recv_ioFails(d, port) \/ bufFails(d, port)
=============================================================================
