-------------------------------- MODULE Noded -------------------------------
(***************************************************************************)
(* What a Noded program promises, whatever executes it: the nodes run side *)
(* by side, a message between two processors passes from SEND to RECV in   *)
(* one step that both take together, devices answer at once, and the whole *)
(* program is over when no node can take a step.  There are no turns, no   *)
(* rounds and no state of a wire.                                          *)
(***************************************************************************)
EXTENDS Devices

CONSTANT Program        \* as in module VM

VARIABLES
  instr,        \* the instruction processor n is at, or Ready for the next
  top,          \* the byte on top of its stack
  exit          \* "running", or how the program ended

vars == <<instr, top, devVars, exit>>

Ready == [op |-> "ready", port |-> 0]
Fault == [op |-> "fault", port |-> 0]
Instr == [op : {"ready", "local", "halt", "fault", "send", "recv"}, port : PortIdx]

At(n, op)       == instr[n].op = op
Connected(n)    == Wired(n, instr[n].port)
PeerIsProc(n)   == Connected(n) /\ PeerType(n, instr[n].port) = "PROC_NODE"
PeerIsDevice(n) == Connected(n) /\ PeerType(n, instr[n].port) # "PROC_NODE"
TheWire(n)      == WireOf(n, instr[n].port)
Peer(n)         == Port[n][instr[n].port].recp
PeerPort(n)     == Port[n][instr[n].port].recp_port

(* s and r are at the two ends of a wire, one to send, the other to        *)
(* receive.                                                                *)
Meet(s, r) ==
  /\ At(s, "send") /\ PeerIsProc(s)
  /\ At(r, "recv") /\ PeerIsProc(r)
  /\ TheWire(s) = TheWire(r)

Init ==
  /\ instr \in [Proc -> Instr]
  /\ \A n \in Proc :
       instr[n] \in {c \in Program[n] : c.op # "send"} \union {Fault}
  /\ top = [n \in Proc |-> 0]
  /\ DevicesInit
  /\ exit = "running"

-----------------------------------------------------------------------------
(* n goes on to an instruction of its program with one of V on top.        *)
Goes(n, V) ==
  /\ \E c \in Program[n] : instr' = [instr EXCEPT ![n] = c]
  /\ \E v \in V : top' = [top EXCEPT ![n] = v]
  /\ UNCHANGED exit

Dies == exit' = "error" /\ UNCHANGED <<instr, top>>

Step(n) ==
  /\ At(n, "ready") \/ At(n, "local")
  /\ Goes(n, Byte)
  /\ UNCHANGED devVars

Breaks(n) ==
  /\ \/ At(n, "fault")
     \/ instr[n].op \in {"send", "recv"} /\ ~Connected(n)
     \/ At(n, "send") /\ PeerIsDevice(n) /\ SendDeviceFails(Peer(n), PeerPort(n))
     \/ At(n, "recv") /\ PeerIsDevice(n) /\ RecvDeviceFails(Peer(n), PeerPort(n))
  /\ Dies
  /\ UNCHANGED devVars

(* The message passes: s is ready for its next instruction, r is at its    *)
(* next one with the byte of s on top of its stack.                        *)
Rendezvous(s, r) ==
  /\ Meet(s, r)
  /\ \E c \in Program[r] : instr' = [instr EXCEPT ![s] = Ready, ![r] = c]
  /\ top' = [top EXCEPT ![r] = top[s]]
  /\ UNCHANGED <<exit, devVars>>

(* The stack of r has no room for it.                                      *)
Overflow(s, r) ==
  /\ Meet(s, r) /\ Fault \in Program[r]
  /\ instr' = [instr EXCEPT ![s] = Ready] /\ UNCHANGED top
  /\ exit' = "error"
  /\ UNCHANGED devVars

Write(n) ==
  /\ At(n, "send") /\ PeerIsDevice(n)
  /\ SendDevice(Peer(n), PeerPort(n), top[n])
  /\ Goes(n, Byte)

Read(n) ==
  /\ At(n, "recv") /\ PeerIsDevice(n)
  /\ \E dat \in Byte :
       /\ RecvDevice(Peer(n), PeerPort(n), dat)
       /\ Goes(n, {dat}) \/ (Fault \in Program[n] /\ Dies)

(* Processor n waits: it halted, or what it asks of another node is not    *)
(* there.                                                                  *)
Waits(n) ==
  \/ At(n, "halt")
  \/ At(n, "send") /\ PeerIsProc(n) /\ \A r \in Proc : ~Meet(n, r)
  \/ At(n, "recv") /\ PeerIsProc(n) /\ \A s \in Proc : ~Meet(s, n)
  \/ At(n, "recv") /\ PeerIsDevice(n) /\ RecvDeviceBlocks(Peer(n), PeerPort(n))

(* "When all nodes halt, the program itself ends."                         *)
Finish ==
  /\ \A n \in Proc : Waits(n)
  /\ exit' = "done"
  /\ UNCHANGED <<instr, top, devVars>>

Console == (WriteStdin \/ CloseStdin) /\ UNCHANGED <<instr, top, exit>>

Next ==
  /\ exit = "running"
  /\ \/ \E n \in Proc : Step(n) \/ Breaks(n) \/ Write(n) \/ Read(n)
     \/ \E s, r \in Proc : Rendezvous(s, r) \/ Overflow(s, r)
     \/ Finish \/ Console

Spec == Init /\ [][Next]_vars
=============================================================================
