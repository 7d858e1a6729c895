------------------------------- MODULE Wires --------------------------------
(***************************************************************************)
(* The wires between processor nodes: send_proc() and recv_proc().         *)
(*                                                                         *)
(* A wire is a three-state handshake.  The sender makes it FULL and blocks *)
(* without leaving its SEND instruction; the receiver makes it CONSUMED    *)
(* and goes on; the sender, retrying the same instruction in a later turn, *)
(* makes it EMPTY again and goes on.  Each branch of the two switches is   *)
(* an operator; which of them return true is up to the caller's action.    *)
(***************************************************************************)
EXTENDS Topology

VARIABLE wires          \* vm->wires

WireStatus == {"EMPTY", "FULL", "CONSUMED"}

WiresType == wires \in [Wire -> [status : WireStatus, buf : Byte]]

(* ecalloc(): all zeroes, and EMPTY is the zero of the enumeration.        *)
WiresInit == wires = [w \in Wire |-> [status |-> "EMPTY", buf |-> 0]]

Status(w) == wires[w].status

(* send_proc(), case EMPTY: returns false.                                 *)
FillWire(w, dat) ==
  /\ Status(w) = "EMPTY"
  /\ wires' = [wires EXCEPT ![w] = [status |-> "FULL", buf |-> dat]]

(* send_proc(), case FULL: returns false.                                  *)
StillFull(w) == Status(w) = "FULL" /\ UNCHANGED wires

(* Defect: a full wire is taken for one that was read.                     *)
ResetWireUnread(w) ==
  /\ Status(w) # "EMPTY"
  /\ wires' = [wires EXCEPT ![w].status = "EMPTY"]

(* send_proc(), case CONSUMED: returns true.                               *)
ResetWire(w) ==
  /\ Status(w) = "CONSUMED"
  /\ wires' = [wires EXCEPT ![w].status = "EMPTY"]

(* recv_proc(), cases EMPTY and CONSUMED: returns false.                   *)
NothingToRead(w) == Status(w) \in {"EMPTY", "CONSUMED"} /\ UNCHANGED wires

(* Defect: the receiver does not say that it has read the message.         *)
ConsumeWireUnmarked(w, dat) ==
  /\ Status(w) = "FULL"
  /\ dat = wires[w].buf
  /\ UNCHANGED wires

(* recv_proc(), case FULL: returns true with *dest = dat.                  *)
ConsumeWire(w, dat) ==
  /\ Status(w) = "FULL"
  /\ dat = wires[w].buf
  /\ wires' = [wires EXCEPT ![w].status = "CONSUMED"]
=============================================================================
