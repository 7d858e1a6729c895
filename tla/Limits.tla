------------------------------- MODULE Limits -------------------------------
(***************************************************************************)
(* The limits of noded.h that the compiler and the virtual machine share.  *)
(***************************************************************************)
EXTENDS Integers

CONSTANT UINT8_MAX      \* largest byte: 255 in the code, small in some runs

PORT_MAX == 4
VAR_MAX  == 4

Byte    == 0 .. UINT8_MAX
PortIdx == 0 .. PORT_MAX - 1
VarIdx  == 0 .. VAR_MAX - 1

ASSUME LimitsAssumption == UINT8_MAX \in Nat
=============================================================================
