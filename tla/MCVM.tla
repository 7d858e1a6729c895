-------------------------------- MODULE MCVM --------------------------------
(***************************************************************************)
(* Small Noded programs for TLC: the types of the nodes in the order of    *)
(* their declaration (node 0 is io), the port tables that the wires leave, *)
(* and the instructions that each processor may execute.                   *)
(***************************************************************************)
EXTENDS VM, TLC

Zeroes  == [n \in BufNode |-> [b \in Byte |-> 0]]
WireIds == UNION {{Port[n][p].wire : p \in DOMAIN Port[n]} : n \in Proc}

To(node, port, wire) == [recp |-> node, recp_port |-> port, wire |-> wire]

-----------------------------------------------------------------------------
(* Three processors in a ring.  One uses io.in the wrong way, one has a    *)
(* stack node and a port that is wired to itself, and the third one a      *)
(* buffer node and a port without a wire.                                  *)
RingType == 0 :> "IO_NODE" @@ 1 :> "PROC_NODE" @@ 2 :> "STACK_NODE" @@
            3 :> "PROC_NODE" @@ 4 :> "BUFFER_NODE" @@ 5 :> "PROC_NODE"
RingPort == 1 :> (0 :> To(3, 0, "a") @@ 1 :> To(5, 1, "c") @@ 3 :> To(0, 0, "f")) @@
            3 :> (0 :> To(1, 0, "a") @@ 1 :> To(5, 0, "b") @@ 2 :> To(2, 0, "e")
                  @@ 3 :> To(3, 3, "h")) @@
            5 :> (0 :> To(3, 1, "b") @@ 1 :> To(1, 1, "c") @@ 2 :> To(4, 0, "g"))
RingProgram == 1 :> {Recv(1), Send(0), Send(3), Fault} @@
               3 :> {Recv(0), Send(1), Send(2), Recv(2), Send(3)} @@
               5 :> {Recv(0), Send(1), Recv(2), Send(3)}

(* One wire that both of its processors send on and receive from.          *)
MixedType == 0 :> "IO_NODE" @@ 1 :> "PROC_NODE" @@ 2 :> "PROC_NODE"
MixedPort == 1 :> (0 :> To(2, 0, "a")) @@ 2 :> (0 :> To(1, 0, "a"))
MixedProgram == 1 :> {Local, Send(0), Recv(0), Halt} @@
                2 :> {Local, Send(0), Recv(0), Halt}

(* Two processors that could keep each other busy for ever, once the third *)
(* one, which comes last in every round, has sent them what it reads from  *)
(* the console.                                                            *)
RelayType == 0 :> "IO_NODE" @@ 1 :> "PROC_NODE" @@ 2 :> "PROC_NODE" @@
             3 :> "PROC_NODE"
RelayPort == 1 :> (0 :> To(2, 0, "a") @@ 1 :> To(3, 0, "b")) @@
             2 :> (0 :> To(1, 0, "a")) @@
             3 :> (0 :> To(1, 1, "b") @@ 1 :> To(0, 0, "c"))
RelayProgram == 1 :> {Local, Recv(1), Send(0)} @@ 2 :> {Recv(0), Halt} @@
                3 :> {Local, Recv(1), Send(0)}

=============================================================================
