------------------------------ MODULE MCLoader ------------------------------
(***************************************************************************)
(* Files for module Loader: two processors that may copy each other, a     *)
(* buffer or a stack, and wires between all of them.                       *)
(***************************************************************************)
EXTENDS Loader

MCNames     == {"io", "a", "b", "s"}
MCPortNames == {"in", "out", "elm", "idx", "x", "y"}

(* Declarations that belong in a file, and odd ones.                       *)
MCDecls ==
  { Processor("a", <<"x", "y">>), Processor("b", <<"x">>), Copy("b", "a"),
    Copy("a", "b"), Buffer("s"), Copy("b", "s"),
    WireDecl(End("a", "x"), End("b", "x")), WireDecl(End("b", "x"), End("a", "y")),
    WireDecl(End("a", "x"), End("io", "out")), WireDecl(End("s", "idx"), End("a", "x")),
    BadProcessor("b"), Processor("io", <<"x">>), Copy("b", "io"), Copy("io", "b"),
    Stack("s"), Buffer("a"), WireDecl(End("io", "in"), End("s", "elm")),
    WireDecl(End("a", "x"), End("a", "x")), WireDecl(End("s", "elm"), End("a", "y")),
    Garbage }
=============================================================================
