-------------------------------- MODULE Flow --------------------------------
(***************************************************************************)
(* What must be true of bytecode for tick() to stay inside of it, and for  *)
(* the stack to hold what each instruction takes: properties of the bytes  *)
(* alone, whatever the processor computes with them.                       *)
(***************************************************************************)
EXTENDS Processor

(* How much of the stack an instruction takes and gives.                   *)
Takes(op) ==
  IF op \in Binary THEN 2
  ELSE IF op \in {OP["POP"], OP["DUP"], OP["FJMP"]} \union Unary
                   \union Family("SAVE0") \union Family("SEND0") THEN 1 ELSE 0

Gives(op) ==
  IF op = OP["DUP"] THEN 2
  ELSE IF op \in {OP["PUSH"]} \union Binary \union Unary
                   \union Family("LOAD0") \union Family("RECV0") THEN 1 ELSE 0

At(code, a) == [NewProcessor(code) EXCEPT !.isp = a]

(* Where a processor may go from address a.                                *)
Targets(code, a) ==
  LET p == At(code, a)
      op == Op(p)
  IN  {Wrapped(p, t) : t \in
         CASE op = OP["HALT"] -> {}
           [] op = OP["JMP"]  -> {Addr(p)}
           [] op = OP["FJMP"] -> {Addr(p), a + 3}
           [] OTHER           -> {a + Size(op)}}

(* At every address that the code gets to begins an instruction, the whole *)
(* of which is in the code, or it is the end.                              *)
WellFormed(code, starts) ==
  /\ starts \subseteq 0 .. Len(code) /\ 0 \in starts
  /\ \A a \in starts \ {Len(code)} : code[a + 1] \in DOMAIN Opcode =>
       a + Size(code[a + 1]) <= Len(code) /\ Targets(code, a) \subseteq starts

(* And at each of them the stack has one height: that which the            *)
(* instruction needs, none at the beginning, and always some room.         *)
Balanced(code, heights) ==
  /\ WellFormed(code, DOMAIN heights) /\ Len(code) \notin DOMAIN heights
  /\ heights[0] = 0
  /\ \A a \in DOMAIN heights :
       LET op == code[a + 1]
       IN  /\ op \in DOMAIN Opcode
           /\ heights[a] \in Takes(op) .. STACK_SIZE
           /\ \A t \in Targets(code, a) : heights[t] = heights[a] - Takes(op) + Gives(op)

IsWellFormed(code) == \E starts \in SUBSET (0 .. Len(code)) : WellFormed(code, starts)

IsBalanced(code) ==
  \E starts \in SUBSET (0 .. Len(code)) : \E heights \in [starts -> 0 .. STACK_SIZE] :
    Balanced(code, heights)

-----------------------------------------------------------------------------
(* Such addresses, and such heights, found by an abstract run of the code: *)
(* what it may get to, step after step, which takes no more steps than     *)
(* there are bytes.                                                        *)
Successors(code, a) ==
  IF a < Len(code) /\ code[a + 1] \in DOMAIN Opcode THEN Targets(code, a) ELSE {}

Further(code, A) == A \union UNION {Successors(code, a) : a \in A}

Starts(code) ==
  LET run[k \in 0 .. Len(code)] == IF k = 0 THEN {0} ELSE Further(code, run[k - 1])
  IN  run[Len(code)]

Follow(code, r) ==
  LET op == Op(At(code, r.at))
  IN  IF r.at < Len(code) /\ r.height \in 0 .. STACK_SIZE
      THEN {[at |-> t, height |-> r.height - Takes(op) + Gives(op)] :
              t \in Targets(code, r.at)}
      ELSE {}

Reached(code) ==
  LET run[k \in 0 .. Len(code)] ==
        IF k = 0 THEN {[at |-> 0, height |-> 0]}
        ELSE UNION {{r} \union Follow(code, r) : r \in run[k - 1]}
  IN  run[Len(code)]

AgreeOnHeights(R) == \A q, r \in R : q.at = r.at => q.height = r.height
Addresses(R)      == {r.at : r \in R}
HeightsOf(R)      == [a \in Addresses(R) |-> (CHOOSE r \in R : r.at = a).height]
=============================================================================
