----------------------------- MODULE TokenStream ----------------------------
(***************************************************************************)
(* What the parsers expect of a scanner: the tokens of a file in their     *)
(* order and TOK_EOF after the last.  The next one may be looked at any    *)
(* number of times, is taken or passed over once, and stays where it is    *)
(* if an expect() wants another one.  Module Compiler is written on it.    *)
(***************************************************************************)
EXTENDS Sequences

CONSTANTS
  Streams,        \* the tokens of some files
  Wanted          \* the types that are expected

VARIABLES
  toks,           \* the tokens that nobody has taken
  given           \* the token that the last call returned, if it did

Nothing == [type |-> "", lit |-> ""]
EOF     == [type |-> "TOK_EOF", lit |-> ""]

Front(ts) == IF ts = << >> THEN EOF ELSE Head(ts)
Rest(ts)  == IF ts = << >> THEN << >> ELSE Tail(ts)

Init == toks \in Streams /\ given = Nothing

Look(ts) == given' = Front(ts) /\ toks' = ts
Take(ts) == given' = Front(ts) /\ toks' = Rest(ts)
Skip(ts) == given' = Nothing /\ toks' = Rest(ts)

Expect(ts, type) ==
  IF Front(ts).type = type THEN Take(ts) ELSE given' = Nothing /\ toks' = ts

Next ==
  \E ts \in {toks} :
    Look(ts) \/ Take(ts) \/ Skip(ts) \/ \E type \in Wanted : Expect(ts, type)

Spec == Init /\ [][Next]_<<toks, given>>
=============================================================================
