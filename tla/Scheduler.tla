----------------------------- MODULE Scheduler ------------------------------
(***************************************************************************)
(* run() and run_proc(): the interpreter is one thread that gives every    *)
(* processor node a turn, in the order of declaration, again and again.    *)
(* A turn lasts as long as tick() returns true; run() returns after a      *)
(* round in which the first tick() of every turn returned false.           *)
(***************************************************************************)
EXTENDS Topology

VARIABLES
  i,            \* run()'s loop index; NNodes: the for loop has ended
  progressed,   \* run()'s flag: some turn of this round made progress
  ticked,       \* run_proc(): a tick() of this turn has returned true
  exit          \* "running", or how the process ended

schedVars == <<i, progressed, ticked, exit>>

SchedulerType ==
  /\ i \in 0 .. NNodes
  /\ progressed \in BOOLEAN
  /\ ticked \in BOOLEAN
  /\ exit \in {"running", "done", "error"}

SchedulerInit ==
  i = 0 /\ progressed = FALSE /\ ticked = FALSE /\ exit = "running"

(* The tick() that is about to be called is one of processor node n.       *)
Turn(n) == exit = "running" /\ i = n

(* Defect: run_proc() with an if in place of its while.                    *)
TickTrueYields ==
  /\ progressed' = TRUE /\ i' = i + 1
  /\ UNCHANGED <<ticked, exit>>

(* tick() returns true: run_proc() calls it again.                         *)
TickTrue == ticked' = TRUE /\ UNCHANGED <<i, progressed, exit>>

(* Defect: run() remembers the progress of the last turn only.             *)
TickFalseForgets ==
  /\ progressed' = ticked
  /\ ticked' = FALSE
  /\ i' = i + 1
  /\ UNCHANGED exit

(* Defect: run() begins a new round after every turn that progressed.      *)
TickFalseRestarts ==
  /\ progressed' = (progressed \/ ticked)
  /\ ticked' = FALSE
  /\ i' = IF ticked THEN NNodes ELSE i + 1
  /\ UNCHANGED exit

(* tick() returns false: run_proc() returns whether it had returned true   *)
(* before, and run() goes on to the next node.                             *)
TickFalse ==
  /\ progressed' = (progressed \/ ticked)
  /\ ticked' = FALSE
  /\ i' = i + 1
  /\ UNCHANGED exit

(* errx(), err() or a fatal signal inside tick().                          *)
Abort == exit' = "error" /\ UNCHANGED <<i, progressed, ticked>>

(* Defect: the loop of run() goes on up to i <= vm->nnodes.                *)
SkipNodePastTheEnd ==
  /\ exit = "running" /\ i \in 0 .. NNodes /\ i \notin Proc
  /\ i' = i + 1
  /\ UNCHANGED <<progressed, ticked, exit>>

(* Nodes of the other types have no turn.                                  *)
SkipNode ==
  /\ exit = "running" /\ i \in Node \ Proc
  /\ i' = i + 1
  /\ UNCHANGED <<progressed, ticked, exit>>

(* Defect: the flag is set to false before the loop, not in it.            *)
NextRoundStillProgressed ==
  /\ exit = "running" /\ i = NNodes /\ progressed
  /\ i' = 0
  /\ UNCHANGED <<progressed, ticked, exit>>

(* The end of the do-while body: another round, or the return from run().  *)
NextRound ==
  /\ exit = "running" /\ i = NNodes /\ progressed
  /\ i' = 0 /\ progressed' = FALSE
  /\ UNCHANGED <<ticked, exit>>

Return ==
  /\ exit = "running" /\ i = NNodes /\ ~progressed
  /\ exit' = "done"
  /\ UNCHANGED <<i, progressed, ticked>>
=============================================================================
