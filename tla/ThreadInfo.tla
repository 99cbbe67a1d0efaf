----------------------------- MODULE ThreadInfo -----------------------------
(***************************************************************************)
(* What process-tree/pthread2.c and pthread3.c have in common: N threads   *)
(* collect what the system says of them, meet main() at a barrier, and     *)
(* compare with what it says after test-done.  The data are one attribute  *)
(* of each thread, with its "own" value or the "default" that a restart    *)
(* leaves when it loses it.                                                *)
(***************************************************************************)
EXTENDS KillRestart

CONSTANT N      \* num_threads

Threads == 0 .. N - 1

Progs ==
  [main : {"create", "barrier", "inside", "ready", "join", "exit"}, i : 0 .. N,
   pc : [Threads -> {"none", "start", "collect", "barrier", "inside", "poll", "compare", "gone"}],
   attr : [Threads -> {"own", "default"}], exp : [Threads -> {"unset", "own", "default"}],
   status : {0, 1}]

FreshWith(attr) ==
  [main |-> "create", i |-> 0, pc |-> [t \in Threads |-> "none"],
   attr |-> [t \in Threads |-> attr], exp |-> [t \in Threads |-> "unset"], status |-> 0]

DoExit(status) == prog' = [prog EXCEPT !.main = "exit", !.status = status]

-----------------------------------------------------------------------------
(* main() *)
CreateThread(pc) ==
  /\ prog.main = "create"
  /\ prog' = IF prog.i < N THEN [prog EXCEPT !.pc[prog.i] = pc, !.i = @ + 1]
             ELSE [prog EXCEPT !.main = "barrier", !.i = 0]

\* Mutant: main() does not take part in the barrier.
MainArriveNot ==
  /\ prog.main = "barrier"
  /\ prog' = [prog EXCEPT !.main = "ready"]

MainArrive ==
  /\ prog.main = "barrier"
  /\ prog' = [prog EXCEPT !.main = "inside"]

AllArrived ==
  /\ prog.main \notin {"create", "barrier"}
  /\ \A t \in Threads : prog.pc[t] \notin {"none", "start", "collect", "barrier"}

MainLeave ==
  /\ prog.main = "inside"
  /\ AllArrived
  /\ prog' = [prog EXCEPT !.main = "ready"]

SetReady ==
  /\ prog.main = "ready"
  /\ ready' = TRUE
  /\ prog' = [prog EXCEPT !.main = "join"]

\* Mutant: i <= n.
JoinPastLast ==
  /\ prog.main = "join"
  /\ prog.i < N
  /\ prog.pc[prog.i] = "gone"
  /\ prog' = [prog EXCEPT !.i = @ + 1]

(* wait_for_threads(): every status set is 0. *)
JoinThread ==
  /\ prog.main = "join"
  /\ IF prog.i = N THEN DoExit(0)
     ELSE prog.pc[prog.i] = "gone" /\ prog' = [prog EXCEPT !.i = @ + 1]

MainStep(pc) ==
  \/ (CreateThread(pc) \/ MainArrive \/ MainLeave \/ JoinThread) /\ UNCHANGED ready
  \/ SetReady

-----------------------------------------------------------------------------
(* do_work() *)
Arrive(t) ==
  /\ prog.pc[t] = "barrier"
  /\ prog' = [prog EXCEPT !.pc[t] = "inside"]

Leave(t) ==
  /\ prog.pc[t] = "inside"
  /\ AllArrived
  /\ prog' = [prog EXCEPT !.pc[t] = "poll"]

SeeTestDone(t) ==
  /\ prog.pc[t] = "poll"
  /\ testDone
  /\ prog' = [prog EXCEPT !.pc[t] = "compare"]

(* The end of a thread that found nothing wrong. *)
ThreadExit(t) == prog' = [prog EXCEPT !.pc[t] = "gone"]

(* A restart that loses the attribute of some threads. *)
LossyImages ==
  IF image = None THEN {}
  ELSE {[image EXCEPT !.attr = [t \in Threads |-> IF t \in S THEN "default" ELSE @[t]]] :
          S \in SUBSET Threads \ {{}}}

-----------------------------------------------------------------------------
(* The exit status is 0 exactly when the restart has lost no attribute of  *)
(* any thread: the barrier makes sure that what a thread compares with was *)
(* collected before the checkpoint, and main() exits after every thread    *)
(* has compared.                                                           *)
VerdictRight ==
  prog.main = "exit" => (prog.status = 0 <=> \A t \in Threads : prog.attr[t] = "own")
=============================================================================
