------------------------------ MODULE Pthread1 ------------------------------
(***************************************************************************)
(* process-tree/pthread1.c.  Worker threads                                *)
(* wait on a condition variable; after test-done a coordinator signals it  *)
(* once, and every worker that wakes up signals it once more.              *)
(***************************************************************************)
EXTENDS KillRestart

CONSTANT N      \* num_threads, the coordinator included

Workers == 1 .. N - 1

Mains == {"create", "ready", "join", "exit"}
WorkerPcs == {"none", "start", "blocked", "woken", "unlock", "signal", "gone"}
CoordPcs == {"none", "poll", "signal", "gone"}

\* created: how many threads exist; locked: the mutex, whose owner nobody
\* checks.
Progs == [main : Mains, created : 0 .. N, pc : [Workers -> WorkerPcs],
          coord : CoordPcs, locked : BOOLEAN]

Fresh == [main |-> "create", created |-> 0, pc |-> [t \in Workers |-> "none"],
          coord |-> "none", locked |-> FALSE]

(* create_threads(): the coordinator is thread 0. *)
CreateThread ==
  /\ prog.main = "create"
  /\ prog' = IF prog.created = 0 THEN [prog EXCEPT !.coord = "poll", !.created = 1]
             ELSE IF prog.created < N
             THEN [prog EXCEPT !.pc[prog.created] = "start", !.created = @ + 1]
             ELSE [prog EXCEPT !.main = "ready"]
  /\ UNCHANGED ready

SetReady ==
  /\ prog.main = "ready"
  /\ ready' = TRUE
  /\ prog' = [prog EXCEPT !.main = "join"]

(* wait_for_threads(), return 0 *)
JoinThreads ==
  /\ prog.main = "join"
  /\ prog.coord = "gone"
  /\ \A t \in Workers : prog.pc[t] = "gone"
  /\ prog' = [prog EXCEPT !.main = "exit"]
  /\ UNCHANGED ready

(* pthread_cond_wait(): unlocks the mutex, held by t or not, and blocks.   *)
CondWait(t) ==
  /\ prog.pc[t] = "start"
  /\ prog' = [prog EXCEPT !.pc[t] = "blocked", !.locked = FALSE]

(* ... and locks it again before it returns. *)
CondWaitReturns(t) ==
  /\ prog.pc[t] = "woken"
  /\ ~prog.locked
  /\ prog' = [prog EXCEPT !.pc[t] = "unlock", !.locked = TRUE]

Unlock(t) ==
  /\ prog.pc[t] = "unlock"
  /\ prog' = [prog EXCEPT !.pc[t] = "signal", !.locked = FALSE]

\* Mutant: a worker that wakes up does not signal the next one.
SignalNobody(t) ==
  /\ prog.pc[t] = "signal"
  /\ prog' = [prog EXCEPT !.pc[t] = "gone"]

\* pthread_cond_signal() wakes one of the blocked threads, if there is one.
CondSignal(p) ==
  IF \E u \in Workers : p.pc[u] = "blocked"
  THEN \E u \in Workers : p.pc[u] = "blocked" /\ prog' = [p EXCEPT !.pc[u] = "woken"]
  ELSE prog' = p

SignalNext(t) ==
  /\ prog.pc[t] = "signal"
  /\ CondSignal([prog EXCEPT !.pc[t] = "gone"])

WorkerStep(t) ==
  (CondWait(t) \/ CondWaitReturns(t) \/ Unlock(t) \/ SignalNext(t)) /\ UNCHANGED ready

(* A condition variable may wake a thread that was not signalled. *)
SpuriousWake(t) ==
  /\ prog.pc[t] = "blocked"
  /\ prog' = [prog EXCEPT !.pc[t] = "woken"]
  /\ UNCHANGED ready

(* do_work_coord() *)
SeeTestDone ==
  /\ prog.coord = "poll"
  /\ testDone
  /\ prog' = [prog EXCEPT !.coord = "signal"]
  /\ UNCHANGED ready

SignalFirst ==
  /\ prog.coord = "signal"
  /\ CondSignal([prog EXCEPT !.coord = "gone"])
  /\ UNCHANGED ready

MainStep == CreateThread \/ SetReady \/ JoinThreads
CoordStep == SeeTestDone \/ SignalFirst

-----------------------------------------------------------------------------
(* The image was taken with every worker blocked in pthread_cond_wait().   *)
BlockedInImage == \A t \in Workers : image.pc[t] = "blocked"
=============================================================================
