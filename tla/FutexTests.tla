----------------------------- MODULE FutexTests -----------------------------
(***************************************************************************)
(* The futex tests: futex/run.sh with its three programs.                  *)
(***************************************************************************)
EXTENDS FutexRun

Plain == INSTANCE FutexPlain
Robust == INSTANCE FutexRobust
Pi == INSTANCE FutexPi

FutexInit == RunInit

Fresh == [plain |-> Plain!Fresh, robust |-> Robust!Fresh, pi |-> Pi!Fresh]
Restored == IF Test = "robust" THEN Robust!Restored ELSE {image} \ {None}

Script == \/ sh.cur <= Len(TESTS) /\ RunNext(Fresh[Test], Restored)
          \/ TestsEnd /\ UNCHANGED smp

Children == Plain!Kids \cup Pi!Kids

Main ==
  /\ Running
  /\ \/ Test = "plain" /\ Plain!MainStep
     \/ Test = "robust" /\ Robust!MainStep
     \/ Test = "pi" /\ Pi!MainStep
  /\ UNCHANGED runVars

Kid(k) ==
  /\ Running
  /\ \/ Test = "plain" /\ k \in Plain!Kids /\ Plain!KidStep(k)
     \/ Test = "robust" /\ k \in Robust!Kids /\ Robust!KidStep(k)
     \/ Test = "pi" /\ k \in Pi!Kids /\ Pi!KidStep(k)
  /\ UNCHANGED runVars

(* The freezer's signal to a task that sleeps in the kernel. *)
Freezer ==
  /\ prog # None /\ frozen
  /\ \E k \in Children :
       \/ Test = "plain" /\ k \in Plain!Kids /\ Plain!Signal(k)
       \/ Test = "pi" /\ k \in Pi!Kids /\ Pi!Signal(k)
  /\ UNCHANGED runVars

FutexNext == Script \/ Main \/ (\E k \in Children : Kid(k)) \/ Freezer

FutexSpec ==
  /\ FutexInit /\ [][FutexNext]_futexVars
  /\ WF_futexVars(Script) /\ WF_futexVars(Main) /\ \A k \in Children : WF_futexVars(Kid(k))

-----------------------------------------------------------------------------
(* The script and its current program are in states of their types.        *)
TypeOK ==
  /\ RunOK
  /\ prog # None => CASE Test = "plain" -> prog \in Plain!Progs
                      [] Test = "robust" -> Robust!ProgOK(prog)
                      [] Test = "pi" -> Pi!ProgOK(prog)

(* robust.c: at most one child has the futex before it has its tid.        *)
OneHolder == prog # None /\ Test = "robust" => Robust!OneHolder

(* pi.c: with one CPU the children get the futex in priority order.        *)
WokenInOrder == prog # None /\ Test = "pi" => Pi!WokenInOrder

(* With a kernel that loses nothing, pi.c logs no FAIL on one CPU: a       *)
(* waiter that comes late to the wait queue, or that is interrupted by the *)
(* freezer, is no failure of checkpoint or restart.                        *)
NoFalseFail == prog # None /\ Test = "pi" /\ ~smp => ~prog.flog

(* pi.c: a FAIL of any child, on any number of CPUs, is in the status that *)
(* the script sees.                                                        *)
PiFailureReported ==
  prog # None /\ Test = "pi" /\ prog.main = "exit" /\ prog.flog => prog.status # 0

(* A program that is started or restarted ends, so that neither the wait   *)
(* for checkpoint-ready nor a wait for the program blocks the script: no   *)
(* wake is lost and no child sleeps for ever (pi.c on one CPU only).       *)
ProgramEnds ==
  \A pc \in {"await", "wait", "run"} :
    (sh.pc = pc /\ (Test = "pi" => ~smp)) ~> (sh.pc # pc)
=============================================================================
