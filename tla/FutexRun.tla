------------------------------ MODULE FutexRun ------------------------------
(***************************************************************************)
(* futex/run.sh: each program of TESTS is started, checkpointed once while *)
(* frozen, waited for, and restarted from the image.  The script runs with *)
(* set -e: a command that fails, a wait included, ends it through the ERR  *)
(* trap.                                                                   *)
(*                                                                         *)
(* The program, with its children and the kernel's state of its futexes,   *)
(* is one record prog.  Its module gives it main, "exit" once the parent   *)
(* has ended, with its status, and (robust, pi) flog: its log has a FAIL   *)
(* line.                                                                   *)
(***************************************************************************)
EXTENDS Integers, Sequences

CONSTANTS
  None,    \* no program, no image
  N,       \* the number of children of plain.c and robust.c
  NPi,     \* and of pi.c
  Retries  \* pi.c: tries to sleep on the wait queue, and to wake it

ASSUME FutexAssumption ==
  /\ {N, NPi} \subseteq Nat \ {0, 1}
  /\ Retries \in Nat \ {0}

\* The programs, in order; pi is left out where ulimit -r allows no two
\* real-time priorities.
TESTS == <<"plain", "robust", "pi">>

VARIABLES
  smp,       \* there is more than one CPU; chosen where it first matters
  prog,      \* the running program
  ready,     \* checkpoint-ready exists
  ckptDone,  \* checkpoint-done exists
  tbrok,     \* TBROK exists
  frozen,    \* state of the freezer cgroup
  image,     \* checkpoint-${T}
  sh         \* the script

futexVars == <<smp, prog, ready, ckptDone, tbrok, frozen, image, sh>>
runVars == <<smp, ckptDone, frozen, image, sh>>

RunOK ==
  /\ {smp, ready, ckptDone, tbrok, frozen} \subseteq BOOLEAN
  /\ sh \in [pc : {"start", "await", "freeze", "checkpoint", "thaw", "touch", "wait",
                   "restart", "run", "exit"},
             cur : 1 .. Len(TESTS) + 1, failed : 0 .. 1]

RunInit ==
  /\ smp = FALSE
  /\ prog = None /\ image = None
  /\ ready = FALSE /\ ckptDone = FALSE /\ tbrok = FALSE /\ frozen = FALSE
  /\ sh = [pc |-> "start", cur |-> 1, failed |-> 0]

Test == TESTS[sh.cur]
Goto(pc) == sh' = [sh EXCEPT !.pc = pc]

(* rm -f checkpoint-* TBROK; ../${T} &                                     *)
StartTest(fresh) ==
  /\ sh.pc = "start"
  /\ sh.cur <= Len(TESTS)
  /\ ready' = FALSE /\ ckptDone' = FALSE /\ tbrok' = FALSE
  /\ image' = None
  /\ prog' = fresh
  /\ smp' \in IF Test = "pi" THEN BOOLEAN ELSE {smp}
  /\ Goto("await")
  /\ UNCHANGED frozen

TestsEnd ==
  /\ sh.pc = "start"
  /\ sh.cur > Len(TESTS)
  /\ Goto("exit")
  /\ UNCHANGED <<prog, ready, ckptDone, tbrok, frozen, image>>

AwaitReady ==
  /\ sh.pc = "await"
  /\ ready
  /\ Goto("freeze")
  /\ UNCHANGED <<prog, ready, ckptDone, tbrok, frozen, image>>

Freeze ==
  /\ sh.pc = "freeze"
  /\ frozen' = TRUE
  /\ Goto("checkpoint")
  /\ UNCHANGED <<prog, ready, ckptDone, tbrok, image>>

(* trap '[thaw;] do_err; break' ERR EXIT: kill the program, failed++.      *)
DoErr ==
  /\ frozen' = FALSE
  /\ prog' = None
  /\ sh' = [sh EXCEPT !.pc = "exit", !.failed = 1]

Checkpoint ==
  /\ sh.pc = "checkpoint"
  /\ \/ /\ prog.main # "exit"
        /\ image' = prog
        /\ Goto("thaw")
        /\ UNCHANGED <<prog, frozen>>
     \/ DoErr /\ UNCHANGED image
  /\ UNCHANGED <<ready, ckptDone, tbrok>>

Thaw ==
  /\ sh.pc = "thaw"
  /\ frozen' = FALSE
  /\ Goto("touch")
  /\ UNCHANGED <<prog, ready, ckptDone, tbrok, image>>

TouchDone ==
  /\ sh.pc = "touch"
  /\ ckptDone' = TRUE
  /\ Goto("wait")
  /\ UNCHANGED <<prog, ready, tbrok, frozen, image>>

(* wait ${TEST_PID}; with TBROK the test is run again.                     *)
WaitTest ==
  /\ sh.pc = "wait"
  /\ prog.main = "exit"
  /\ IF prog.status # 0 THEN DoErr
     ELSE IF tbrok THEN Goto("start") /\ prog' = None /\ UNCHANGED frozen
     ELSE Goto("restart") /\ prog' = None /\ UNCHANGED frozen
  /\ UNCHANGED <<ready, ckptDone, tbrok, image>>

Restart(restored) ==
  /\ sh.pc = "restart"
  /\ \/ prog' \in restored /\ Goto("run") /\ UNCHANGED frozen
     \/ DoErr
  /\ UNCHANGED <<ready, ckptDone, tbrok, image>>

(* --copy-status: the restarted program's status is restart's.             *)
RestartReturns ==
  /\ sh.pc = "run"
  /\ prog.main = "exit"
  /\ IF prog.status # 0 THEN DoErr
     ELSE /\ sh' = [sh EXCEPT !.pc = "start", !.cur = @ + 1]
          /\ prog' = None /\ UNCHANGED frozen
  /\ UNCHANGED <<ready, ckptDone, tbrok, image>>

RunNext(fresh, restored) ==
  \/ StartTest(fresh)
  \/ /\ \/ AwaitReady \/ Freeze \/ Checkpoint \/ Thaw \/ TouchDone
        \/ WaitTest \/ Restart(restored) \/ RestartReturns
     /\ UNCHANGED smp

Running == prog # None /\ ~frozen
=============================================================================
