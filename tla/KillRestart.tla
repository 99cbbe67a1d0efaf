---------------------------- MODULE KillRestart ----------------------------
(***************************************************************************)
(* The loop of process-tree/run-pthread1.sh (and run-pthread2.sh,          *)
(* run-pthread3.sh, run-ptree1.sh, which differ in names): start the test  *)
(* program in a container, wait until it is ready, freeze and checkpoint   *)
(* it, kill it, restart the image, tell it that the test is done.          *)
(*                                                                         *)
(* The whole program, all its tasks, is one value prog; its module gives   *)
(* it a field main that is "exit" once main() has ended.  checkpoint,      *)
(* restart and the freezer are external.  Nobody reads the checkpoint-done *)
(* that these scripts touch, nor the copies they make of the log files:    *)
(* neither is part of the state.                                           *)
(***************************************************************************)
EXTENDS Integers

CONSTANTS
  None,      \* no program running, no image on disk
  LastCnt    \* the script leaves its loop when cnt reaches this (15)

ASSUME LoopAssumption == LastCnt \in Nat \ {0}

VARIABLES
  prog,      \* the running test program
  ready,     \* ./checkpoint-ready exists
  testDone,  \* ./test-done exists
  frozen,    \* state of the container's freezer cgroup
  image,     \* the checkpoint file
  sh         \* the script: [pc, cnt, status]

kvars == <<prog, ready, testDone, frozen, image, sh>>

ShPcs == {"start", "await", "freeze", "checkpoint", "kill", "thaw", "restart",
          "find", "done", "wait", "exit"}

ShOK ==
  /\ ready \in BOOLEAN
  /\ testDone \in BOOLEAN
  /\ frozen \in BOOLEAN
  /\ sh \in [pc : ShPcs, cnt : 1 .. LastCnt, status : {0, 1}]

ShInit ==
  /\ prog = None
  /\ ready = FALSE
  /\ testDone = FALSE
  /\ frozen = FALSE
  /\ image = None
  /\ sh = [pc |-> "start", cnt |-> 1, status |-> 0]

Goto(pc) == sh' = [sh EXCEPT !.pc = pc]
Fail == sh' = [sh EXCEPT !.pc = "exit", !.status = 1]

(* rm -f checkpoint-ready test-done; nsexec ... $TEST_CMD &                *)
Start(fresh) ==
  /\ sh.pc = "start"
  /\ sh.cnt < LastCnt
  /\ ready' = FALSE
  /\ testDone' = FALSE
  /\ prog' = fresh
  /\ Goto("await")
  /\ UNCHANGED <<frozen, image>>

(* The loop ends with the status of its last command. *)
LoopEnds ==
  /\ sh.pc = "start"
  /\ sh.cnt = LastCnt
  /\ Goto("exit")
  /\ UNCHANGED <<prog, ready, testDone, frozen, image>>

AwaitReady ==
  /\ sh.pc = "await"
  /\ ready
  /\ Goto("freeze")
  /\ UNCHANGED <<prog, ready, testDone, frozen, image>>

(* 30 polls, a second apart, without checkpoint-ready. *)
NoReady ==
  /\ sh.pc = "await"
  /\ ~ready
  /\ Fail
  /\ UNCHANGED <<prog, ready, testDone, frozen, image>>

Freeze ==
  /\ sh.pc = "freeze"
  /\ frozen' = TRUE
  /\ Goto("checkpoint")
  /\ UNCHANGED <<prog, ready, testDone, image>>

(* A failing checkpoint ends the script and leaves the container frozen.   *)
Checkpoint ==
  /\ sh.pc = "checkpoint"
  /\ \/ image' = prog /\ Goto("kill")
     \/ Fail /\ UNCHANGED image
  /\ UNCHANGED <<prog, ready, testDone, frozen>>

(* killall -9: a frozen task dies of its SIGKILL when it is thawed.        *)
Kill ==
  /\ sh.pc = "kill"
  /\ Goto("thaw")
  /\ UNCHANGED <<prog, ready, testDone, frozen, image>>

Thaw ==
  /\ sh.pc = "thaw"
  /\ frozen' = FALSE
  /\ prog' = None
  /\ Goto("restart")
  /\ UNCHANGED <<ready, testDone, image>>

(* restart ... & : the script does not learn whether it works.             *)
Restart ==
  /\ sh.pc = "restart"
  /\ prog' \in {image, None}
  /\ Goto("find")
  /\ UNCHANGED <<ready, testDone, frozen, image>>

(* nspid=`pidof restart`: restart --wait is there as long as the program.  *)
FindRestart ==
  /\ sh.pc = "find"
  /\ IF prog = None THEN Fail ELSE Goto("done")
  /\ UNCHANGED <<prog, ready, testDone, frozen, image>>

TouchTestDone ==
  /\ sh.pc = "done"
  /\ testDone' = TRUE
  /\ Goto("wait")
  /\ UNCHANGED <<prog, ready, frozen, image>>

(* wait $nspid: the status is only echoed.                                 *)
WaitRestart ==
  /\ sh.pc = "wait"
  /\ prog.main = "exit"
  /\ prog' = None
  /\ sh' = [sh EXCEPT !.pc = "start", !.cnt = @ + 1]
  /\ UNCHANGED <<ready, testDone, frozen, image>>

ShNext(fresh) ==
  \/ Start(fresh) \/ LoopEnds \/ AwaitReady \/ NoReady \/ Freeze \/ Checkpoint
  \/ Kill \/ Thaw \/ Restart \/ FindRestart \/ TouchTestDone \/ WaitRestart

\* The script has exited, and may have left a program behind.
Over == sh.pc = "exit" /\ UNCHANGED kvars

\* The program's tasks can run.
Running == prog # None /\ ~frozen
=============================================================================
