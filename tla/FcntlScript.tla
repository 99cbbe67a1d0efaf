---------------------------- MODULE FcntlScript ----------------------------
(***************************************************************************)
(* fileio/run-fcntltests.sh, the wrapper of filelock1, filelock2,          *)
(* filelease1, filelease2 and fsetown1.                                    *)
(*                                                                         *)
(* checkpoint() ends the script whether the checkpoint works or not ("At   *)
(* the moment we expect failure because checkpoint of file locks is not    *)
(* supported"); the loop behind it is the one the programs are written     *)
(* for.  Both are modelled.                                                *)
(*                                                                         *)
(* The program, all its processes and what the kernel holds for them, is   *)
(* one record prog.  Its module gives it main, which is "exit" once the    *)
(* container's init has ended, and fail: its log has a line with FAIL.     *)
(* FcntlTests puts the script and its programs together.                   *)
(***************************************************************************)
EXTENDS Integers

CONSTANTS
  None,      \* no program, no image
  LastCnt    \* the loop is left when cnt reaches this (20)

ASSUME LoopAssumption == LastCnt \in Nat \ {0}

VARIABLES
  test,      \* $test_case
  faults,    \* the kernel may refuse what the program asks for, and the
             \* restart may lose what the program had
  prog,      \* the program in its container
  ready,     \* checkpoint-ready exists
  ckptDone,  \* checkpoint-done exists; the script never removes it
  testDone,  \* test-done exists
  frozen,    \* state of the container's freezer cgroup
  image,     \* the checkpoint file, and the snapshot of the log
  sh         \* the script

fvars == <<test, faults, prog, ready, ckptDone, testDone, frozen, image, sh>>
scriptVars == <<test, faults, ckptDone, testDone, frozen, image, sh>>

ShOK ==
  /\ {ready, ckptDone, testDone, frozen} \subseteq BOOLEAN
  /\ sh \in [pc : {"start", "await", "freeze", "checkpoint", "touch", "restart", "find",
                   "done", "wait", "exit"},
             cnt : 1 .. LastCnt, status : {0, 1}]

ShInit ==
  /\ prog = None /\ image = None
  /\ ready = FALSE /\ ckptDone = FALSE /\ testDone = FALSE /\ frozen = FALSE
  /\ sh = [pc |-> "start", cnt |-> 1, status |-> 0]

Goto(pc) == sh' = [sh EXCEPT !.pc = pc]
Exit(status) == sh' = [sh EXCEPT !.pc = "exit", !.status = status]

(* rm -f checkpoint-ready test-done; nsexec ... $TEST_CMD &                *)
Start(fresh) ==
  /\ sh.pc = "start"
  /\ sh.cnt < LastCnt
  /\ ready' = FALSE
  /\ testDone' = FALSE
  /\ prog' = fresh
  /\ Goto("await")
  /\ UNCHANGED <<ckptDone, frozen, image>>

LoopEnds ==
  /\ sh.pc = "start"
  /\ sh.cnt = LastCnt
  /\ Goto("exit")
  /\ UNCHANGED <<prog, ready, ckptDone, testDone, frozen, image>>

(* wait_for_checkpoint_ready() *)
AwaitReady ==
  /\ sh.pc = "await"
  /\ ready
  /\ Goto("freeze")
  /\ UNCHANGED <<prog, ready, ckptDone, testDone, frozen, image>>

(* ... and check_for_failure() in it. *)
FailsEarly ==
  /\ sh.pc = "await"
  /\ ~ready
  /\ prog.fail
  /\ Exit(1)
  /\ UNCHANGED <<prog, ready, ckptDone, testDone, frozen, image>>

(* freeze_pid, create_fs_snapshot *)
Freeze ==
  /\ sh.pc = "freeze"
  /\ frozen' = TRUE
  /\ Goto("checkpoint")
  /\ UNCHANGED <<prog, ready, ckptDone, testDone, image>>

(* checkpoint() as it stands. *)
CheckpointExits ==
  /\ sh.pc = "checkpoint"
  /\ \E status \in {0, 1} : Exit(status)
  /\ frozen' = FALSE
  /\ prog' = None
  /\ UNCHANGED <<ready, ckptDone, testDone, image>>

(* checkpoint() for the loop behind it. *)
CheckpointReturns ==
  /\ sh.pc = "checkpoint"
  /\ prog.main # "exit"
  /\ image' = prog
  /\ Goto("touch")
  /\ UNCHANGED <<prog, ready, ckptDone, testDone, frozen>>

(* touch checkpoint-done; killall -9; thaw *)
TouchCkptDone ==
  /\ sh.pc = "touch"
  /\ ckptDone' = TRUE
  /\ frozen' = FALSE
  /\ prog' = None
  /\ Goto("restart")
  /\ UNCHANGED <<ready, testDone, image>>

(* restart_container() in the background: one of the states restored, or   *)
(* nothing.                                                                *)
Restart(restored) ==
  /\ sh.pc = "restart"
  /\ prog' \in restored \cup {None}
  /\ Goto("find")
  /\ UNCHANGED <<ready, ckptDone, testDone, frozen, image>>

(* pidof restart *)
FindRestart ==
  /\ sh.pc = "find"
  /\ IF prog = None \/ prog.main = "exit" THEN Exit(1) ELSE Goto("done")
  /\ UNCHANGED <<prog, ready, ckptDone, testDone, frozen, image>>

TouchTestDone ==
  /\ sh.pc = "done"
  /\ testDone' = TRUE
  /\ Goto("wait")
  /\ UNCHANGED <<prog, ready, ckptDone, frozen, image>>

(* wait $nspid; check_for_failure *)
WaitRestart ==
  /\ sh.pc = "wait"
  /\ prog.main = "exit"
  /\ IF prog.fail THEN Exit(1) ELSE sh' = [sh EXCEPT !.pc = "start", !.cnt = @ + 1]
  /\ prog' = None
  /\ UNCHANGED <<ready, ckptDone, testDone, frozen, image>>

ShNext(fresh, restored) ==
  /\ \/ Start(fresh) \/ LoopEnds \/ AwaitReady \/ FailsEarly \/ Freeze
     \/ CheckpointExits \/ CheckpointReturns \/ TouchCkptDone
     \/ Restart(restored) \/ FindRestart \/ TouchTestDone \/ WaitRestart
  /\ UNCHANGED <<test, faults>>

Running == prog # None /\ ~frozen
=============================================================================
