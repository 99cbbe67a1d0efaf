--------------------------- MODULE CkptAllLabels ---------------------------
(***************************************************************************)
(* eventfd/run.sh and fs/notify/run.sh: run a labelled test program once,  *)
(* checkpoint it at every label, let it finish, then restart every image   *)
(* and compare the logs.                                                   *)
(*                                                                         *)
(* The program's own steps are in the modules that complete this one       *)
(* (LabelHarness, EventfdRw).  checkpoint, restart and the freezer are     *)
(* outside the repository and modelled by what the scripts use of them.    *)
(***************************************************************************)
EXTENDS DoCkpt

CONSTANTS
  RemoveReady,  \* the script removes checkpoint-ready after a checkpoint
  InFreezer,    \* the program sits in the cgroup the script freezes
  NoImage       \* "no checkpoint file yet"

ASSUME ScriptAssumption ==
  /\ RemoveReady \in BOOLEAN
  /\ InFreezer \in BOOLEAN

VARIABLES
  frozen,  \* state of the script's freezer cgroup
  sh,      \* the script: [pc, i, failed, passed]
  logs,    \* log.${T}.${I}.${TLABEL}: the log copied at checkpoint I
  image,   \* checkpoint-${T}.${I}.${TLABEL}
  orig     \* log.${T}.orig

scriptVars == <<sh, logs, image, orig>>
vars == <<files, frozen, app, log, scriptVars>>

ScriptPcs == {"await", "freeze", "copy", "checkpoint", "rm", "touch", "thaw",
              "redo", "wait", "restart", "run", "diff", "end", "exit"}

ScriptOK ==
  /\ frozen \in BOOLEAN
  /\ sh \in [pc : ScriptPcs, i : Labels, failed : {0, 1}, passed : SUBSET Labels]

ScriptInit ==
  /\ NoFiles
  /\ frozen = FALSE
  /\ sh = [pc |-> "await", i |-> 0, failed |-> 0, passed |-> {}]
  /\ logs = [l \in Labels |-> NoImage]
  /\ image = [l \in Labels |-> NoImage]
  /\ orig = NoImage

\* The program can run: it is not held by the freezer.
Thawed == ~(frozen /\ InFreezer)

Goto(pc) == sh' = [sh EXCEPT !.pc = pc]

-----------------------------------------------------------------------------
(* First loop: wait for the program to park itself at a label.             *)
AwaitReady ==
  /\ sh.pc = "await"
  /\ ready
  /\ Goto("freeze")
  /\ UNCHANGED <<files, frozen, app, log, logs, image, orig>>

(* freeze: returns once the cgroup reports FROZEN. *)
Freeze ==
  /\ sh.pc = "freeze"
  /\ frozen' = TRUE
  /\ Goto("copy")
  /\ UNCHANGED <<files, app, log, logs, image, orig>>

CopyLog ==
  /\ sh.pc = "copy"
  /\ logs' = [logs EXCEPT ![sh.i] = log]
  /\ Goto("checkpoint")
  /\ UNCHANGED <<files, frozen, app, log, image, orig>>

(* checkpoint writes the state of the program; it cannot when there is no  *)
(* program any more, and may fail for reasons of its own.                  *)
Checkpoint ==
  /\ sh.pc = "checkpoint"
  /\ app.pc \notin Gone
  /\ image' = [image EXCEPT ![sh.i] = app]
  /\ Goto(IF RemoveReady THEN "rm" ELSE "touch")
  /\ UNCHANGED <<files, frozen, app, log, logs, orig>>

(* trap 'thaw; do_err; break 2' ERR: the program is killed.                *)
CheckpointFails ==
  /\ sh.pc = "checkpoint"
  /\ frozen' = FALSE
  /\ app' = IF app.pc \in Gone THEN app ELSE [app EXCEPT !.pc = "killed"]
  /\ sh' = [sh EXCEPT !.pc = "end", !.failed = 1]
  /\ UNCHANGED <<files, log, logs, image, orig>>

\* Mutant: the script does not reset checkpoint-ready.
RmReadyForgotten ==
  /\ sh.pc = "rm"
  /\ Goto("touch")
  /\ UNCHANGED <<files, frozen, app, log, logs, image, orig>>

RmReady ==
  /\ sh.pc = "rm"
  /\ ready' = FALSE
  /\ Goto("touch")
  /\ UNCHANGED <<done, skip, frozen, app, log, logs, image, orig>>

TouchDone ==
  /\ sh.pc = "touch"
  /\ done' = TRUE
  /\ Goto("thaw")
  /\ UNCHANGED <<ready, skip, frozen, app, log, logs, image, orig>>

(* thaw, and the loop's I = I + 1. *)
Thaw ==
  /\ sh.pc = "thaw"
  /\ frozen' = FALSE
  /\ sh' = IF sh.i = IMAX THEN [sh EXCEPT !.pc = "redo"]
                          ELSE [sh EXCEPT !.pc = "await", !.i = @ + 1]
  /\ UNCHANGED <<files, app, log, logs, image, orig>>

(* while [ ! -r checkpoint-done ]; do touch checkpoint-done; done          *)
Redo ==
  /\ sh.pc = "redo"
  /\ done' = TRUE
  /\ IF done THEN Goto("wait") ELSE UNCHANGED sh
  /\ UNCHANGED <<ready, skip, frozen, app, log, logs, image, orig>>

(* wait ${TEST_PID} || /bin/true; mv log.${T} log.${T}.orig                *)
WaitOriginal ==
  /\ sh.pc = "wait"
  /\ app.pc \in Gone
  /\ orig' = log
  /\ sh' = [sh EXCEPT !.pc = "restart", !.i = 0]
  /\ UNCHANGED <<files, frozen, app, log, logs, image>>

-----------------------------------------------------------------------------
\* Mutants: the log of the original run is left in place; the flag files that
\* make do_ckpt() a dry run are not created.
RestartKeepsLog ==
  /\ sh.pc = "restart"
  /\ ready' = TRUE /\ done' = TRUE /\ skip' = TRUE
  /\ app' = image[sh.i]
  /\ Goto("run")
  /\ UNCHANGED <<frozen, log, logs, image, orig>>

RestartNoTouch ==
  /\ sh.pc = "restart"
  /\ log' = logs[sh.i]
  /\ app' = image[sh.i]
  /\ Goto("run")
  /\ UNCHANGED <<files, frozen, logs, image, orig>>

(* Second loop: touch ready, done and skip, put the log back, restart.     *)
Restart ==
  /\ sh.pc = "restart"
  /\ ready' = TRUE /\ done' = TRUE /\ skip' = TRUE
  /\ log' = logs[sh.i]
  /\ app' = image[sh.i]
  /\ Goto("run")
  /\ UNCHANGED <<frozen, logs, image, orig>>

(* The restart itself fails, or copies a non-zero status: the ERR trap.    *)
RestartFails ==
  /\ \/ /\ sh.pc = "restart"
        /\ ready' = TRUE /\ done' = TRUE /\ skip' = TRUE
        /\ log' = logs[sh.i]
     \/ /\ sh.pc = "run"
        /\ app.pc = "failed"
        /\ UNCHANGED <<files, log>>
  /\ sh' = [sh EXCEPT !.pc = "end", !.failed = 1]
  /\ UNCHANGED <<frozen, app, logs, image, orig>>

\* Mutant: no --copy-status, any exit status will do.
RestartAnyStatus ==
  /\ sh.pc = "run"
  /\ app.pc \in {"exited", "failed"}
  /\ Goto("diff")
  /\ UNCHANGED <<files, frozen, app, log, logs, image, orig>>

RestartReturns ==
  /\ sh.pc = "run"
  /\ app.pc = "exited"
  /\ Goto("diff")
  /\ UNCHANGED <<files, frozen, app, log, logs, image, orig>>

(* diff runs with the ERR trap set to '': whatever it finds, the script    *)
(* goes on to echo PASS, removes this label's files and takes the next.    *)
DiffLogs ==
  /\ sh.pc = "diff"
  /\ sh' = [sh EXCEPT !.passed = @ \cup {sh.i},
                      !.pc = IF sh.i = IMAX THEN "end" ELSE "restart",
                      !.i = IF sh.i = IMAX THEN @ ELSE @ + 1]
  /\ logs' = [logs EXCEPT ![sh.i] = NoImage]
  /\ image' = [image EXCEPT ![sh.i] = NoImage]
  /\ UNCHANGED <<files, frozen, app, log, orig>>

(* rm -f checkpoint-{ready,done,skip}; exit ${failed}                      *)
Finish ==
  /\ sh.pc = "end"
  /\ ready' = FALSE /\ done' = FALSE /\ skip' = FALSE
  /\ Goto("exit")
  /\ UNCHANGED <<frozen, app, log, logs, image, orig>>

ScriptNext ==
  \/ AwaitReady \/ Freeze \/ CopyLog \/ Checkpoint \/ CheckpointFails
  \/ RmReady \/ TouchDone \/ Thaw \/ Redo \/ WaitOriginal
  \/ Restart \/ RestartFails \/ RestartReturns \/ DiffLogs \/ Finish

\* The first loop polls for a checkpoint-ready nobody is left to create.
Abandoned == sh.pc = "await" /\ ~ready /\ app.pc \in Gone

\* Nothing more will happen: the script has exited, or polls for good.
Over == (sh.pc = "exit" \/ Abandoned) /\ UNCHANGED vars
=============================================================================
