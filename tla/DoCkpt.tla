------------------------------- MODULE DoCkpt -------------------------------
(***************************************************************************)
(* The flag files through which a test program and its wrapper script meet *)
(* (libcrtest/libcrtest.h) and do_ckpt() of libcrtest/common.c, the call   *)
(* that parks a program until its checkpoint has been taken.               *)
(*                                                                         *)
(* The program is a record app with a control point pc, the number op of   *)
(* its current label and whatever else its module gives it.                *)
(***************************************************************************)
EXTENDS Integers

CONSTANT IMAX   \* number of the program's last label (what test -N prints)
ASSUME IMAXAssumption == IMAX \in Nat

Labels == 0 .. IMAX

VARIABLES
  app,     \* the one incarnation of the test program that exists
  log,     \* its log file
  ready,   \* ./checkpoint-ready exists: the program asks for a checkpoint
  done,    \* ./checkpoint-done exists: the script has taken it
  skip     \* ./checkpoint-skip exists: do_ckpt() is a dry run

files == <<ready, done, skip>>

FilesOK == {ready, done, skip} \subseteq BOOLEAN

NoFiles == ready = FALSE /\ done = FALSE /\ skip = FALSE

DoCkptPcs == {"set_ready", "creat", "dry_run", "poll", "unlink"}

\* The control points at which do_ckpt() has announced itself and has not
\* yet been let go; those at which the program is no more (exit status 0,
\* another status, killed by the script).
Parked == {"dry_run", "poll"}
Gone == {"exited", "failed", "killed"}

(* access(CKPT_DRY_RUN) in set_checkpoint_ready(). *)
SetReadyAccess(pc, next) ==
  /\ pc = "set_ready"
  /\ next = IF skip THEN "dry_run" ELSE "creat"
  /\ UNCHANGED files

(* creat(CKPT_READY) in set_checkpoint_ready(). *)
SetReadyCreat(pc, next) ==
  /\ pc = "creat"
  /\ next = "dry_run"
  /\ ready' = TRUE
  /\ UNCHANGED <<done, skip>>

(* access(CKPT_DRY_RUN) in do_ckpt(). *)
DryRunAccess(pc, next, after) ==
  /\ pc = "dry_run"
  /\ next = IF skip THEN after ELSE "poll"
  /\ UNCHANGED files

(* while (!test_checkpoint_done()) usleep(10000); the step that leaves.    *)
PollDone(pc, next) ==
  /\ pc = "poll"
  /\ skip \/ done
  /\ next = "unlink"
  /\ UNCHANGED files

\* Mutant: checkpoint-done is left behind for the next label.
UnlinkDoneForgotten(pc, next, after) ==
  /\ pc = "unlink"
  /\ next = after
  /\ UNCHANGED files

(* unlink(CKPT_DONE), whose failure is ignored. *)
UnlinkDone(pc, next, after) ==
  /\ pc = "unlink"
  /\ next = after
  /\ done' = FALSE
  /\ UNCHANGED <<ready, skip>>

(* One system call of do_ckpt(); after is the return address.              *)
CallDoCkpt(after) ==
  /\ \E next \in DoCkptPcs \cup {after} :
        /\ \/ SetReadyAccess(app.pc, next)
           \/ SetReadyCreat(app.pc, next)
           \/ DryRunAccess(app.pc, next, after)
           \/ PollDone(app.pc, next)
           \/ UnlinkDone(app.pc, next, after)
        /\ app' = [app EXCEPT !.pc = next]
  /\ UNCHANGED log
=============================================================================
