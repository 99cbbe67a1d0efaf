---------------------------- MODULE EpollHarness ----------------------------
(***************************************************************************)
(* epoll/run.sh: every test program is run once with -l LABEL for its      *)
(* first label, checkpointed there, waited for, and restarted.             *)
(*                                                                         *)
(* ((IMAX = $(./${T} -N))) is run where the program is not: IMAX stays    *)
(* -1, and each test is run at label 0 only.  (IMAX of DoCkpt is the       *)
(* program's.)  -l sets ckpt_label; ckpt_op_num keeps the last label that  *)
(* parse_args() gave it.  No program of this suite creates TBROK.          *)
(***************************************************************************)
EXTENDS LabelProgram

CONSTANT NumTests

VARIABLES frozen, image, copy, esh

evars == <<programVars, files, frozen, image, copy, esh>>

EpollInit ==
  /\ NoFiles
  /\ Started
  /\ broken \in -1 .. IMAX
  /\ frozen = FALSE
  /\ image = app
  /\ copy = 0
  /\ esh = [pc |-> "await", cur |-> 0, failed |-> 0]

EGoto(pc) == esh' = [esh EXCEPT !.pc = pc]

\* trap 'do_err; break' ERR EXIT: kill the program, count, thaw, leave the loop.
DoErr ==
  /\ frozen' = FALSE
  /\ app' = IF app.pc \in Gone THEN app ELSE [app EXCEPT !.pc = "killed"]
  /\ esh' = [esh EXCEPT !.pc = "exit", !.failed = @ + 1]

EAwait ==
  /\ esh.pc = "await"
  /\ ready
  /\ EGoto("freeze")
  /\ UNCHANGED <<files, programVars, frozen, image, copy>>

(* freeze, and the copy of the log. *)
EFreeze ==
  /\ esh.pc = "freeze"
  /\ frozen' = TRUE
  /\ copy' = log
  /\ EGoto("checkpoint")
  /\ UNCHANGED <<files, programVars, image>>

ECheckpoint ==
  /\ esh.pc = "checkpoint"
  /\ \/ /\ app.pc \notin Gone
        /\ image' = app
        /\ EGoto("thaw")
        /\ UNCHANGED <<app, frozen>>
     \/ DoErr /\ UNCHANGED image
  /\ UNCHANGED <<files, log, broken, copy>>

EThaw ==
  /\ esh.pc = "thaw"
  /\ frozen' = FALSE
  /\ EGoto("touch")
  /\ UNCHANGED <<files, programVars, image, copy>>

ETouchDone ==
  /\ esh.pc = "touch"
  /\ done' = TRUE
  /\ EGoto("wait")
  /\ UNCHANGED <<ready, skip, programVars, frozen, image, copy>>

(* wait ${TEST_PID}; a status other than 0 trips the ERR trap.             *)
EWait ==
  /\ esh.pc = "wait"
  /\ app.pc \in Gone
  /\ IF app.pc = "exited" THEN EGoto("restart") /\ UNCHANGED <<app, frozen>> ELSE DoErr
  /\ UNCHANGED <<files, log, broken, image, copy>>

(* The log is put back; no flag file is touched.                           *)
ERestart ==
  /\ esh.pc = "restart"
  /\ log' = copy
  /\ \/ app' = image /\ EGoto("run") /\ UNCHANGED frozen
     \/ DoErr
  /\ UNCHANGED <<files, broken, image, copy>>

(* PASS, and the next test: rm -f checkpoint-{ready,done}, start it.       *)
ERestarted ==
  /\ esh.pc = "run"
  /\ app.pc \in Gone
  /\ IF app.pc # "exited" THEN DoErr /\ UNCHANGED <<files, log>>
     ELSE IF esh.cur + 1 = NumTests THEN EGoto("exit") /\ UNCHANGED <<files, frozen, app, log>>
     ELSE /\ esh' = [esh EXCEPT !.pc = "await", !.cur = @ + 1]
          /\ ready' = FALSE /\ done' = FALSE
          /\ app' = [pc |-> "action", op |-> 0]
          /\ log' = 0
          /\ UNCHANGED <<skip, frozen>>
  /\ UNCHANGED <<broken, image, copy>>

EpollScript ==
  \/ EAwait \/ EFreeze \/ ECheckpoint \/ EThaw \/ ETouchDone \/ EWait
  \/ ERestart \/ ERestarted

EpollProgram == ~frozen /\ ProgramStep /\ UNCHANGED <<frozen, image, copy, esh>>

(* The program is scheduled, and the script's commands return. *)
EpollSpec ==
  /\ EpollInit
  /\ [][EpollScript \/ EpollProgram]_evars
  /\ WF_evars(EpollScript) /\ WF_evars(EpollProgram)

-----------------------------------------------------------------------------
(* "-l Wait for checkpoint at LABEL", "You may only specify one LABEL or   *)
(* NUM" (epoll/pipe.c:8,12): the program waits for one checkpoint, so that *)
(* after its checkpoint-done it ends, and the script's wait returns.       *)
OriginalEnds == esh.pc = "wait" ~> esh.pc # "wait"
=============================================================================
